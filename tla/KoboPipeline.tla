----------------------------- MODULE KoboPipeline -----------------------------
(***************************************************************************)
(* From a staged Kobo submission to an operational row                     *)
(* (apps/integrations/kobo: processors.py, services/territorial_routing.py, *)
(* services/automation.py, services/importers.py, import_handlers.py,      *)
(* services/territorial_administration.py).                                *)
(*                                                                         *)
(* Workers (webhook requests, the incremental synchronisation, management   *)
(* commands, operators of the hub) normalise a submission, route it to a    *)
(* project and import it, each of them one transaction after another, with  *)
(* the object they read first still in memory.  A Ficha 1 (a master)       *)
(* creates or confirms the territorial identity of its nucleus code in the  *)
(* project its zone is mapped to; Fichas 10 and 11 (dependents) only follow *)
(* an existing one.  Administrators change mappings, conflicts and          *)
(* identities meanwhile.                                                   *)
(*                                                                         *)
(* A payload is what routing reads in it: nucleus code, zone, and whether   *)
(* it can be normalised.  Import contracts that depend on nothing modelled  *)
(* here (scores, asset, project status) are the free choice of ImportFails. *)
(***************************************************************************)
EXTENDS Naturals, FiniteSets

CONSTANTS Masters,     \* Ficha 1 submissions
          Dependents,  \* Ficha 10 and Ficha 11 submissions
          Payloads,    \* records [code, zone, valid]
          Codes,       \* normalised nucleus codes
          Zones,       \* pastoral zones
          Projects,
          Workers,
          None         \* SQL NULL

Submissions == Masters \cup Dependents

ASSUME PipelineAssumption ==
    /\ Masters \cap Dependents = {}
    /\ Payloads \subseteq [code : Codes \cup {None}, zone : Zones \cup {None}, valid : BOOLEAN]
    /\ None \notin Submissions \cup Payloads \cup Codes \cup Zones \cup Projects

VARIABLES
    row,        \* KoboSubmission rows
    material,   \* what was materialised from a submission, with its KoboImportRecord
    identity,   \* KoboTerritorialIdentity rows, one per code
    mapping,    \* the active KoboPastoralZoneProjectMapping of each zone
    conflicts,  \* the OPEN KoboTerritorialIdentityConflict rows
    task        \* what each worker is doing

vars == <<row, material, identity, mapping, conflicts, task>>

-------------------------------------------------------------------------------

RowStatus == {"absent", "received", "validation_failed", "processing_failed",
              "ready_for_review", "approved_for_import", "imported"}

RoutingStatus == {"unresolved", "pending_identity", "resolved", "conflict", "error"}

IdentityStatus == {"absent", "pending_review", "active", "observed", "inactive"}

ProcessableStatuses == {"received", "validation_failed", "processing_failed"}

RowType ==
    [status  : RowStatus,
     raw     : Payloads \cup {None},       \* raw_payload
     normal  : Payloads \cup {None},       \* normalized_payload and the columns taken from it
     routing : RoutingStatus,
     project : Projects \cup {None},
     timed   : BOOLEAN,                    \* remote_updated_at is set
     pending : BOOLEAN]                    \* remote_update_pending

MaterialType == [project : Projects, code : Codes, rows : 1..2]   \* 2: more than one

ASSUME NullAssumption == None \notin MaterialType

IdentityType ==
    [status  : IdentityStatus,
     zone    : Zones \cup {None},
     project : Projects \cup {None},
     source  : Submissions \cup {None}]

ConflictType == [code : Codes, sub : Submissions, zone : Zones, project : Projects]

\* A worker between two of its transactions, or inside the one that routes.
TaskType ==
    [at   : {"idle", "process", "reopen", "route", "routing", "auto", "import", "blocked"},
     sub  : Submissions \cup {None},
     raw  : Payloads \cup {None},          \* raw_payload of the object in memory
     copy : RowType,                       \* the locked row, while routing
     seen : Projects \cup {None}]          \* what routing read before it writes

NoRow == [status |-> "absent", raw |-> None, normal |-> None, routing |-> "unresolved",
          project |-> None, timed |-> FALSE, pending |-> FALSE]

NoIdentity == [status |-> "absent", zone |-> None, project |-> None, source |-> None]

Idle == [at |-> "idle", sub |-> None, raw |-> None, copy |-> NoRow, seen |-> None]

Init ==
    /\ row       = [s \in Submissions |-> NoRow]
    /\ material  = [s \in Submissions |-> None]
    /\ identity  = [c \in Codes |-> NoIdentity]
    /\ mapping   = [z \in Zones |-> None]
    /\ conflicts = {}
    /\ task      = [w \in Workers |-> Idle]

At(w, phase)    == task[w].at = phase
Become(w, t)    == task' = [task EXCEPT ![w] = t]
Go(w, phase)    == task' = [task EXCEPT ![w] = [Idle EXCEPT !.at = phase, !.sub = task[w].sub]]
Code(r)         == IF r.normal = None THEN None ELSE r.normal.code
Zone(r)         == IF r.normal = None THEN None ELSE r.normal.zone
Known(c)        == c # None /\ identity[c].status # "absent"

\* No other transaction holds the row lock of s.
Free(s) == \A w \in Workers : ~(At(w, "routing") /\ task[w].sub = s)

-------------------------------------------------------------------------------
(* Arrival.                                                                *)

\* receive_webhook_submission; a row staged like this has no remote timestamp.
ReceiveWebhook(s, p) ==
    /\ row[s].status = "absent"
    /\ row' = [row EXCEPT ![s] = [NoRow EXCEPT !.status = "received", !.raw = p]]
    /\ UNCHANGED <<material, identity, mapping, conflicts, task>>

\* A row staged for the first time, or reset by _reset_derived_submission_fields.
Staged(p) == [NoRow EXCEPT !.status = "received", !.raw = p, !.timed = TRUE]

\* sync_asset_submissions takes a new revision of s: the row is created or reset,
\* and the worker goes on with the object it saved; a protected one is flagged.
StageItem(w, s, p) ==
    /\ At(w, "idle")
    /\ Free(s)
    /\ row[s].raw # p
    /\ \/ /\ row[s].status = "absent" \/ row[s].timed
          /\ row[s].status \notin {"approved_for_import", "imported"}
          /\ row' = [row EXCEPT ![s] = Staged(p)]
          /\ Become(w, [Idle EXCEPT !.at = "process", !.sub = s, !.raw = p])
       \/ /\ row[s].timed
          /\ row[s].status \in {"approved_for_import", "imported"}
          /\ row' = [row EXCEPT ![s].pending = TRUE]
          /\ UNCHANGED task
    /\ UNCHANGED <<material, identity, mapping, conflicts>>

-------------------------------------------------------------------------------
(* Normalisation.                                                          *)

\* process_pending_submissions and the commands: rows are selected, without a
\* lock, long before their turn comes.
Select(w, s) ==
    /\ At(w, "idle")
    /\ row[s].status \in ProcessableStatuses
    /\ Become(w, [Idle EXCEPT !.at = "process", !.sub = s, !.raw = row[s].raw])
    /\ UNCHANGED <<row, material, identity, mapping, conflicts>>

Normalized(r, p) == [r EXCEPT !.normal = p, !.status = "ready_for_review"]

\* process_submission on the object in memory: its columns are saved over
\* whatever the row is by now.
Process(w) ==
    LET s == task[w].sub
        p == task[w].raw
    IN  /\ At(w, "process")
        /\ Free(s)
        /\ \/ /\ p.valid
              /\ row' = [row EXCEPT ![s] = Normalized(@, p)]
              /\ Go(w, "route")
           \/ /\ ~p.valid
              /\ row' = [row EXCEPT ![s].status = "validation_failed"]
              /\ Become(w, Idle)
        /\ UNCHANGED <<material, identity, mapping, conflicts>>

\* The same, interrupted by an unexpected exception.
ProcessFails(w) ==
    /\ At(w, "process")
    /\ Free(task[w].sub)
    /\ row' = [row EXCEPT ![task[w].sub].status = "processing_failed"]
    /\ Become(w, Idle)
    /\ UNCHANGED <<material, identity, mapping, conflicts>>

-------------------------------------------------------------------------------
(* Routing.  The transaction locks its submission, reads the mapping of the *)
(* zone or looks for the identity, and writes: two steps, because neither   *)
(* a mapping nor the absence of an identity is locked by reading it.        *)

Sighted(s, r) ==
    IF s \in Masters THEN (IF Zone(r) = None THEN None ELSE mapping[Zone(r)])
    ELSE (IF Known(Code(r)) THEN identity[Code(r)].project ELSE None)

Routing(s, r) == [at |-> "routing", sub |-> s, raw |-> None, copy |-> r, seen |-> Sighted(s, r)]

BeginRoute(w) ==
    /\ At(w, "route")
    /\ Free(task[w].sub)
    /\ Become(w, Routing(task[w].sub, row[task[w].sub]))
    /\ UNCHANGED <<row, material, identity, mapping, conflicts>>

\* converge_webhook_submission: normalisation and routing in one transaction,
\* on the locked row.
Converge(w, s) ==
    LET r == IF row[s].status \notin ProcessableStatuses THEN row[s]
             ELSE IF row[s].raw.valid THEN Normalized(row[s], row[s].raw)
             ELSE [row[s] EXCEPT !.status = "validation_failed"]
    IN  /\ At(w, "idle")
        /\ row[s].status # "absent"
        /\ Free(s)
        /\ \/ /\ r.status = "ready_for_review"
              /\ Become(w, Routing(s, r))
              /\ UNCHANGED row
           \/ /\ r.status # "ready_for_review"
              /\ row' = [row EXCEPT ![s] = r]
              /\ Become(w, [Idle EXCEPT !.at = "auto", !.sub = s])
        /\ UNCHANGED <<material, identity, mapping, conflicts>>

Failed(r)      == [r EXCEPT !.routing = "error", !.project = None]
Resolved(r, p) == [r EXCEPT !.routing = "resolved", !.project = p]
Assigned(r)    == r.routing \in {"resolved", "conflict"} /\ r.project # None

\* route_dependent_territorial_submission, once it has (not) seen an identity.
Followed(r, seen) ==
    IF Code(r) = None THEN Failed(r)
    ELSE IF seen = None
      THEN IF Assigned(r) THEN [r EXCEPT !.routing = "conflict"]
           ELSE [r EXCEPT !.routing = "pending_identity", !.project = None]
      ELSE IF Assigned(r) /\ r.project # identity[Code(r)].project
             THEN [r EXCEPT !.routing = "conflict"]
             ELSE Resolved(r, identity[Code(r)].project)

RouteDependent(w) ==
    LET t == task[w]
    IN  /\ At(w, "routing") /\ t.sub \in Dependents
        /\ t.copy.status = "ready_for_review"
        /\ row' = [row EXCEPT ![t.sub] = Followed(t.copy, t.seen)]
        /\ Go(w, "auto")
        /\ UNCHANGED <<material, identity, mapping, conflicts>>

\* The dependents _reconcile_pending_submissions finds for a code.
Waiting(c) == {d \in Dependents : /\ Code(row[d]) = c
                                  /\ row[d].routing = "pending_identity"
                                  /\ row[d].project = None}

\* route_ficha_1_submission without a code, a zone or a mapping.
RejectMaster(w) ==
    LET t == task[w]
    IN  /\ At(w, "routing") /\ t.sub \in Masters
        /\ t.copy.status # "imported"
        /\ Code(t.copy) = None \/ t.seen = None
        /\ row' = [row EXCEPT ![t.sub] = Failed(t.copy)]
        /\ Go(w, "auto")
        /\ UNCHANGED <<material, identity, mapping, conflicts>>

Agrees(c, z, p) == identity[c].zone = z /\ identity[c].project = p

\* route_ficha_1_submission: the identity is created, or confirmed (also when
\* another worker has just created it), and the dependents that wait for it are
\* routed in the same transaction.
RouteMaster(w) ==
    LET t == task[w]
        c == Code(t.copy)
        z == Zone(t.copy)
    IN  /\ At(w, "routing") /\ t.sub \in Masters
        /\ t.copy.status # "imported"
        /\ c # None /\ t.seen # None
        /\ Known(c) => Agrees(c, z, t.seen)
        /\ \A d \in Waiting(c) : Free(d) /\ row[d].status = "ready_for_review"
        /\ identity' = IF Known(c) THEN identity
                       ELSE [identity EXCEPT ![c] = [status |-> "pending_review", zone |-> z,
                                                     project |-> t.seen, source |-> t.sub]]
        /\ row' = [s \in Submissions |->
                      IF s = t.sub THEN Resolved(t.copy, t.seen)
                      ELSE IF s \in Waiting(c) THEN Resolved(row[s], t.seen)
                      ELSE row[s]]
        /\ Go(w, "auto")
        /\ UNCHANGED <<material, mapping, conflicts>>

\* route_ficha_1_submission against an identity with another zone or project.
\* An OPEN conflict of the same submission and zone is not opened again.
DisputeMaster(w) ==
    LET t == task[w]
        c == Code(t.copy)
        z == Zone(t.copy)
    IN  /\ At(w, "routing") /\ t.sub \in Masters
        /\ t.copy.status # "imported"
        /\ c # None /\ t.seen # None
        /\ Known(c) /\ ~Agrees(c, z, t.seen)
        /\ conflicts' = IF \E k \in conflicts : k.code = c /\ k.sub = t.sub /\ k.zone = z
                        THEN conflicts
                        ELSE conflicts \cup {[code |-> c, sub |-> t.sub, zone |-> z,
                                              project |-> t.seen]}
        /\ row' = [row EXCEPT ![t.sub] = [t.copy EXCEPT !.routing = "conflict",
                                                        !.project = None]]
        /\ Go(w, "auto")
        /\ UNCHANGED <<material, identity, mapping>>

-------------------------------------------------------------------------------
(* Automatic import.                                                       *)

Eligible(r) ==
    /\ r.status \in {"ready_for_review", "approved_for_import"}
    /\ ~r.pending
    /\ r.routing = "resolved"
    /\ r.project # None

\* auto_import_if_eligible is also called after a reconciliation and by the hub
\* (it changes nothing for a row that is not eligible).
StartAutoImport(w, s) ==
    /\ At(w, "idle")
    /\ Eligible(row[s])
    /\ Become(w, [Idle EXCEPT !.at = "auto", !.sub = s])
    /\ UNCHANGED <<row, material, identity, mapping, conflicts>>

\* auto_import_if_eligible up to _auto_approve_for_import.
Approve(w) ==
    LET s == task[w].sub
    IN  /\ At(w, "auto")
        /\ Free(s)
        /\ Eligible(row[s])
        /\ row' = [row EXCEPT ![s].status = "approved_for_import"]
        /\ Go(w, "import")
        /\ UNCHANGED <<material, identity, mapping, conflicts>>

LeaveAsIncident(w) ==
    /\ At(w, "auto")
    /\ ~Eligible(row[task[w].sub])
    /\ Become(w, Idle)
    /\ UNCHANGED <<row, material, identity, mapping, conflicts>>

Disputed(c) == \E k \in conflicts : k.code = c

\* What _validate_common_import_preconditions and the handlers ask of the rows.
Routable(s, r) ==
    /\ r.status = "approved_for_import"
    /\ ~r.pending
    /\ r.routing = "resolved" /\ r.project # None
    /\ r.normal # None
    /\ Known(Code(r))
    /\ identity[Code(r)].status # "inactive"
    /\ identity[Code(r)].project = r.project
    /\ s \in Masters => identity[Code(r)].zone = Zone(r)
    /\ ~Disputed(Code(r))

\* Mutant of CanImport: the import record of an earlier import is not looked for.
CanImportTwice(s) == Routable(s, row[s])

CanImport(s) == material[s] = None /\ Routable(s, row[s])

\* _import_kobo_submission_with_handlers: the row of the form, the record and the
\* status in one transaction; a profile activates an identity pending review.
Import(w) ==
    LET s == task[w].sub
        c == Code(row[s])
    IN  /\ At(w, "import")
        /\ Free(s)
        /\ CanImport(s)
        /\ material' = [material EXCEPT ![s] = [project |-> row[s].project, code |-> c,
                                                rows |-> IF @ = None THEN 1 ELSE 2]]
        /\ row' = [row EXCEPT ![s].status = "imported"]
        /\ identity' = IF s \in Masters /\ identity[c].status = "pending_review"
                       THEN [identity EXCEPT ![c].status = "active"] ELSE identity
        /\ Become(w, Idle)
        /\ UNCHANGED <<mapping, conflicts>>

\* Somebody else has imported it.
FindImported(w) ==
    /\ At(w, "import")
    /\ row[task[w].sub].status = "imported"
    /\ Become(w, Idle)
    /\ UNCHANGED <<row, material, identity, mapping, conflicts>>

\* Mutant of ImportFails: the status of the row is saved outside the transaction
\* that rolls back.
ImportFailsHalfway(w) ==
    /\ At(w, "import")
    /\ row[task[w].sub].status # "imported"
    /\ row' = [row EXCEPT ![task[w].sub].status = "imported"]
    /\ Go(w, "blocked")
    /\ UNCHANGED <<material, identity, mapping, conflicts>>

\* A blocker or an exception rolls the import back.
ImportFails(w) ==
    /\ At(w, "import")
    /\ row[task[w].sub].status # "imported"
    /\ Go(w, "blocked")
    /\ UNCHANGED <<row, material, identity, mapping, conflicts>>

\* _record_blocked_import and _record_failed_import, in a transaction of their own.
RecordFailure(w) ==
    /\ At(w, "blocked")
    /\ Free(task[w].sub)
    /\ row' = [row EXCEPT ![task[w].sub].status = "processing_failed"]
    /\ Become(w, Idle)
    /\ UNCHANGED <<material, identity, mapping, conflicts>>

\* retry_auto_import: what it does next rests on a row it read without a lock.
Retry(w, s) ==
    /\ At(w, "idle")
    /\ \/ /\ row[s].status = "processing_failed"
          /\ Become(w, [Idle EXCEPT !.at = "reopen", !.sub = s])
       \/ /\ row[s].status = "ready_for_review"
          /\ Become(w, [Idle EXCEPT !.at = "route", !.sub = s])
    /\ UNCHANGED <<row, material, identity, mapping, conflicts>>

Reopen(w) ==
    /\ At(w, "reopen")
    /\ Free(task[w].sub)
    /\ row' = [row EXCEPT ![task[w].sub].status = "ready_for_review"]
    /\ Go(w, "route")
    /\ UNCHANGED <<material, identity, mapping, conflicts>>

\* The process dies, or an exception leaves the service: the transaction under
\* way, a routing that raises KoboPayloadError included, is rolled back.
Abort(w) ==
    /\ ~At(w, "idle")
    /\ Become(w, Idle)
    /\ UNCHANGED <<row, material, identity, mapping, conflicts>>

-------------------------------------------------------------------------------
(* Administration.                                                         *)

ZoneInUse(z) == \E c \in Codes : identity[c].status # "absent" /\ identity[c].zone = z

\* configure_pastoral_zone_project_mapping
ConfigureMapping(z, p) ==
    /\ mapping[z] # p
    /\ mapping[z] # None => ~ZoneInUse(z)
    /\ mapping' = [mapping EXCEPT ![z] = p]
    /\ UNCHANGED <<row, material, identity, conflicts, task>>

\* deactivate_pastoral_zone_project_mapping
DeactivateMapping(z) ==
    /\ mapping[z] # None
    /\ ~ZoneInUse(z)
    /\ mapping' = [mapping EXCEPT ![z] = None]
    /\ UNCHANGED <<row, material, identity, conflicts, task>>

\* resolve_territorial_identity_conflict, KEEP_EXISTING: the incoming submission
\* is rejected unless it has been imported.
KeepExisting(k) ==
    /\ k \in conflicts
    /\ Free(k.sub)
    /\ row[k.sub].status # "imported"
    /\ material[k.sub] = None
    /\ row' = [row EXCEPT ![k.sub] = Failed(@)]
    /\ conflicts' = conflicts \ {k}
    /\ UNCHANGED <<material, identity, mapping, task>>

DismissConflict(k) ==
    /\ k \in conflicts
    /\ Free(k.sub)
    /\ conflicts' = conflicts \ {k}
    /\ UNCHANGED <<row, material, identity, mapping, task>>

Matching(c) == {s \in Submissions : Code(row[s]) = c}

\* Mutant of HasIncompatibleHistory: only the submissions that carry the code now
\* are looked at, not what the identity has already produced.
HistoryOfSubmissionsOnly(c) ==
    \E s \in Matching(c) : \/ row[s].status = "imported"
                           \/ row[s].routing = "resolved" /\ s # identity[c].source

\* _identity_has_incompatible_history
HasIncompatibleHistory(c) ==
    \/ \E s \in Submissions : material[s] # None /\ material[s].code = c
    \/ \E s \in Matching(c) : \/ material[s] # None
                              \/ row[s].status = "imported"
                              \/ row[s].routing = "resolved" /\ s # identity[c].source

\* resolve_territorial_identity_conflict, ACCEPT_PROPOSED: the identity moves, the
\* incoming submission with it, and what waits for the identity is reconciled.
AcceptProposed(k) ==
    /\ k \in conflicts
    /\ mapping[k.zone] = k.project
    /\ ~HasIncompatibleHistory(k.code)
    /\ \A s \in {k.sub} \cup Matching(k.code) : Free(s)
    /\ identity' = [identity EXCEPT ![k.code].zone = k.zone, ![k.code].project = k.project,
                                    ![k.code].source = k.sub]
    /\ row' = [s \in Submissions |-> IF s \in {k.sub} \cup Waiting(k.code)
                                     THEN Resolved(row[s], k.project) ELSE row[s]]
    /\ conflicts' = conflicts \ {k}
    /\ UNCHANGED <<material, mapping, task>>

\* reconcile_territorial_identity_submissions; the status of a row is not looked at.
Reconcile(c) ==
    /\ Known(c)
    /\ Waiting(c) # {}
    /\ \A d \in Waiting(c) : Free(d)
    /\ row' = [s \in Submissions |-> IF s \in Waiting(c)
                                     THEN Resolved(row[s], identity[c].project) ELSE row[s]]
    /\ UNCHANGED <<material, identity, mapping, conflicts, task>>

\* observe_, activate_observed_ and deactivate_territorial_identity
ChangeIdentityStatus(c, from, to) ==
    /\ identity[c].status \in from
    /\ identity' = [identity EXCEPT ![c].status = to]
    /\ UNCHANGED <<row, material, mapping, conflicts, task>>

-------------------------------------------------------------------------------

SubmissionStep ==
    \E s \in Submissions :
        \/ \E p \in Payloads : ReceiveWebhook(s, p)
        \/ \E w \in Workers :
               \/ \E p \in Payloads : StageItem(w, s, p)
               \/ Select(w, s)
               \/ Converge(w, s)
               \/ StartAutoImport(w, s)
               \/ Retry(w, s)

WorkerStep ==
    \E w \in Workers :
        \/ Process(w) \/ ProcessFails(w)
        \/ BeginRoute(w) \/ RouteDependent(w)
        \/ RejectMaster(w) \/ RouteMaster(w) \/ DisputeMaster(w)
        \/ Approve(w) \/ LeaveAsIncident(w)
        \/ Import(w) \/ FindImported(w) \/ ImportFails(w) \/ RecordFailure(w)
        \/ Reopen(w)
        \/ Abort(w)

AdministrationStep ==
    \/ \E z \in Zones : DeactivateMapping(z) \/ \E p \in Projects : ConfigureMapping(z, p)
    \/ \E k \in conflicts : KeepExisting(k) \/ DismissConflict(k) \/ AcceptProposed(k)
    \/ \E c \in Codes :
           \/ Reconcile(c)
           \/ ChangeIdentityStatus(c, {"pending_review", "active"}, "observed")
           \/ ChangeIdentityStatus(c, {"observed"}, "active")
           \/ ChangeIdentityStatus(c, {"pending_review", "active", "observed"}, "inactive")

Next == SubmissionStep \/ WorkerStep \/ AdministrationStep

Spec == Init /\ [][Next]_vars

-------------------------------------------------------------------------------
(* Invariants.                                                             *)

\* The rows have the types their models declare.
TypeOK ==
    /\ row       \in [Submissions -> RowType]
    /\ material  \in [Submissions -> MaterialType \cup {None}]
    /\ identity  \in [Codes -> IdentityType]
    /\ mapping   \in [Zones -> Projects \cup {None}]
    /\ conflicts \subseteq ConflictType
    /\ task      \in [Workers -> TaskType]

\* What was materialised lies in the project of its territorial identity, although
\* conflicts move identities between projects while submissions are normalised,
\* corrected, routed and imported by several workers.
MaterialFollowsIdentity ==
    \A s \in Submissions : material[s] # None =>
        identity[material[s].code].project = material[s].project

\* IMPORTED means materialised: "IMPORTED = materializacion exitosa +
\* KoboImportRecord trazable" (docs/KOBO.md:378).
ImportedHasRecord ==
    \A s \in Submissions : row[s].status = "imported" => material[s] # None

\* A zone that is mapped keeps its mapping once an identity uses it: "Una zona
\* usada por cualquier identidad no puede cambiarse o quedar sin mapping"
\* (docs/KOBO.md:833).
UsedZoneKeepsItsMapping ==
    \A c \in Codes : identity[c].status # "absent" =>
        mapping[identity[c].zone] = identity[c].project

\* What is about to be imported was read in the payload that is staged.
NormalizedIsCurrent ==
    \A s \in Submissions :
        row[s].status \in {"ready_for_review", "approved_for_import"} => row[s].normal = row[s].raw

\* A dependent that waits for an identity waits for one that does not exist.
PendingMeansUnknown ==
    \A d \in Dependents :
        row[d].routing = "pending_identity" /\ Code(row[d]) # None => ~Known(Code(row[d]))

-------------------------------------------------------------------------------
(* What a step may never do.                                               *)

\* A submission is materialised once, although stale saves, failures recorded late
\* and retries take its row out of IMPORTED: "los bloqueos de fila evitan doble
\* materializacion" (docs/KOBO.md:93).
ImportedOnce ==
    [][\A s \in Submissions : material[s] # None => material'[s] = material[s]]_vars

\* A conflict is resolved "without reassigning imported submissions or rewriting
\* any import record" (territorial_administration.py:306).
ImportedNotReassigned ==
    [][\A s \in Submissions :
           row[s].status = "imported" /\ row'[s].status = "imported" =>
               row'[s].project = row[s].project]_vars

==============================================================================
