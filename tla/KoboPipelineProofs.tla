-------------------------- MODULE KoboPipelineProofs --------------------------
(***************************************************************************)
(* Theorems about KoboPipeline, for any submissions, payloads, zones,      *)
(* projects and workers.                                                   *)
(*                                                                         *)
(* What is materialised is protected by the identity it was imported       *)
(* under: an identity that has produced something exists for good, and     *)
(* the one action that moves an identity looks for what it has produced.   *)
(* A stale copy of a row is never IMPORTED by the time it is written back, *)
(* because routing refuses an imported copy.                               *)
(***************************************************************************)
EXTENDS KoboPipeline, TLAPS

\* A worker that is not idle works on a row that exists; the payload it read before it
\* normalises is one; a master that found a mapping has a zone.
KnowsItsRow(t, rows) ==
    /\ t.at # "idle" => t.sub \in Submissions /\ rows[t.sub].status # "absent"
    /\ t.at = "process" => t.raw \in Payloads
    /\ t.at = "routing" =>
           /\ t.copy.status # "absent" /\ t.copy.raw \in Payloads
           /\ t.sub \in Masters /\ t.seen # None => Zone(t.copy) # None

WorkersKnowTheirRow == \A w \in Workers : KnowsItsRow(task[w], row)

RowsHavePayload == \A s \in Submissions : row[s].status # "absent" => row[s].raw \in Payloads

\* What was materialised under a code keeps the code's identity from being unknown.
MaterialHasIdentity ==
    \A s \in Submissions : material[s] # None => Known(material[s].code)

PipelineInv ==
    /\ TypeOK
    /\ WorkersKnowTheirRow
    /\ RowsHavePayload
    /\ MaterialHasIdentity
    /\ MaterialFollowsIdentity
    /\ ImportedHasRecord

-------------------------------------------------------------------------------
(* What a step does to the rows, to the workers and to what was imported.  *)

\* A row keeps its type and its payload, never disappears, and is IMPORTED only if it was
\* before or is materialised by the step.
RowStep ==
    /\ row' \in [Submissions -> RowType]
    /\ \A s \in Submissions :
           /\ row'[s].status # "absent" => row'[s].raw \in Payloads
           /\ row[s].status # "absent" => row'[s].status # "absent"
           /\ row'[s].status = "imported" => row[s].status = "imported" \/ material'[s] # None

TaskStep ==
    /\ task' \in [Workers -> TaskType]
    /\ \A w \in Workers : KnowsItsRow(task'[w], row')

\* Nothing materialised is lost or moved, and an identity that has produced something stays.
HistoryStep ==
    /\ material' \in [Submissions -> MaterialType \cup {None}]
    /\ identity' \in [Codes -> IdentityType]
    /\ mapping' \in [Zones -> Projects \cup {None}]
    /\ conflicts' \subseteq ConflictType
    /\ \A s \in Submissions :
           /\ material[s] # None => material'[s] = material[s]
           /\ material'[s] # None => /\ identity'[material'[s].code].status # "absent"
                                     /\ identity'[material'[s].code].project = material'[s].project

LEMMA InvInit == Init => PipelineInv
  <1> SUFFICES ASSUME Init PROVE PipelineInv
    OBVIOUS
  <1>1. NoRow \in RowType
    BY DEF NoRow, RowType, RowStatus, RoutingStatus
  <1>2. NoIdentity \in IdentityType
    BY DEF NoIdentity, IdentityType, IdentityStatus
  <1>3. Idle \in TaskType /\ Idle.at = "idle"
    BY <1>1 DEF Idle, TaskType
  <1>4. NoRow.status = "absent"
    BY DEF NoRow
  <1>5. TypeOK
    BY <1>1, <1>2, <1>3 DEF Init, TypeOK
  <1>6. WorkersKnowTheirRow
    BY <1>3 DEF Init, WorkersKnowTheirRow, KnowsItsRow
  <1> QED
    BY <1>4, <1>5, <1>6 DEF PipelineInv, Init, RowsHavePayload, MaterialHasIdentity,
       MaterialFollowsIdentity, ImportedHasRecord

\* The three parts of a step put the invariant together again.
LEMMA PartsMakeInv ==
    ASSUME PipelineInv, RowStep, TaskStep, HistoryStep
    PROVE  PipelineInv'
  <1>1. TypeOK'
    BY DEF TypeOK, RowStep, TaskStep, HistoryStep
  <1>2. WorkersKnowTheirRow'
    BY DEF WorkersKnowTheirRow, TaskStep, KnowsItsRow, Zone
  <1>3. RowsHavePayload'
    BY DEF RowsHavePayload, RowStep
  <1>4. MaterialHasIdentity'
    <2> SUFFICES ASSUME NEW s \in Submissions, material'[s] # None
                 PROVE  Known(material[s].code)'
      BY DEF MaterialHasIdentity
    <2>1. material'[s].code \in Codes
      BY <1>1 DEF TypeOK, MaterialType
    <2> QED
      BY <2>1, PipelineAssumption DEF Known, HistoryStep
  <1>5. MaterialFollowsIdentity'
    BY DEF MaterialFollowsIdentity, HistoryStep
  <1>6. ImportedHasRecord'
    BY DEF PipelineInv, ImportedHasRecord, RowStep, HistoryStep
  <1> QED
    BY <1>1, <1>2, <1>3, <1>4, <1>5, <1>6 DEF PipelineInv

\* A step that leaves material and identities alone keeps their history.
LEMMA HistoryKept ==
    ASSUME PipelineInv, UNCHANGED <<material, identity>>,
           mapping' \in [Zones -> Projects \cup {None}], conflicts' \subseteq ConflictType
    PROVE  HistoryStep
  BY DEF PipelineInv, TypeOK, HistoryStep, MaterialHasIdentity, MaterialFollowsIdentity, Known

\* A worker that turns to its next phase, or stops.
LEMMA BecomeKeeps ==
    ASSUME PipelineInv, RowStep, NEW w \in Workers, NEW t \in TaskType, Become(w, t),
           KnowsItsRow(t, row')
    PROVE  TaskStep
  <1>1. task' \in [Workers -> TaskType]
    BY DEF PipelineInv, TypeOK, Become
  <1>2. ASSUME NEW v \in Workers PROVE KnowsItsRow(task'[v], row')
    <2>1. CASE v = w
      BY <2>1 DEF PipelineInv, TypeOK, Become
    <2>2. CASE v # w
      <3>1. task'[v] = task[v] /\ KnowsItsRow(task[v], row)
        BY <2>2 DEF PipelineInv, TypeOK, Become, WorkersKnowTheirRow
      <3> QED
        BY <3>1 DEF KnowsItsRow, RowStep
    <2> QED
      BY <2>1, <2>2
  <1> QED
    BY <1>1, <1>2 DEF TaskStep

LEMMA IdleTyped ==
    ASSUME NEW rows
    PROVE  Idle \in TaskType /\ KnowsItsRow(Idle, rows)
  <1>1. NoRow \in RowType
    BY DEF NoRow, RowType, RowStatus, RoutingStatus
  <1> QED
    BY <1>1 DEF Idle, TaskType, KnowsItsRow

LEMMA StopKeeps ==
    ASSUME PipelineInv, RowStep, NEW w \in Workers, Become(w, Idle)
    PROVE  TaskStep
  BY IdleTyped, BecomeKeeps

\* A worker that holds nothing but the name of its submission.
LEMMA NamedTyped ==
    ASSUME NEW s \in Submissions, NEW phase \in {"reopen", "route", "auto", "import", "blocked"},
           NEW rows, rows[s].status # "absent"
    PROVE  /\ [Idle EXCEPT !.at = phase, !.sub = s] \in TaskType
           /\ KnowsItsRow([Idle EXCEPT !.at = phase, !.sub = s], rows)
  <1>1. NoRow \in RowType
    BY DEF NoRow, RowType, RowStatus, RoutingStatus
  <1> QED
    BY <1>1 DEF Idle, TaskType, KnowsItsRow

LEMMA GoKeeps ==
    ASSUME PipelineInv, RowStep, NEW w \in Workers, ~At(w, "idle"),
           NEW phase \in {"reopen", "route", "auto", "import", "blocked"}, Go(w, phase)
    PROVE  TaskStep
  <1>1. task[w].sub \in Submissions /\ row[task[w].sub].status # "absent"
    BY DEF PipelineInv, WorkersKnowTheirRow, KnowsItsRow, At
  <1>2. row'[task[w].sub].status # "absent"
    BY <1>1 DEF RowStep
  <1> DEFINE next == [Idle EXCEPT !.at = phase, !.sub = task[w].sub]
  <1>3. next \in TaskType /\ KnowsItsRow(next, row')
    BY <1>1, <1>2, NamedTyped, Zenon
  <1>4. Become(w, next)
    BY DEF Go, Become
  <1> HIDE DEF next
  <1> QED
    BY <1>3, <1>4, BecomeKeeps

LEMMA TasksKept ==
    ASSUME PipelineInv, RowStep, UNCHANGED task
    PROVE  TaskStep
  BY DEF PipelineInv, TypeOK, TaskStep, WorkersKnowTheirRow, RowStep, KnowsItsRow

LEMMA RowsKept ==
    ASSUME PipelineInv, UNCHANGED row
    PROVE  RowStep
  BY DEF PipelineInv, TypeOK, RowStep, RowsHavePayload

\* One row is written: what it becomes must be typed, and must not become IMPORTED.
LEMMA RowWritten ==
    ASSUME PipelineInv, NEW s \in Submissions, NEW r \in RowType,
           row' = [row EXCEPT ![s] = r], r.raw \in Payloads, r.status # "absent",
           r.status = "imported" => row[s].status = "imported" \/ material'[s] # None
    PROVE  RowStep
  BY DEF PipelineInv, TypeOK, RowStep, RowsHavePayload

\* Its status changes, and nothing else of it.
WithStatus(r, st) == [r EXCEPT !.status = st]

LEMMA StatusWritten ==
    ASSUME PipelineInv, NEW s \in Submissions, row[s].status # "absent",
           NEW st \in RowStatus, st # "absent", st = "imported" => material'[s] # None,
           NEW r, r = WithStatus(row[s], st), row' = [row EXCEPT ![s] = r]
    PROVE  RowStep
  <1>1. r \in RowType /\ r.raw = row[s].raw /\ r.status = st
    BY DEF PipelineInv, TypeOK, RowType, WithStatus
  <1>2. r.raw \in Payloads
    BY <1>1 DEF PipelineInv, RowsHavePayload
  <1> QED
    BY <1>1, <1>2, RowWritten

-------------------------------------------------------------------------------
(* The steps.                                                              *)

Kept == RowStep /\ TaskStep /\ HistoryStep

\* What a worker at work knows of its row.
LEMMA AtWork ==
    ASSUME PipelineInv, NEW w \in Workers, ~At(w, "idle")
    PROVE  /\ task[w].sub \in Submissions
           /\ row[task[w].sub].status # "absent"
           /\ row[task[w].sub] \in RowType
           /\ row[task[w].sub].raw \in Payloads
  BY DEF PipelineInv, TypeOK, WorkersKnowTheirRow, KnowsItsRow, At, RowsHavePayload

LEMMA Unmoved ==
    ASSUME PipelineInv, UNCHANGED <<material, identity, mapping, conflicts>>
    PROVE  HistoryStep
  BY HistoryKept DEF PipelineInv, TypeOK

\* A new row has the payload it was staged with.
LEMMA StagedTyped ==
    ASSUME NEW p \in Payloads
    PROVE  Staged(p) \in RowType /\ Staged(p).raw = p /\ Staged(p).status = "received"
  BY DEF Staged, NoRow, RowType, RowStatus, RoutingStatus

LEMMA ProcessTyped ==
    ASSUME NEW s \in Submissions, NEW p \in Payloads, NEW rows, rows[s].status # "absent"
    PROVE  /\ [Idle EXCEPT !.at = "process", !.sub = s, !.raw = p] \in TaskType
           /\ KnowsItsRow([Idle EXCEPT !.at = "process", !.sub = s, !.raw = p], rows)
  <1>1. NoRow \in RowType
    BY DEF NoRow, RowType, RowStatus, RoutingStatus
  <1> QED
    BY <1>1 DEF Idle, TaskType, KnowsItsRow

LEMMA ReceiveKeeps ==
    ASSUME PipelineInv, NEW s \in Submissions, NEW p \in Payloads, ReceiveWebhook(s, p)
    PROVE  Kept
  <1> DEFINE r == [NoRow EXCEPT !.status = "received", !.raw = p]
  <1>1. r \in RowType /\ r.raw = p /\ r.status = "received"
    BY DEF NoRow, RowType, RowStatus, RoutingStatus
  <1>2. row' = [row EXCEPT ![s] = r] /\ UNCHANGED <<material, identity, mapping, conflicts, task>>
    BY DEF ReceiveWebhook
  <1> HIDE DEF r
  <1>3. RowStep
    BY <1>1, <1>2, RowWritten
  <1> QED
    BY <1>2, <1>3, TasksKept, Unmoved DEF Kept

LEMMA StageKeeps ==
    ASSUME PipelineInv, NEW w \in Workers, NEW s \in Submissions, NEW p \in Payloads,
           StageItem(w, s, p)
    PROVE  Kept
  <1>1. HistoryStep
    BY Unmoved DEF StageItem
  <1>2. CASE /\ row' = [row EXCEPT ![s] = Staged(p)]
             /\ Become(w, [Idle EXCEPT !.at = "process", !.sub = s, !.raw = p])
    <2>1. RowStep
      BY <1>2, StagedTyped, RowWritten
    <2> DEFINE next == [Idle EXCEPT !.at = "process", !.sub = s, !.raw = p]
    <2>2. row'[s].status # "absent"
      BY <1>2, StagedTyped DEF PipelineInv, TypeOK
    <2>3. next \in TaskType /\ KnowsItsRow(next, row')
      BY <2>2, ProcessTyped, Zenon
    <2>4. Become(w, next)
      BY <1>2
    <2> HIDE DEF next
    <2>5. TaskStep
      BY <2>1, <2>3, <2>4, BecomeKeeps
    <2> QED
      BY <1>1, <2>1, <2>5 DEF Kept
  <1>3. CASE /\ row[s].timed
             /\ row[s].status \in {"approved_for_import", "imported"}
             /\ row' = [row EXCEPT ![s].pending = TRUE]
             /\ UNCHANGED task
    <2> DEFINE r == [row[s] EXCEPT !.pending = TRUE]
    <2>1. r \in RowType /\ r.raw = row[s].raw /\ r.status = row[s].status
      BY DEF PipelineInv, TypeOK, RowType
    <2>2. row' = [row EXCEPT ![s] = r]
      BY <1>3 DEF PipelineInv, TypeOK
    <2>3. r.raw \in Payloads /\ r.status # "absent"
      BY <1>3, <2>1 DEF PipelineInv, RowsHavePayload
    <2> HIDE DEF r
    <2>4. RowStep
      BY <2>1, <2>2, <2>3, RowWritten
    <2> QED
      BY <1>1, <1>3, <2>4, TasksKept DEF Kept
  <1> QED
    BY <1>2, <1>3 DEF StageItem

LEMMA SelectKeeps ==
    ASSUME PipelineInv, NEW w \in Workers, NEW s \in Submissions, Select(w, s)
    PROVE  Kept
  <1> DEFINE next == [Idle EXCEPT !.at = "process", !.sub = s, !.raw = row[s].raw]
  <1>1. row[s].status # "absent" /\ row' = row /\ Become(w, next)
    BY DEF Select, ProcessableStatuses
  <1>2. row[s].raw \in Payloads
    BY <1>1 DEF PipelineInv, RowsHavePayload
  <1>3. next \in TaskType /\ KnowsItsRow(next, row')
    BY <1>1, <1>2, ProcessTyped, Zenon
  <1> HIDE DEF next
  <1>4. RowStep
    BY <1>1, RowsKept
  <1>5. TaskStep
    BY <1>1, <1>3, <1>4, BecomeKeeps
  <1> QED
    BY <1>4, <1>5, Unmoved DEF Kept, Select

LEMMA ProcessKeeps ==
    ASSUME PipelineInv, NEW w \in Workers, Process(w)
    PROVE  Kept
  <1> DEFINE s == task[w].sub
             p == task[w].raw
  <1>1. /\ ~At(w, "idle") /\ HistoryStep
        /\ p \in Payloads
    BY Unmoved DEF Process, At, PipelineInv, WorkersKnowTheirRow, KnowsItsRow
  <1>2. CASE p.valid /\ row' = [row EXCEPT ![s] = Normalized(@, p)] /\ Go(w, "route")
    <2> DEFINE r == Normalized(row[s], p)
    <2>1. r \in RowType /\ r.raw = row[s].raw /\ r.status = "ready_for_review"
      BY <1>1, AtWork DEF Normalized, RowType, RowStatus
    <2>2. row' = [row EXCEPT ![s] = r]
      BY <1>1, <1>2, AtWork DEF PipelineInv, TypeOK
    <2> HIDE DEF r
    <2>3. RowStep
      BY <1>1, <2>1, <2>2, AtWork, RowWritten
    <2> QED
      BY <1>1, <1>2, <2>3, GoKeeps DEF Kept
  <1>3. CASE row' = [row EXCEPT ![s].status = "validation_failed"] /\ Become(w, Idle)
    <2>1. row' = [row EXCEPT ![s] = WithStatus(row[s], "validation_failed")]
      BY <1>3 DEF WithStatus
    <2>2. "validation_failed" \in RowStatus
      BY DEF RowStatus
    <2>3. RowStep
      BY <1>1, <2>1, <2>2, AtWork, StatusWritten
    <2> QED
      BY <1>1, <1>3, <2>3, StopKeeps DEF Kept
  <1> QED
    BY <1>2, <1>3 DEF Process

LEMMA StoppedKeeps ==
    ASSUME PipelineInv, NEW w \in Workers, ProcessFails(w) \/ RecordFailure(w)
    PROVE  Kept
  <1>1. /\ ~At(w, "idle") /\ HistoryStep /\ Become(w, Idle)
        /\ row' = [row EXCEPT ![task[w].sub] = WithStatus(@, "processing_failed")]
    BY Unmoved DEF ProcessFails, RecordFailure, At, WithStatus
  <1>2. "processing_failed" \in RowStatus
    BY DEF RowStatus
  <1>3. RowStep
    BY <1>1, <1>2, AtWork, StatusWritten
  <1> QED
    BY <1>1, <1>3, StopKeeps DEF Kept

\* Routing reads an identity or a mapping through the columns of the row.
LEMMA RowReads ==
    ASSUME NEW r \in RowType
    PROVE  Code(r) \in Codes \cup {None} /\ Zone(r) \in Zones \cup {None}
  BY PipelineAssumption DEF RowType, Code, Zone

LEMMA SightedTyped ==
    ASSUME PipelineInv, NEW s \in Submissions, NEW r \in RowType
    PROVE  /\ Sighted(s, r) \in Projects \cup {None}
           /\ s \in Masters /\ Sighted(s, r) # None => Zone(r) # None
  <1>1. CASE s \in Masters
    BY <1>1, RowReads DEF PipelineInv, TypeOK, Sighted
  <1>2. CASE s \notin Masters
    BY <1>2, RowReads DEF PipelineInv, TypeOK, Sighted, Known, IdentityType
  <1> QED
    BY <1>1, <1>2

LEMMA RoutingTyped ==
    ASSUME PipelineInv, NEW s \in Submissions, NEW r \in RowType, r.status # "absent",
           r.raw \in Payloads, NEW rows, rows[s].status # "absent"
    PROVE  Routing(s, r) \in TaskType /\ KnowsItsRow(Routing(s, r), rows)
  BY SightedTyped DEF Routing, TaskType, KnowsItsRow

LEMMA BeginRouteKeeps ==
    ASSUME PipelineInv, NEW w \in Workers, BeginRoute(w)
    PROVE  Kept
  <1> DEFINE next == Routing(task[w].sub, row[task[w].sub])
  <1>1. ~At(w, "idle") /\ Become(w, next) /\ row' = row
    BY DEF BeginRoute, At
  <1>2. RowStep
    BY <1>1, RowsKept
  <1>3. next \in TaskType /\ KnowsItsRow(next, row')
    BY <1>1, AtWork, RoutingTyped
  <1> HIDE DEF next
  <1>4. TaskStep
    BY <1>1, <1>2, <1>3, BecomeKeeps
  <1> QED
    BY <1>2, <1>4, Unmoved DEF Kept, BeginRoute

LEMMA ConvergeKeeps ==
    ASSUME PipelineInv, NEW w \in Workers, NEW s \in Submissions, Converge(w, s)
    PROVE  Kept
  <1> DEFINE r == IF row[s].status \notin ProcessableStatuses THEN row[s]
                  ELSE IF row[s].raw.valid THEN Normalized(row[s], row[s].raw)
                  ELSE [row[s] EXCEPT !.status = "validation_failed"]
  <1>1. row[s].status # "absent" /\ row[s].raw \in Payloads /\ row[s] \in RowType
    BY DEF Converge, PipelineInv, RowsHavePayload, TypeOK
  <1>2. /\ r \in RowType /\ r.raw = row[s].raw /\ r.status # "absent"
        /\ r.status = "imported" => row[s].status = "imported"
    <2>1. CASE row[s].status \notin ProcessableStatuses
      BY <1>1, <2>1
    <2>2. CASE row[s].status \in ProcessableStatuses /\ row[s].raw.valid
      BY <1>1, <2>2 DEF Normalized, RowType, RowStatus
    <2>3. CASE row[s].status \in ProcessableStatuses /\ ~row[s].raw.valid
      BY <1>1, <2>3 DEF RowType, RowStatus
    <2> QED
      BY <2>1, <2>2, <2>3
  <1>3. \/ Become(w, Routing(s, r)) /\ row' = row
        \/ /\ row' = [row EXCEPT ![s] = r]
           /\ Become(w, [Idle EXCEPT !.at = "auto", !.sub = s])
    BY DEF Converge
  <1> HIDE DEF r
  <1>4. HistoryStep
    BY Unmoved DEF Converge
  <1>5. CASE Become(w, Routing(s, r)) /\ row' = row
    <2>1. RowStep
      BY <1>5, RowsKept
    <2>2. Routing(s, r) \in TaskType /\ KnowsItsRow(Routing(s, r), row')
      BY <1>1, <1>2, <1>5, RoutingTyped
    <2> QED
      BY <1>4, <1>5, <2>1, <2>2, BecomeKeeps DEF Kept
  <1>6. CASE /\ row' = [row EXCEPT ![s] = r]
             /\ Become(w, [Idle EXCEPT !.at = "auto", !.sub = s])
    <2>1. RowStep
      BY <1>1, <1>2, <1>6, RowWritten
    <2>2. row'[s].status # "absent"
      BY <1>1, <2>1 DEF RowStep
    <2> DEFINE next == [Idle EXCEPT !.at = "auto", !.sub = s]
    <2>3. next \in TaskType /\ KnowsItsRow(next, row')
      BY <2>2, NamedTyped, Zenon
    <2>4. Become(w, next)
      BY <1>6
    <2> HIDE DEF next
    <2> QED
      BY <1>4, <2>1, <2>3, <2>4, BecomeKeeps DEF Kept
  <1> QED
    BY <1>3, <1>5, <1>6

\* The copy a routing holds is one of a row that exists.
LEMMA InRouting ==
    ASSUME PipelineInv, NEW w \in Workers, At(w, "routing")
    PROVE  /\ ~At(w, "idle")
           /\ task[w].sub \in Submissions
           /\ task[w].copy \in RowType
           /\ task[w].copy.status # "absent"
           /\ task[w].copy.raw \in Payloads
           /\ task[w].seen \in Projects \cup {None}
           /\ task[w].sub \in Masters /\ task[w].seen # None => Zone(task[w].copy) # None
  BY DEF PipelineInv, TypeOK, WorkersKnowTheirRow, KnowsItsRow, At, TaskType

LEMMA RoutedKeeps ==
    ASSUME PipelineInv, NEW w \in Workers, At(w, "routing"), HistoryStep, Go(w, "auto"),
           NEW r \in RowType, r.raw = task[w].copy.raw, r.status = task[w].copy.status,
           r.status # "imported", row' = [row EXCEPT ![task[w].sub] = r]
    PROVE  Kept
  <1>1. RowStep
    BY InRouting, RowWritten
  <1>2. TaskStep
    BY <1>1, InRouting, GoKeeps
  <1> QED
    BY <1>1, <1>2 DEF Kept

LEMMA FollowedTyped ==
    ASSUME PipelineInv, NEW r \in RowType, NEW seen
    PROVE  /\ Followed(r, seen) \in RowType
           /\ Followed(r, seen).raw = r.raw /\ Followed(r, seen).status = r.status
  <1> USE DEF RowType, RoutingStatus
  <1>1. CASE Code(r) = None
    BY <1>1 DEF Followed, Failed
  <1>2. CASE Code(r) # None /\ seen = None
    BY <1>2 DEF Followed
  <1>3. CASE Code(r) # None /\ seen # None
    <2>1. identity[Code(r)].project \in Projects \cup {None}
      BY <1>3, RowReads DEF PipelineInv, TypeOK, IdentityType
    <2> QED
      BY <1>3, <2>1 DEF Followed, Resolved
  <1> QED
    BY <1>1, <1>2, <1>3

LEMMA RouteDependentKeeps ==
    ASSUME PipelineInv, NEW w \in Workers, RouteDependent(w)
    PROVE  Kept
  <1> DEFINE r == Followed(task[w].copy, task[w].seen)
  <1>1. /\ At(w, "routing") /\ Go(w, "auto") /\ HistoryStep
        /\ task[w].copy.status = "ready_for_review"
        /\ row' = [row EXCEPT ![task[w].sub] = r]
    BY Unmoved DEF RouteDependent
  <1>2. r \in RowType /\ r.raw = task[w].copy.raw /\ r.status = task[w].copy.status
    BY <1>1, InRouting, FollowedTyped
  <1> HIDE DEF r
  <1> QED
    BY <1>1, <1>2, RoutedKeeps

LEMMA RejectMasterKeeps ==
    ASSUME PipelineInv, NEW w \in Workers, RejectMaster(w)
    PROVE  Kept
  <1> DEFINE r == Failed(task[w].copy)
  <1>1. /\ At(w, "routing") /\ Go(w, "auto") /\ HistoryStep
        /\ task[w].copy.status # "imported"
        /\ row' = [row EXCEPT ![task[w].sub] = r]
    BY Unmoved DEF RejectMaster
  <1>2. r \in RowType /\ r.raw = task[w].copy.raw /\ r.status = task[w].copy.status
    BY <1>1, InRouting DEF Failed, RowType, RoutingStatus
  <1> HIDE DEF r
  <1> QED
    BY <1>1, <1>2, RoutedKeeps

LEMMA DisputeMasterKeeps ==
    ASSUME PipelineInv, NEW w \in Workers, DisputeMaster(w)
    PROVE  Kept
  <1> DEFINE t == task[w]
             r == [t.copy EXCEPT !.routing = "conflict", !.project = None]
  <1>1. /\ At(w, "routing") /\ Go(w, "auto")
        /\ t.copy.status # "imported" /\ t.sub \in Masters /\ t.seen # None
        /\ Code(t.copy) # None
        /\ row' = [row EXCEPT ![t.sub] = r]
        /\ UNCHANGED <<material, identity, mapping>>
    BY DEF DisputeMaster
  <1>2. r \in RowType /\ r.raw = t.copy.raw /\ r.status = t.copy.status
    BY <1>1, InRouting DEF RowType, RoutingStatus
  <1>3. HistoryStep
    <2>1. /\ Code(t.copy) \in Codes
          /\ Zone(t.copy) \in Zones
          /\ t.seen \in Projects
          /\ t.sub \in Submissions
      BY <1>1, InRouting, RowReads
    <2>2. [code |-> Code(t.copy), sub |-> t.sub, zone |-> Zone(t.copy), project |-> t.seen]
             \in ConflictType
      BY <2>1 DEF ConflictType
    <2>3. conflicts' \subseteq ConflictType
      BY <2>2 DEF DisputeMaster, PipelineInv, TypeOK
    <2>4. mapping' \in [Zones -> Projects \cup {None}]
      BY <1>1 DEF PipelineInv, TypeOK
    <2> QED
      BY <1>1, <2>3, <2>4, HistoryKept
  <1> HIDE DEF r
  <1> QED
    BY <1>1, <1>2, <1>3, RoutedKeeps

LEMMA ResolvedTyped ==
    ASSUME NEW r \in RowType, NEW p \in Projects \cup {None}
    PROVE  /\ Resolved(r, p) \in RowType
           /\ Resolved(r, p).raw = r.raw /\ Resolved(r, p).status = r.status
  BY DEF Resolved, RowType, RoutingStatus

\* What waits for an identity is resolved to a project beside the row that is written.
LEMMA RowsReconciled ==
    ASSUME PipelineInv, NEW p \in Projects \cup {None}, NEW waiting, NEW sub,
           NEW r \in RowType, r.raw \in Payloads, r.status # "absent", r.status # "imported",
           row' = [s \in Submissions |-> IF s = sub THEN r
                                         ELSE IF s \in waiting THEN Resolved(row[s], p)
                                         ELSE row[s]]
    PROVE  RowStep
  <1>1. ASSUME NEW s \in Submissions
        PROVE  /\ row'[s] \in RowType
               /\ row'[s].status # "absent" => row'[s].raw \in Payloads
               /\ row[s].status # "absent" => row'[s].status # "absent"
               /\ row'[s].status = "imported" => row[s].status = "imported"
    <2>1. row[s] \in RowType /\ (row[s].status # "absent" => row[s].raw \in Payloads)
      BY DEF PipelineInv, TypeOK, RowsHavePayload
    <2>2. CASE s = sub
      <3>1. row'[s] = r
        BY <2>2
      <3> QED
        BY <3>1
    <2>3. CASE s # sub /\ s \in waiting
      <3>1. row'[s] = Resolved(row[s], p)
        BY <2>3
      <3> QED
        BY <2>1, <3>1, ResolvedTyped
    <2>4. CASE s # sub /\ s \notin waiting
      <3>1. row'[s] = row[s]
        BY <2>4
      <3> QED
        BY <2>1, <3>1
    <2> QED
      BY <2>2, <2>3, <2>4
  <1>2. row' \in [Submissions -> RowType]
    BY <1>1
  <1> QED
    BY <1>1, <1>2 DEF RowStep

LEMMA RouteMasterKeeps ==
    ASSUME PipelineInv, NEW w \in Workers, RouteMaster(w)
    PROVE  Kept
  <1> DEFINE t == task[w]
             c == Code(t.copy)
             r == Resolved(t.copy, t.seen)
  <1>1. /\ At(w, "routing") /\ Go(w, "auto")
        /\ t.sub \in Masters /\ t.copy.status # "imported" /\ c # None /\ t.seen # None
        /\ UNCHANGED <<material, mapping, conflicts>>
    BY DEF RouteMaster
  <1>2. /\ c \in Codes /\ Zone(t.copy) \in Zones /\ t.seen \in Projects
        /\ t.sub \in Submissions /\ ~At(w, "idle")
    BY <1>1, InRouting, RowReads
  <1>3. /\ r \in RowType /\ r.raw \in Payloads /\ r.status # "absent" /\ r.status # "imported"
    BY <1>1, InRouting, ResolvedTyped
  <1>4. row' = [s \in Submissions |-> IF s = t.sub THEN r
                                      ELSE IF s \in Waiting(c) THEN Resolved(row[s], t.seen)
                                      ELSE row[s]]
    BY DEF RouteMaster
  <1>5. RowStep
    <2> HIDE DEF r, c, t
    <2>1. t.seen \in Projects \cup {None}
      BY <1>2
    <2> QED
      BY <1>3, <1>4, <2>1, RowsReconciled
  <1>6. TaskStep
    BY <1>1, <1>2, <1>5, GoKeeps
  <1>7. HistoryStep
    <2> DEFINE new == [status |-> "pending_review", zone |-> Zone(t.copy), project |-> t.seen,
                       source |-> t.sub]
    <2>1. new \in IdentityType
      BY <1>2 DEF IdentityType, IdentityStatus
    <2>2. /\ Known(c) => identity' = identity
          /\ ~Known(c) => identity' = [identity EXCEPT ![c] = new]
      BY DEF RouteMaster
    <2> HIDE DEF new
    <2>3. identity' \in [Codes -> IdentityType]
      BY <2>1, <2>2 DEF PipelineInv, TypeOK
    <2>4. ASSUME NEW s \in Submissions, material[s] # None
          PROVE  identity'[material[s].code] = identity[material[s].code]
      <3>1. Known(material[s].code)
        BY <2>4 DEF PipelineInv, MaterialHasIdentity
      <3> HIDE DEF c
      <3>2. CASE Known(c)
        BY <2>2, <3>2
      <3>3. CASE ~Known(c)
        <4>1. material[s].code # c
          BY <3>1, <3>3
        <4>2. material[s].code \in Codes
          BY <2>4 DEF PipelineInv, TypeOK, MaterialType
        <4> QED
          BY <2>2, <3>3, <4>1, <4>2 DEF PipelineInv, TypeOK
      <3> QED
        BY <3>2, <3>3
    <2>5. ASSUME NEW s \in Submissions, material[s] # None
          PROVE  /\ identity[material[s].code].status # "absent"
                 /\ identity[material[s].code].project = material[s].project
      BY <2>5 DEF PipelineInv, MaterialHasIdentity, MaterialFollowsIdentity, Known
    <2> QED
      BY <1>1, <2>3, <2>4, <2>5 DEF HistoryStep, PipelineInv, TypeOK
  <1> QED
    BY <1>5, <1>6, <1>7 DEF Kept

LEMMA StartKeeps ==
    ASSUME PipelineInv, NEW w \in Workers, NEW s \in Submissions,
           StartAutoImport(w, s) \/ Retry(w, s)
    PROVE  Kept
  <1>1. /\ row[s].status # "absent" /\ row' = row /\ HistoryStep
        /\ \E phase \in {"reopen", "route", "auto", "import", "blocked"} :
               Become(w, [Idle EXCEPT !.at = phase, !.sub = s])
    <2>1. CASE StartAutoImport(w, s)
      BY <2>1, Unmoved DEF StartAutoImport, Eligible
    <2>2. CASE Retry(w, s)
      <3>1. HistoryStep /\ row' = row /\ row[s].status # "absent"
        BY <2>2, Unmoved DEF Retry
      <3>2. \/ Become(w, [Idle EXCEPT !.at = "reopen", !.sub = s])
            \/ Become(w, [Idle EXCEPT !.at = "route", !.sub = s])
        BY <2>2 DEF Retry
      <3> QED
        BY <3>1, <3>2
    <2> QED
      BY <2>1, <2>2
  <1>2. RowStep
    BY <1>1, RowsKept
  <1>3. PICK phase \in {"reopen", "route", "auto", "import", "blocked"} :
            Become(w, [Idle EXCEPT !.at = phase, !.sub = s])
    BY <1>1
  <1> DEFINE next == [Idle EXCEPT !.at = phase, !.sub = s]
  <1>4. row'[s].status # "absent"
    BY <1>1
  <1>5. next \in TaskType /\ KnowsItsRow(next, row')
    BY <1>4, NamedTyped, Zenon
  <1>6. Become(w, next)
    BY <1>3
  <1> HIDE DEF next
  <1> QED
    BY <1>1, <1>2, <1>5, <1>6, BecomeKeeps DEF Kept

\* Approve and Reopen write the status of the row and go on.
LEMMA StatusAndGoKeeps ==
    ASSUME PipelineInv, NEW w \in Workers, Approve(w) \/ Reopen(w)
    PROVE  Kept
  <1>1. /\ ~At(w, "idle") /\ HistoryStep
        /\ \/ /\ row' = [row EXCEPT ![task[w].sub] = WithStatus(@, "approved_for_import")]
              /\ Go(w, "import")
           \/ /\ row' = [row EXCEPT ![task[w].sub] = WithStatus(@, "ready_for_review")]
              /\ Go(w, "route")
    BY Unmoved DEF Approve, Reopen, At, WithStatus
  <1>2. "approved_for_import" \in RowStatus /\ "ready_for_review" \in RowStatus
    BY DEF RowStatus
  <1>3. RowStep
    BY <1>1, <1>2, AtWork, StatusWritten
  <1> QED
    BY <1>1, <1>3, GoKeeps DEF Kept

LEMMA LeaveKeeps ==
    ASSUME PipelineInv, NEW w \in Workers,
           LeaveAsIncident(w) \/ FindImported(w) \/ ImportFails(w) \/ Abort(w)
    PROVE  Kept
  <1>1. /\ ~At(w, "idle") /\ row' = row /\ HistoryStep
        /\ Become(w, Idle) \/ Go(w, "blocked")
    BY Unmoved DEF LeaveAsIncident, FindImported, ImportFails, Abort, At
  <1>2. RowStep
    BY <1>1, RowsKept
  <1> QED
    BY <1>1, <1>2, StopKeeps, GoKeeps DEF Kept

LEMMA ImportKeeps ==
    ASSUME PipelineInv, NEW w \in Workers, Import(w)
    PROVE  Kept
  <1> DEFINE s == task[w].sub
             c == Code(row[s])
             new == [project |-> row[s].project, code |-> c, rows |-> 1]
  <1>1. /\ ~At(w, "idle") /\ Become(w, Idle) /\ UNCHANGED <<mapping, conflicts>>
        /\ material[s] = None /\ Routable(s, row[s])
        /\ row' = [row EXCEPT ![s] = WithStatus(@, "imported")]
    BY DEF Import, At, WithStatus, CanImport
  <1>2. /\ s \in Submissions /\ row[s] \in RowType /\ row[s].status # "absent"
    BY <1>1, AtWork
  <1>3. /\ c \in Codes /\ identity[c].status # "absent"
        /\ row[s].project \in Projects /\ identity[c].project = row[s].project
    BY <1>1, <1>2, RowReads DEF Routable, Known, RowType
  <1>4. new \in MaterialType /\ new # None /\ new.code = c /\ new.project = row[s].project
    BY <1>3, NullAssumption DEF MaterialType
  <1>5. material' = [material EXCEPT ![s] = new]
    BY <1>1, <1>2 DEF Import, PipelineInv, TypeOK
  <1> HIDE DEF new
  <1>6. material'[s] = new /\ material' \in [Submissions -> MaterialType \cup {None}]
    BY <1>2, <1>4, <1>5 DEF PipelineInv, TypeOK
  <1>7. RowStep
    <2>1. "imported" \in RowStatus
      BY DEF RowStatus
    <2>2. material'[s] # None
      BY <1>4, <1>6
    <2> HIDE DEF s, c
    <2> QED
      BY <1>1, <1>2, <2>1, <2>2, StatusWritten
  <1>8. TaskStep
    BY <1>1, <1>7, StopKeeps
  <1>9. /\ identity' \in [Codes -> IdentityType]
        /\ \A d \in Codes : /\ identity'[d].project = identity[d].project
                            /\ identity[d].status # "absent" => identity'[d].status # "absent"
    <2>1. \/ identity' = identity
          \/ identity' = [identity EXCEPT ![c].status = "active"]
      BY DEF Import
    <2> HIDE DEF c
    <2> QED
      BY <1>3, <2>1 DEF PipelineInv, TypeOK, IdentityType, IdentityStatus
  <1>10. ASSUME NEW x \in Submissions
         PROVE  /\ material[x] # None => material'[x] = material[x]
                /\ material'[x] # None =>
                       /\ identity'[material'[x].code].status # "absent"
                       /\ identity'[material'[x].code].project = material'[x].project
    <2>1. CASE x = s
      BY <1>1, <1>3, <1>4, <1>6, <1>9, <2>1
    <2>2. CASE x # s
      <3>1. material'[x] = material[x]
        BY <1>5, <2>2 DEF PipelineInv, TypeOK
      <3>2. CASE material[x] # None
        <4>1. /\ material[x].code \in Codes
              /\ identity[material[x].code].status # "absent"
              /\ identity[material[x].code].project = material[x].project
          BY <3>2 DEF PipelineInv, TypeOK, MaterialType, MaterialHasIdentity,
             MaterialFollowsIdentity, Known
        <4> QED
          BY <1>9, <3>1, <4>1
      <3> QED
        BY <3>1, <3>2
    <2> QED
      BY <2>1, <2>2
  <1>11. HistoryStep
    BY <1>1, <1>6, <1>9, <1>10 DEF HistoryStep, PipelineInv, TypeOK
  <1> QED
    BY <1>7, <1>8, <1>11 DEF Kept

\* KeepExisting and DismissConflict.
LEMMA ConflictEndKeeps ==
    ASSUME PipelineInv, NEW k \in conflicts, KeepExisting(k) \/ DismissConflict(k)
    PROVE  Kept
  <1>1. /\ UNCHANGED <<material, identity, mapping, task>>
        /\ conflicts' = conflicts \ {k}
        /\ row' = row \/ row' = [row EXCEPT ![k.sub] = Failed(@)]
    BY DEF KeepExisting, DismissConflict
  <1>2. HistoryStep
    BY <1>1, HistoryKept DEF PipelineInv, TypeOK
  <1>3. k.sub \in Submissions
    BY DEF PipelineInv, TypeOK, ConflictType
  <1>4. ASSUME NEW s \in Submissions
        PROVE  /\ row'[s] \in RowType
               /\ row'[s].status = row[s].status /\ row'[s].raw = row[s].raw
    <2>1. Failed(row[s]) \in RowType /\ Failed(row[s]).status = row[s].status
          /\ Failed(row[s]).raw = row[s].raw
      BY DEF PipelineInv, TypeOK, Failed, RowType, RoutingStatus
    <2>2. row'[s] \in {row[s], Failed(row[s])}
      BY <1>1, <1>3 DEF PipelineInv, TypeOK
    <2> QED
      BY <2>1, <2>2 DEF PipelineInv, TypeOK
  <1>5. row' \in [Submissions -> RowType]
    <2>1. DOMAIN row' = Submissions /\ row' = [s \in Submissions |-> row'[s]]
      BY <1>1, <1>3 DEF PipelineInv, TypeOK
    <2> QED
      BY <1>4, <2>1
  <1>6. RowStep
    BY <1>4, <1>5 DEF RowStep, PipelineInv, RowsHavePayload
  <1> QED
    BY <1>1, <1>2, <1>6, TasksKept DEF Kept

\* What AcceptProposed and Reconcile do to the rows.
LEMMA RowsResolved ==
    ASSUME PipelineInv, NEW p \in Projects \cup {None}, NEW waiting,
           row' = [s \in Submissions |-> IF s \in waiting THEN Resolved(row[s], p) ELSE row[s]]
    PROVE  RowStep
  <1>1. ASSUME NEW s \in Submissions
        PROVE  /\ row'[s] \in RowType
               /\ row'[s].status = row[s].status /\ row'[s].raw = row[s].raw
    <2>1. row[s] \in RowType
      BY DEF PipelineInv, TypeOK
    <2>2. row'[s] = Resolved(row[s], p) \/ row'[s] = row[s]
      OBVIOUS
    <2> QED
      BY <2>1, <2>2, ResolvedTyped
  <1>2. row' \in [Submissions -> RowType]
    BY <1>1
  <1> QED
    BY <1>1, <1>2 DEF RowStep, PipelineInv, RowsHavePayload

\* The identity that moves has produced nothing.
LEMMA AcceptKeeps ==
    ASSUME PipelineInv, NEW k \in conflicts, AcceptProposed(k)
    PROVE  Kept
  <1>1. k.code \in Codes /\ k.sub \in Submissions /\ k.zone \in Zones /\ k.project \in Projects
    BY DEF PipelineInv, TypeOK, ConflictType
  <1>2. RowStep
    <2> DEFINE waiting == {k.sub} \cup Waiting(k.code)
    <2>1. row' = [s \in Submissions |-> IF s \in waiting THEN Resolved(row[s], k.project)
                                        ELSE row[s]]
      BY DEF AcceptProposed
    <2> HIDE DEF waiting
    <2> QED
      BY <1>1, <2>1, RowsResolved
  <1>3. UNCHANGED <<material, mapping, task>> /\ conflicts' \subseteq conflicts
    BY DEF AcceptProposed
  <1> DEFINE new == [identity[k.code] EXCEPT !.zone = k.zone, !.project = k.project,
                                             !.source = k.sub]
  <1>4. new \in IdentityType
    BY <1>1 DEF PipelineInv, TypeOK, IdentityType
  <1>5. identity' = [identity EXCEPT ![k.code] = new]
    BY <1>1 DEF AcceptProposed, PipelineInv, TypeOK, IdentityType
  <1> HIDE DEF new
  <1>6. identity' \in [Codes -> IdentityType]
    BY <1>4, <1>5 DEF PipelineInv, TypeOK
  <1>7. ASSUME NEW s \in Submissions, material[s] # None
        PROVE  /\ identity'[material[s].code].status # "absent"
               /\ identity'[material[s].code].project = material[s].project
    <2>1. material[s].code # k.code
      BY <1>7 DEF AcceptProposed, HasIncompatibleHistory
    <2>2. material[s].code \in Codes
      BY <1>7 DEF PipelineInv, TypeOK, MaterialType
    <2>3. identity'[material[s].code] = identity[material[s].code]
      BY <1>5, <2>1, <2>2 DEF PipelineInv, TypeOK
    <2> QED
      BY <1>7, <2>3 DEF PipelineInv, MaterialHasIdentity, MaterialFollowsIdentity, Known
  <1>8. HistoryStep
    BY <1>3, <1>6, <1>7 DEF HistoryStep, PipelineInv, TypeOK
  <1> QED
    BY <1>2, <1>3, <1>8, TasksKept DEF Kept

LEMMA ReconcileKeeps ==
    ASSUME PipelineInv, NEW c \in Codes, Reconcile(c)
    PROVE  Kept
  <1>1. identity[c].project \in Projects \cup {None}
    BY DEF PipelineInv, TypeOK, IdentityType
  <1>2. RowStep
    <2> DEFINE waiting == Waiting(c)
               p == identity[c].project
    <2>1. row' = [s \in Submissions |-> IF s \in waiting THEN Resolved(row[s], p) ELSE row[s]]
      BY DEF Reconcile
    <2>2. p \in Projects \cup {None}
      BY <1>1
    <2> HIDE DEF waiting, p
    <2> QED
      BY <2>1, <2>2, RowsResolved
  <1> QED
    BY <1>2, TasksKept, Unmoved DEF Kept, Reconcile

LEMMA IdentityStatusKeeps ==
    ASSUME PipelineInv, NEW c \in Codes, NEW from, NEW to \in IdentityStatus \ {"absent"},
           ChangeIdentityStatus(c, from, to)
    PROVE  Kept
  <1> DEFINE new == [identity[c] EXCEPT !.status = to]
  <1>1. identity' = [identity EXCEPT ![c] = new]
        /\ UNCHANGED <<row, material, mapping, conflicts, task>>
    BY DEF ChangeIdentityStatus
  <1>2. new \in IdentityType /\ new.status = to /\ new.project = identity[c].project
    BY DEF PipelineInv, TypeOK, IdentityType
  <1> HIDE DEF new
  <1>3. identity' \in [Codes -> IdentityType]
    BY <1>1, <1>2 DEF PipelineInv, TypeOK
  <1>4. ASSUME NEW s \in Submissions, material[s] # None
        PROVE  /\ identity'[material[s].code].status # "absent"
               /\ identity'[material[s].code].project = material[s].project
    <2>1. /\ material[s].code \in Codes
          /\ identity[material[s].code].status # "absent"
          /\ identity[material[s].code].project = material[s].project
      BY <1>4 DEF PipelineInv, TypeOK, MaterialType, MaterialHasIdentity,
         MaterialFollowsIdentity, Known
    <2> QED
      BY <1>1, <1>2, <2>1 DEF PipelineInv, TypeOK
  <1>5. HistoryStep
    BY <1>1, <1>3, <1>4 DEF HistoryStep, PipelineInv, TypeOK
  <1>6. RowStep
    BY <1>1, RowsKept
  <1> QED
    BY <1>1, <1>5, <1>6, TasksKept DEF Kept

\* configure_ and deactivate_pastoral_zone_project_mapping
LEMMA MappingKeeps ==
    ASSUME PipelineInv, NEW z \in Zones,
           DeactivateMapping(z) \/ \E p \in Projects : ConfigureMapping(z, p)
    PROVE  Kept
  <1>1. UNCHANGED <<row, material, identity, conflicts, task>>
    BY DEF DeactivateMapping, ConfigureMapping
  <1>2. mapping' \in [Zones -> Projects \cup {None}]
    BY DEF DeactivateMapping, ConfigureMapping, PipelineInv, TypeOK
  <1>3. RowStep
    BY <1>1, RowsKept
  <1> QED
    BY <1>1, <1>2, <1>3, TasksKept, HistoryKept DEF Kept, PipelineInv, TypeOK

-------------------------------------------------------------------------------
(* The invariant of every behaviour.                                       *)

LEMMA StepKeeps ==
    ASSUME PipelineInv, [Next]_vars
    PROVE  Kept
  <1>1. CASE SubmissionStep
    <2>1. PICK s \in Submissions :
              \/ \E p \in Payloads : ReceiveWebhook(s, p)
              \/ \E w \in Workers : \/ \E p \in Payloads : StageItem(w, s, p)
                                    \/ Select(w, s) \/ Converge(w, s)
                                    \/ StartAutoImport(w, s) \/ Retry(w, s)
      BY <1>1 DEF SubmissionStep
    <2> QED
      BY <2>1, ReceiveKeeps, StageKeeps, SelectKeeps, ConvergeKeeps, StartKeeps
  <1>2. CASE WorkerStep
    <2>1. PICK w \in Workers :
              \/ Process(w) \/ ProcessFails(w)
              \/ BeginRoute(w) \/ RouteDependent(w)
              \/ RejectMaster(w) \/ RouteMaster(w) \/ DisputeMaster(w)
              \/ Approve(w) \/ LeaveAsIncident(w)
              \/ Import(w) \/ FindImported(w) \/ ImportFails(w) \/ RecordFailure(w)
              \/ Reopen(w)
              \/ Abort(w)
      BY <1>2 DEF WorkerStep
    <2> QED
      BY <2>1, ProcessKeeps, StoppedKeeps, BeginRouteKeeps, RouteDependentKeeps, RejectMasterKeeps,
         RouteMasterKeeps, DisputeMasterKeeps, StatusAndGoKeeps, LeaveKeeps, ImportKeeps
  <1>3. CASE AdministrationStep
    <2>1. CASE \E z \in Zones : DeactivateMapping(z) \/ \E p \in Projects : ConfigureMapping(z, p)
      BY <2>1, MappingKeeps
    <2>2. CASE \E k \in conflicts : KeepExisting(k) \/ DismissConflict(k) \/ AcceptProposed(k)
      BY <2>2, ConflictEndKeeps, AcceptKeeps
    <2>3. CASE \E c \in Codes :
                  \/ Reconcile(c)
                  \/ ChangeIdentityStatus(c, {"pending_review", "active"}, "observed")
                  \/ ChangeIdentityStatus(c, {"observed"}, "active")
                  \/ ChangeIdentityStatus(c, {"pending_review", "active", "observed"}, "inactive")
      <3>1. {"observed", "active", "inactive"} \subseteq IdentityStatus \ {"absent"}
        BY DEF IdentityStatus
      <3> QED
        BY <2>3, <3>1, ReconcileKeeps, IdentityStatusKeeps
    <2> QED
      BY <1>3, <2>1, <2>2, <2>3 DEF AdministrationStep
  <1>4. CASE UNCHANGED vars
    BY <1>4, RowsKept, TasksKept, Unmoved DEF vars, Kept
  <1> QED
    BY <1>1, <1>2, <1>3, <1>4 DEF Next

\* The pipeline stays well typed and its history sound: PipelineInv is inductive, for any
\* submissions, payloads, zones, projects and workers (apps/integrations/kobo).
THEOREM PipelineSafe == Spec => []PipelineInv
  <1>1. PipelineInv /\ [Next]_vars => PipelineInv'
    BY StepKeeps, PartsMakeInv DEF Kept
  <1> QED
    BY <1>1, InvInit, PTL DEF Spec

\* What was materialised lies in the project of its territorial identity, whatever conflicts
\* move while submissions are normalised, corrected, routed and imported
\* (resolve_territorial_identity_conflict, _import_kobo_submission_with_handlers).
THEOREM MaterialStaysWithIdentity == Spec => []MaterialFollowsIdentity
  <1>1. PipelineInv => MaterialFollowsIdentity
    BY DEF PipelineInv
  <1> QED
    BY <1>1, PipelineSafe, PTL

\* IMPORTED means materialised, although stale saves and late failures write the status
\* (importers.py, territorial_routing.py).
THEOREM ImportedMeansRecorded == Spec => []ImportedHasRecord
  <1>1. PipelineInv => ImportedHasRecord
    BY DEF PipelineInv
  <1> QED
    BY <1>1, PipelineSafe, PTL

\* A submission is materialised once: the import looks for the record under the row lock, and
\* nothing takes the record away (_import_kobo_submission_with_handlers).
THEOREM MaterialisedOnce == Spec => ImportedOnce
  <1>1. ASSUME PipelineInv, [Next]_vars
        PROVE  [\A s \in Submissions : material[s] # None => material'[s] = material[s]]_vars
    BY <1>1, StepKeeps DEF Kept, HistoryStep
  <1> QED
    BY <1>1, PipelineSafe, PTL DEF Spec, ImportedOnce

==============================================================================
