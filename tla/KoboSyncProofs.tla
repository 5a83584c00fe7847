---------------------------- MODULE KoboSyncProofs ----------------------------
(***************************************************************************)
(* Theorems about KoboSync, for any submissions, runs, lease, page size    *)
(* and bounds.                                                             *)
(***************************************************************************)
EXTENDS KoboSync, TLAPS

-------------------------------------------------------------------------------
(* Type correctness.                                                       *)

LEMMA InitType == Init => TypeOK
  BY SyncAssumption DEF Init, TypeOK, Time, Edit, RowType, AssetType, RunType, RowStatus,
     RunStatus, NoRow, NoRun

LEMMA WindowStartType ==
    ASSUME NEW w \in Time
    PROVE  WindowStart(w) \in Time
  BY SyncAssumption DEF WindowStart, Time

LEMMA LaterType ==
    ASSUME NEW s \in Time, NEW t \in Time
    PROVE  Later(s, t) \in Time
  BY DEF Later

LEMMA MergedType ==
    ASSUME NEW row \in RowType, NEW item \in Item
    PROVE  Merged(row, item) \in RowType
  <1> [edit |-> row.edit, at |-> row.at] \in Revision
      /\ [edit |-> item.edit, at |-> item.at] \in Revision
    BY DEF RowType, Item, Revision
  <1>1. Flagged(row, item) \in RowType
    BY DEF RowType, Item, Flagged, Protected
  <1>2. Replaced(row, item) \in RowType
    BY DEF RowType, RowStatus, Item, Replaced
  <1>3. [NoRow EXCEPT !.status = "open", !.edit = item.edit, !.at = item.at] \in RowType
    BY DEF RowType, RowStatus, Item, NoRow
  <1>4. row.at \in Int /\ item.at \in Int /\ row.at >= 0
    BY SyncAssumption DEF RowType, Item, Time
  <1> QED
    BY <1>1, <1>2, <1>3, <1>4 DEF Merged

LEMMA RowStepType ==
    ASSUME TypeOK, Tick \/ RowStep
    PROVE  TypeOK'
  <1> USE DEF TypeOK
  <1>1. CASE Tick
    BY <1>1, SyncAssumption DEF Tick, Time
  <1>2. ASSUME NEW x \in Submissions, EditRemotely(x) PROVE TypeOK'
    BY <1>2, SyncAssumption DEF EditRemotely, Edit
  <1>3. ASSUME NEW x \in Submissions, NEW edit \in Edit, ReceiveWebhook(x, edit) PROVE TypeOK'
    <2> 0 \in Time
      BY SyncAssumption DEF Time
    <2> [NoRow EXCEPT !.status = "open", !.edit = edit] \in RowType
      BY DEF NoRow, RowType, RowStatus
    <2> QED
      BY <1>3 DEF ReceiveWebhook
  <1>4. ASSUME NEW x \in Submissions, Approve(x) PROVE TypeOK'
    BY <1>4 DEF Approve, RowType, RowStatus
  <1>5. ASSUME NEW x \in Submissions, Import(x) PROVE TypeOK'
    BY <1>5 DEF Import, RowType, RowStatus
  <1>6. ASSUME NEW x \in Submissions, ImportFails(x) PROVE TypeOK'
    BY <1>6 DEF ImportFails
  <1>7. ASSUME NEW x \in Submissions, RecordFailure(x) PROVE TypeOK'
    BY <1>7 DEF RecordFailure, RowType, RowStatus
  <1> QED
    BY <1>1, <1>2, <1>3, <1>4, <1>5, <1>6, <1>7 DEF RowStep

\* The lease of a run that ends.
LEMMA ReleasedType ==
    ASSUME TypeOK, NEW r \in Runs
    PROVE  /\ Released(r) \in AssetType
           /\ Released(r).watermark = asset.watermark
  BY DEF TypeOK, Released, AssetType

LEMMA EndedType ==
    ASSUME TypeOK, NEW r \in Runs, NEW status \in RunStatus, Ended(r, status)
    PROVE  runs' \in [Runs -> RunType]
  BY DEF TypeOK, Ended, RunType

LEMMA RunStepType ==
    ASSUME TypeOK, RunStep
    PROVE  TypeOK'
  <1> USE DEF TypeOK
  <1> PICK r \in Runs :
        \/ \E full \in BOOLEAN : StartRun(r, full)
        \/ \E page \in SUBSET Submissions : FetchPage(r, page)
        \/ \E item \in runs[r].page : StageItem(r, item)
        \/ FinishRun(r)
        \/ \E status \in {"partial", "failed"} : FailRun(r, status)
        \/ Crash(r)
    BY DEF RunStep
  <1>1. ASSUME NEW full \in BOOLEAN, StartRun(r, full) PROVE TypeOK'
    <2> DEFINE since == IF full THEN 0 ELSE WindowStart(asset.watermark)
    <2> 0 \in Time /\ since \in Time
      BY WindowStartType, SyncAssumption DEF Time, AssetType
    <2> InWindow(since) \in SUBSET Submissions
      BY DEF InWindow
    <2>1. [status |-> "running", working |-> TRUE, started |-> clock, since |-> since,
           due |-> InWindow(since), page |-> {}, candidate |-> asset.watermark] \in RunType
      BY DEF RunType, RunStatus, AssetType
    <2>2. \A q \in Runs : [runs[q] EXCEPT !.status = "abandoned"] \in RunType
      BY DEF RunType, RunStatus
    <2> HIDE DEF since
    <2>3. runs' \in [Runs -> RunType]
      BY <1>1, <2>1, <2>2 DEF StartRun, since
    <2> clock + Lease \in Nat
      BY SyncAssumption DEF Time
    <2>4. asset' = [asset EXCEPT !.lease = r, !.expires = clock + Lease]
      BY <1>1 DEF StartRun
    <2>5. asset' \in AssetType
      BY <2>4 DEF AssetType
    <2> QED
      BY <1>1, <2>3, <2>5 DEF StartRun
  <1>2. ASSUME NEW page \in SUBSET Submissions, FetchPage(r, page) PROVE TypeOK'
    <2> DEFINE served == {[id |-> x, edit |-> remote[x].edit, at |-> remote[x].at] : x \in page}
               row    == [runs[r] EXCEPT !.page = served, !.due = runs[r].due \ page]
    <2>1. served \in SUBSET Item
      BY DEF Item
    <2>2. runs' = [runs EXCEPT ![r] = row]
      BY <1>2 DEF FetchPage
    <2> HIDE DEF served
    <2>3. row \in RunType
      BY <2>1 DEF RunType
    <2> HIDE DEF row
    <2>4. runs' \in [Runs -> RunType]
      BY <2>2, <2>3
    <2> QED
      BY <1>2, <2>4 DEF FetchPage
  <1>3. ASSUME NEW item \in runs[r].page, StageItem(r, item) PROVE TypeOK'
    <2> item \in Item /\ runs[r].candidate \in Time
      BY DEF RunType
    <2>1. Merged(staged[item.id], item) \in RowType
      BY MergedType DEF Item
    <2>2. Later(runs[r].candidate, item.at) \in Time
      BY LaterType DEF Item
    <2>3. runs' \in [Runs -> RunType]
      <3> DEFINE row == [runs[r] EXCEPT !.page = runs[r].page \ {item},
                                        !.candidate = Later(runs[r].candidate, item.at)]
      <3>1. runs' = [runs EXCEPT ![r] = row]
        BY <1>3 DEF StageItem
      <3>2. row \in RunType
        BY <2>2 DEF RunType
      <3> HIDE DEF row
      <3> QED
        BY <3>1, <3>2
    <2> QED
      BY <1>3, <2>1, <2>3 DEF StageItem, Item
  <1>4. CASE FinishRun(r)
    <2>1. Later(asset.watermark, runs[r].candidate) \in Time
      BY LaterType DEF AssetType, RunType
    <2>2. asset' \in AssetType
      BY <1>4, <2>1, ReleasedType DEF FinishRun, AssetType
    <2> QED
      BY <1>4, <2>2, EndedType DEF FinishRun, RunStatus
  <1>5. ASSUME NEW status \in {"partial", "failed"}, FailRun(r, status) PROVE TypeOK'
    BY <1>5, ReleasedType, EndedType DEF FailRun, RunStatus
  <1>6. CASE Crash(r)
    <2> DEFINE row == [runs[r] EXCEPT !.working = FALSE, !.due = {}, !.page = {}]
    <2>1. runs' = [runs EXCEPT ![r] = row]
      BY <1>6 DEF Crash
    <2>2. row \in RunType
      BY DEF RunType
    <2> HIDE DEF row
    <2>3. runs' \in [Runs -> RunType]
      BY <2>1, <2>2
    <2> QED
      BY <1>6, <2>3 DEF Crash
  <1> QED
    BY <1>1, <1>2, <1>3, <1>4, <1>5, <1>6

LEMMA StepType ==
    ASSUME TypeOK, [Next]_vars
    PROVE  TypeOK'
  <1>1. CASE UNCHANGED vars
    BY <1>1 DEF vars, TypeOK
  <1> QED
    BY <1>1, RowStepType, RunStepType DEF Next

\* Every reachable state of the synchronisation is well typed.
THEOREM TypeCorrect == Spec => []TypeOK
  BY InitType, StepType, PTL DEF Spec

-------------------------------------------------------------------------------
(* The lease.                                                              *)

\* What StartRun does to the rows of the runs and to the asset.
LEMMA StartedRuns ==
    ASSUME TypeOK, NEW r \in Runs, NEW full \in BOOLEAN, StartRun(r, full)
    PROVE  /\ runs' \in [Runs -> RunType]
           /\ runs'[r].status = "running" /\ runs'[r].working
           /\ runs'[r].started = clock
           /\ runs'[r].since = IF full THEN 0 ELSE WindowStart(asset.watermark)
           /\ runs'[r].due = InWindow(runs'[r].since)
           /\ runs'[r].page = {}
           /\ runs'[r].candidate = asset.watermark
           /\ \A q \in Runs \ {r} :
                 runs'[q] \in {runs[q], [runs[q] EXCEPT !.status = "abandoned"]}
           /\ \A q \in Runs \ {r} :
                 q = asset.lease => runs'[q].status # "running"
           /\ asset'.lease = r
           /\ asset'.watermark = asset.watermark
           /\ UNCHANGED <<clock, remote, staged, failing>>
  <1> DEFINE since == IF full THEN 0 ELSE WindowStart(asset.watermark)
  <1> DEFINE new == [status |-> "running", working |-> TRUE, started |-> clock,
                     since |-> since, due |-> InWindow(since), page |-> {},
                     candidate |-> asset.watermark]
  <1> DEFINE abandoned(q) == [runs[q] EXCEPT !.status = "abandoned"]
  <1>1. runs' = [q \in Runs |-> CASE q = r -> new
                                  [] q = asset.lease /\ runs[q].status = "running" -> abandoned(q)
                                  [] OTHER -> runs[q]]
    BY DEF StartRun
  <1>2. runs' \in [Runs -> RunType]
    <2> RunStep
      BY DEF RunStep
    <2> QED
      BY RunStepType DEF TypeOK
  <1>3. \A q \in Runs : abandoned(q).status = "abandoned"
    BY DEF TypeOK, RunType
  <1>4. /\ asset'.lease = r /\ asset'.watermark = asset.watermark
        /\ UNCHANGED <<clock, remote, staged, failing>>
    BY DEF StartRun, TypeOK, AssetType
  <1> HIDE DEF since
  <1>5. /\ new.status = "running" /\ new.working = TRUE /\ new.started = clock /\ new.since = since
        /\ new.due = InWindow(since) /\ new.page = {} /\ new.candidate = asset.watermark
    OBVIOUS
  <1> HIDE DEF new, abandoned
  <1>6. runs'[r] = new
    <2> runs[r].status = "absent"
      BY DEF StartRun
    <2> QED
      BY <1>1
  <1>7. ASSUME NEW q \in Runs \ {r}
        PROVE  /\ runs'[q] \in {runs[q], abandoned(q)}
               /\ q = asset.lease => runs'[q].status # "running"
    <2>1. CASE q = asset.lease /\ runs[q].status = "running"
      <3> runs'[q] = abandoned(q)
        BY <1>1, <2>1
      <3> QED
        BY <1>3
    <2>2. CASE ~(q = asset.lease /\ runs[q].status = "running")
      <3> runs'[q] = runs[q]
        BY <1>1, <2>2
      <3> QED
        BY <2>2
    <2> QED
      BY <2>1, <2>2
  <1> QED
    BY <1>2, <1>4, <1>5, <1>6, <1>7 DEF since, abandoned

LEMMA InitOwnership == Init => RunningOwnsLease
  BY DEF Init, RunningOwnsLease, NoRun

LEMMA StepOwnership ==
    ASSUME TypeOK, RunningOwnsLease, [Next]_vars
    PROVE  RunningOwnsLease'
  <1> USE DEF RunningOwnsLease
  <1>1. CASE UNCHANGED <<asset, runs>>
    BY <1>1
  <1>2. ASSUME NEW r \in Runs, NEW full \in BOOLEAN, StartRun(r, full) PROVE RunningOwnsLease'
    <2>1. asset'.lease = r
      BY <1>2, StartedRuns DEF TypeOK, AssetType
    <2>2. ASSUME NEW q \in Runs, runs'[q].status = "running" PROVE q = r
      BY <1>2, <2>2, StartedRuns DEF TypeOK, RunType
    <2>3. runs'[r].status = "running"
      BY <1>2, StartedRuns
    <2> QED
      BY <2>1, <2>2, <2>3
  <1>3. ASSUME NEW r \in Runs, runs' \in [Runs -> RunType], asset' = asset,
               \A q \in Runs : runs'[q].status = runs[q].status
        PROVE  RunningOwnsLease'
    BY <1>3 DEF TypeOK, AssetType
  <1>4. ASSUME NEW r \in Runs, NEW status \in RunStatus \ {"running"}, Ended(r, status),
               asset'.lease = Released(r).lease
        PROVE  RunningOwnsLease'
    <2>1. /\ runs'[r].status = status
          /\ \A q \in Runs \ {r} : runs'[q] = runs[q]
      BY <1>4 DEF Ended, TypeOK, RunType
    <2>2. asset'.lease = IF asset.lease = r THEN None ELSE asset.lease
      BY <1>4 DEF Released, TypeOK, AssetType
    <2> QED
      BY <2>1, <2>2, SyncAssumption DEF TypeOK, AssetType
  <1>5. ASSUME NEW r \in Runs, NEW page \in SUBSET Submissions, FetchPage(r, page)
        PROVE  RunningOwnsLease'
    <2> \A q \in Runs : runs'[q].status = runs[q].status
      BY <1>5 DEF FetchPage, TypeOK, RunType
    <2> QED
      BY <1>3, <1>5, StepType DEF FetchPage, TypeOK
  <1>6. ASSUME NEW r \in Runs, NEW item \in runs[r].page, StageItem(r, item)
        PROVE  RunningOwnsLease'
    <2> \A q \in Runs : runs'[q].status = runs[q].status
      BY <1>6 DEF StageItem, TypeOK, RunType
    <2> QED
      BY <1>3, <1>6, StepType DEF StageItem, TypeOK
  <1>7. ASSUME NEW r \in Runs, Crash(r) PROVE RunningOwnsLease'
    <2> \A q \in Runs : runs'[q].status = runs[q].status
      BY <1>7 DEF Crash, TypeOK, RunType
    <2> QED
      BY <1>3, <1>7, StepType DEF Crash, TypeOK
  <1>8. ASSUME NEW r \in Runs, FinishRun(r) PROVE RunningOwnsLease'
    <2> asset'.lease = Released(r).lease
      BY <1>8, ReleasedType DEF FinishRun, AssetType
    <2> QED
      BY <1>8, <1>4 DEF FinishRun, RunStatus
  <1>9. ASSUME NEW r \in Runs, NEW status \in {"partial", "failed"}, FailRun(r, status)
        PROVE  RunningOwnsLease'
    BY <1>9, <1>4 DEF FailRun, RunStatus
  <1>10. CASE Tick \/ RowStep \/ UNCHANGED vars
    BY <1>10, <1>1 DEF Tick, RowStep, EditRemotely, ReceiveWebhook, Approve, Import, ImportFails,
                       RecordFailure, vars
  <1> QED
    BY <1>2, <1>5, <1>6, <1>7, <1>8, <1>9, <1>10 DEF Next, RunStep

\* Exactly the owner of the lease is RUNNING, whatever expires and finishes late.
THEOREM LeaseHasOneOwner == Spec => []RunningOwnsLease
  BY InitType, StepType, InitOwnership, StepOwnership, PTL DEF Spec

-------------------------------------------------------------------------------
(* The watermark.                                                          *)

LEMMA StepWatermark ==
    ASSUME TypeOK, [Next]_vars
    PROVE  asset'.watermark >= asset.watermark
  <1> asset.watermark \in Int /\ \A r \in Runs : runs[r].candidate \in Int
    BY DEF TypeOK, AssetType, RunType, Time
  <1>1. CASE asset' = asset
    BY <1>1
  <1>2. ASSUME NEW r \in Runs, NEW full \in BOOLEAN, StartRun(r, full)
        PROVE  asset'.watermark = asset.watermark
    BY <1>2, StartedRuns DEF TypeOK, AssetType
  <1>3. ASSUME NEW r \in Runs, FinishRun(r)
        PROVE  asset'.watermark = Later(asset.watermark, runs[r].candidate)
    BY <1>3, ReleasedType DEF FinishRun, AssetType
  <1>4. ASSUME NEW r \in Runs, NEW status \in {"partial", "failed"}, FailRun(r, status)
        PROVE  asset'.watermark = asset.watermark
    BY <1>4, ReleasedType DEF FailRun
  <1>5. CASE UNCHANGED vars \/ Tick \/ RowStep
    BY <1>5, <1>1 DEF vars, Tick, RowStep, EditRemotely, ReceiveWebhook, Approve, Import,
                      ImportFails, RecordFailure
  <1>6. ASSUME NEW r \in Runs PROVE Later(asset.watermark, runs[r].candidate) >= asset.watermark
    BY DEF Later
  <1>7. CASE RunStep
    <2> CASE asset' # asset
      <3> PICK r \in Runs :
            \/ \E full \in BOOLEAN : StartRun(r, full)
            \/ FinishRun(r)
            \/ \E status \in {"partial", "failed"} : FailRun(r, status)
        BY <1>7 DEF RunStep, FetchPage, StageItem, Crash
      <3> QED
        BY <1>2, <1>3, <1>4, <1>6
    <2> QED
      BY <1>1
  <1> QED
    BY <1>5, <1>7 DEF Next

\* The watermark never moves back, however many runs overlap.
THEOREM WatermarkMonotone == Spec => WatermarkNeverRegresses
  BY InitType, StepType, StepWatermark, PTL DEF Spec, WatermarkNeverRegresses

-------------------------------------------------------------------------------
(* No edit is lost.                                                        *)

\* Nothing is stamped in the future, a row never carries a later stamp than its
\* submission, and a row that is not there holds nothing.
RowStamps(x) ==
    /\ remote[x].at <= clock
    /\ remote[x].edit = 0 => remote[x].at = 0
    /\ staged[x].at <= remote[x].at
    /\ staged[x].status = "absent" => staged[x] = NoRow

\* A run has seen no stamp later than the end of its traversal, and an item of
\* its page shows a submission as it was when it was served.
RunStamps(r) ==
    /\ runs[r].started <= clock
    /\ runs[r].candidate <= clock
    /\ runs[r].candidate <= Later(asset.watermark, runs[r].started + TraversalLimit)
    /\ \A item \in runs[r].page :
          /\ item.at <= runs[r].started + TraversalLimit
          /\ item.at <= remote[item.id].at
          /\ remote[item.id].edit > 0

StampsInOrder ==
    /\ asset.watermark <= clock
    /\ \A x \in Submissions : RowStamps(x)
    /\ \A r \in Runs : RunStamps(r)

\* What a run under way still has to bring: a submission whose latest edit is
\* unseen is yet to be served, or on the page, or was edited after the start.
Covered ==
    \A r \in Runs : runs[r].working =>
        \A x \in Submissions : Unseen(x) =>
            \/ x \in runs[r].due
            \/ remote[x].at >= runs[r].started
            \/ [id |-> x, edit |-> remote[x].edit, at |-> remote[x].at] \in runs[r].page

LEMMA WindowStartEarly ==
    ASSUME NEW w \in Int
    PROVE  /\ WindowStart(w) \in Int
           /\ w >= 0 => WindowStart(w) <= w
           /\ \A t \in Nat : TraversalLimit <= Overlap /\ w <= t + TraversalLimit
                             => WindowStart(w) <= t
  BY SyncAssumption DEF WindowStart

\* What the two ways of keeping a payload add to what is known of a submission.
LEMMA KnownGrows ==
    ASSUME NEW row \in RowType, NEW item \in Item
    PROVE  /\ Known(Flagged(row, item)) = Known(row) \cup {item.edit}
           /\ Known(Replaced(row, item)) = Known(row) \cup {item.edit}
           /\ Flagged(row, item).status = row.status /\ Flagged(row, item).at = row.at
           /\ Replaced(row, item).status = "open" /\ Replaced(row, item).at = item.at
  <1> DEFINE served == [edit |-> item.edit, at |-> item.at]
             kept   == [edit |-> row.edit, at |-> row.at]
  <1>1. /\ Flagged(row, item).edit = row.edit
        /\ Flagged(row, item).revisions = row.revisions \cup {served}
        /\ Flagged(row, item).status = row.status /\ Flagged(row, item).at = row.at
    BY DEF Flagged, RowType
  <1>2. /\ Replaced(row, item).edit = item.edit
        /\ Replaced(row, item).revisions = row.revisions \cup {kept}
        /\ Replaced(row, item).status = "open" /\ Replaced(row, item).at = item.at
    BY DEF Replaced, RowType
  <1>3. served.edit = item.edit /\ kept.edit = row.edit
    OBVIOUS
  <1>4. ASSUME NEW any, NEW e
        PROVE  e \in Known(any) <=> e = any.edit \/ \E v \in any.revisions : v.edit = e
    BY DEF Known
  <1> HIDE DEF served, kept
  <1>5. ASSUME NEW e
        PROVE  e \in Known(Flagged(row, item)) <=> e \in Known(row) \cup {item.edit}
    <2> DEFINE flagged == Flagged(row, item)
    <2>1. e \in Known(flagged) <=> e = flagged.edit \/ \E v \in flagged.revisions : v.edit = e
      BY <1>4
    <2>2. e \in Known(row) <=> e = row.edit \/ \E v \in row.revisions : v.edit = e
      BY <1>4
    <2> QED
      BY <1>1, <1>3, <2>1, <2>2
  <1>6. ASSUME NEW e
        PROVE  e \in Known(Replaced(row, item)) <=> e \in Known(row) \cup {item.edit}
    <2> DEFINE new == Replaced(row, item)
    <2>1. e \in Known(new) <=> e = new.edit \/ \E v \in new.revisions : v.edit = e
      BY <1>4
    <2>2. e \in Known(row) <=> e = row.edit \/ \E v \in row.revisions : v.edit = e
      BY <1>4
    <2> QED
      BY <1>2, <1>3, <2>1, <2>2
  <1> QED
    BY <1>1, <1>2, <1>5, <1>6

\* What staging an item does to the row of its submission.
LEMMA MergedKnows ==
    ASSUME NEW row \in RowType, NEW item \in Item, row.status = "absent" => row = NoRow
    PROVE  LET new == Merged(row, item) IN
           /\ new.status # "absent"
           /\ new.at \in {row.at, item.at}
           /\ new.at > 0 => row.status = "absent" \/ row.at > 0
           /\ row.status # "absent" => Known(row) \subseteq Known(new)
           /\ (row.status = "absent" \/ row.at > 0) /\ item.at >= row.at
              => item.edit \in Known(new)
  <1> DEFINE new == Merged(row, item)
  <1> DEFINE made == [NoRow EXCEPT !.status = "open", !.edit = item.edit, !.at = item.at]
  <1> row.at \in Nat /\ item.at \in Nat
    BY SyncAssumption DEF RowType, Item, Time
  <1>1. CASE row.status = "absent"
    <2>1. new = made
      BY <1>1 DEF Merged, NoRow
    <2>2. made.status = "open" /\ made.edit = item.edit /\ made.at = item.at
      BY DEF NoRow
    <2> QED
      BY <1>1, <2>1, <2>2 DEF Known
  <1>2. CASE row.status # "absent" /\ (row.at = 0 \/ item.at < row.at)
    <2> new = row
      BY <1>2 DEF Merged
    <2> QED
      BY <1>2
  <1>3. CASE row.status # "absent" /\ row.at > 0 /\ item.at = row.at
    <2>1. new = IF item.edit = row.edit THEN row ELSE Flagged(row, item)
      BY <1>3 DEF Merged
    <2>2. item.edit = row.edit => item.edit \in Known(row)
      BY DEF Known
    <2> QED
      BY <1>3, <2>1, <2>2, KnownGrows
  <1>4. CASE row.status # "absent" /\ row.at > 0 /\ item.at > row.at
    <2>1. new = IF Protected(row) THEN Flagged(row, item) ELSE Replaced(row, item)
      BY <1>4 DEF Merged
    <2> QED
      BY <1>4, <2>1, KnownGrows
  <1> QED
    BY <1>1, <1>2, <1>3, <1>4

LEMMA Stamps ==
    ASSUME TypeOK
    PROVE  /\ clock \in Nat /\ asset.watermark \in Nat
           /\ \A x \in Submissions :
                 remote[x].at \in Nat /\ remote[x].edit \in Nat /\ staged[x].at \in Nat
           /\ \A r \in Runs :
                 /\ runs[r].started \in Nat /\ runs[r].candidate \in Nat
                 /\ \A item \in runs[r].page :
                       /\ item \in Item /\ item.id \in Submissions
                       /\ item.at \in Nat /\ item.edit \in Nat
  <1> Time \subseteq Nat /\ Edit \subseteq Nat
    BY SyncAssumption DEF Time, Edit
  <1>1. /\ clock \in Nat /\ asset.watermark \in Nat
        /\ \A x \in Submissions :
              remote[x].at \in Nat /\ remote[x].edit \in Nat /\ staged[x].at \in Nat
    BY DEF TypeOK, AssetType, RowType
  <1>2. ASSUME NEW r \in Runs
        PROVE  runs[r].started \in Nat /\ runs[r].candidate \in Nat /\ runs[r].page \subseteq Item
    BY DEF TypeOK, RunType
  <1>3. ASSUME NEW item \in Item
        PROVE  item.id \in Submissions /\ item.at \in Nat /\ item.edit \in Nat
    BY DEF Item
  <1> QED
    BY <1>1, <1>2, <1>3

LEMMA ItemStaged ==
    ASSUME TypeOK, StampsInOrder, NEW r \in Runs, NEW item \in runs[r].page, StageItem(r, item)
    PROVE  /\ \A x \in Submissions : RowStamps(x)'
           /\ \A x \in Submissions :
                 Unseen(x)' =>
                    /\ Unseen(x)
                    /\ item # [id |-> x, edit |-> remote[x].edit, at |-> remote[x].at]
  <1> SUFFICES ASSUME NEW x \in Submissions
               PROVE  /\ RowStamps(x)'
                      /\ Unseen(x)' => Unseen(x)
                      /\ Unseen(x)' =>
                            item # [id |-> x, edit |-> remote[x].edit, at |-> remote[x].at]
    OBVIOUS
  <1>1. RowStamps(x)
    BY DEF StampsInOrder
  <1>2. /\ remote[x].at \in Nat /\ remote[x].edit \in Nat /\ staged[x].at \in Nat
        /\ item \in Item /\ item.id \in Submissions /\ staged[x] \in RowType
        /\ item.at \in Nat
    BY Stamps DEF TypeOK
  <1>3. UNCHANGED <<clock, remote>>
    BY DEF StageItem
  <1>4. CASE x # item.id
    <2> staged'[x] = staged[x]
      BY <1>4 DEF StageItem, TypeOK
    <2> QED
      BY <1>1, <1>3, <1>4, <1>2 DEF RowStamps, Unseen
  <1>5. CASE x = item.id
    <2> DEFINE new == Merged(staged[x], item)
    <2>1. staged'[x] = new
      BY <1>5 DEF StageItem, TypeOK
    <2>2. item.at <= remote[x].at /\ remote[x].edit > 0
      BY <1>5 DEF StampsInOrder, RunStamps
    <2>3. staged[x].status = "absent" => staged[x] = NoRow
      BY <1>1 DEF RowStamps
    <2>4. /\ new.status # "absent"
          /\ new.at \in {staged[x].at, item.at}
          /\ new.at > 0 => staged[x].status = "absent" \/ staged[x].at > 0
          /\ staged[x].status # "absent" => Known(staged[x]) \subseteq Known(new)
          /\ (staged[x].status = "absent" \/ staged[x].at > 0) /\ item.at >= staged[x].at
             => item.edit \in Known(new)
      BY <1>2, <2>3, MergedKnows
    <2> HIDE DEF new
    <2>5. RowStamps(x)'
      BY <1>1, <1>2, <1>3, <2>1, <2>2, <2>4 DEF RowStamps
    <2>6. ASSUME Unseen(x)' PROVE Unseen(x)
      <3>1. remote[x].edit \notin Known(new) /\ new.at > 0
        BY <1>3, <2>1, <2>4, <2>6 DEF Unseen
      <3>2. CASE staged[x].status # "absent"
        BY <2>4, <3>1, <3>2 DEF Unseen
      <3>3. CASE staged[x].status = "absent"
        <4> Known(NoRow) = {0}
          BY DEF Known, NoRow
        <4> QED
          BY <1>2, <2>2, <2>3, <3>3 DEF Unseen
      <3> QED
        BY <3>2, <3>3
    <2>7. ASSUME Unseen(x)', item = [id |-> x, edit |-> remote[x].edit, at |-> remote[x].at]
          PROVE  FALSE
      <3>1. remote[x].edit \notin Known(new) /\ new.at > 0
        BY <1>3, <2>1, <2>4, <2>7 DEF Unseen
      <3>2. item.edit = remote[x].edit /\ item.at = remote[x].at
        BY <2>7
      <3> QED
        BY <1>1, <1>2, <2>4, <3>1, <3>2 DEF RowStamps
    <2> QED
      BY <2>5, <2>6, <2>7
  <1> QED
    BY <1>4, <1>5

\* A run that a step leaves alone keeps its stamps in order.
LEMMA RunStampsKept ==
    ASSUME TypeOK, TypeOK', StampsInOrder, NEW r \in Runs,
           clock' >= clock, asset'.watermark >= asset.watermark,
           runs'[r].started = runs[r].started, runs'[r].candidate = runs[r].candidate,
           runs'[r].page \subseteq runs[r].page,
           \A x \in Submissions : remote'[x].at >= remote[x].at /\ remote'[x].edit >= remote[x].edit
    PROVE  RunStamps(r)'
  <1>1. /\ clock \in Nat /\ clock' \in Nat /\ asset.watermark \in Nat /\ asset'.watermark \in Nat
        /\ runs[r].started \in Nat /\ runs[r].candidate \in Nat
    BY Stamps DEF TypeOK, AssetType, Time
  <1>2. RunStamps(r)
    BY DEF StampsInOrder
  <1>3. /\ runs[r].started <= clock' /\ runs[r].candidate <= clock'
        /\ runs[r].candidate <= Later(asset'.watermark, runs[r].started + TraversalLimit)
    BY <1>1, <1>2, SyncAssumption DEF RunStamps, Later
  <1>4. ASSUME NEW item \in runs'[r].page
        PROVE  /\ item.at <= runs[r].started + TraversalLimit
               /\ item.at <= remote'[item.id].at
               /\ remote'[item.id].edit > 0
    <2>1. /\ item.at <= runs[r].started + TraversalLimit
          /\ item.at <= remote[item.id].at /\ remote[item.id].edit > 0
      BY <1>2 DEF RunStamps
    <2>2. /\ item.id \in Submissions /\ item.at \in Nat
          /\ remote[item.id].at \in Nat /\ remote[item.id].edit \in Nat
      BY Stamps
    <2>3. remote'[item.id].at \in Nat /\ remote'[item.id].edit \in Nat
      BY <2>2, SyncAssumption DEF TypeOK, Time, Edit
    <2> QED
      BY <2>1, <2>2, <2>3
  <1> QED
    BY <1>3, <1>4 DEF RunStamps

LEMMA InitStamps == Init => StampsInOrder
  BY SyncAssumption DEF Init, StampsInOrder, RowStamps, RunStamps, NoRun, NoRow, Later

\* Steps outside the runs.
LEMMA RowStepStamps ==
    ASSUME TypeOK, TypeOK', StampsInOrder, Tick \/ RowStep
    PROVE  StampsInOrder'
  <1>1. UNCHANGED <<asset, runs>> /\ clock' \in {clock, clock + 1} /\ clock \in Nat
    BY Stamps DEF Tick, RowStep, EditRemotely, ReceiveWebhook, Approve, Import, ImportFails,
                  RecordFailure
  <1>2. ASSUME NEW x \in Submissions
        PROVE  /\ RowStamps(x)'
               /\ remote'[x].at >= remote[x].at /\ remote'[x].edit >= remote[x].edit
    <2>1. RowStamps(x)
      BY DEF StampsInOrder
    <2>2. remote[x].at \in Nat /\ remote[x].edit \in Nat /\ staged[x].at \in Nat
      BY Stamps
    <2>3. CASE UNCHANGED <<remote[x], staged[x]>>
      BY <1>1, <2>1, <2>2, <2>3 DEF RowStamps
    <2>4. CASE EditRemotely(x)
      <3> remote'[x].edit = remote[x].edit + 1 /\ remote'[x].at = clock
        BY <2>4 DEF EditRemotely, TypeOK
      <3> staged' = staged /\ clock' = clock
        BY <2>4 DEF EditRemotely
      <3> QED
        BY <1>1, <2>1, <2>2 DEF RowStamps
    <2>5. ASSUME NEW edit \in Edit, ReceiveWebhook(x, edit) PROVE RowStamps(x)' /\ remote' = remote
      <3> staged'[x].at = 0 /\ staged'[x].status = "open"
        BY <2>5 DEF ReceiveWebhook, TypeOK, NoRow
      <3> QED
        BY <2>1, <2>2, <2>5 DEF RowStamps, ReceiveWebhook
    <2>6. CASE Approve(x) \/ Import(x) \/ RecordFailure(x)
      <3> staged'[x].at = staged[x].at /\ staged'[x].status # "absent"
        BY <2>6 DEF Approve, Import, RecordFailure, TypeOK, RowType
      <3> remote' = remote /\ clock' = clock
        BY <2>6 DEF Approve, Import, RecordFailure
      <3> QED
        BY <2>1, <2>2 DEF RowStamps
    <2>7. \/ UNCHANGED <<remote[x], staged[x]>>
          \/ EditRemotely(x)
          \/ \E edit \in Edit : ReceiveWebhook(x, edit)
          \/ Approve(x) \/ Import(x) \/ RecordFailure(x)
      <3>1. CASE Tick
        BY <3>1 DEF Tick
      <3>2. ASSUME NEW y \in Submissions,
                   \/ EditRemotely(y)
                   \/ \E edit \in Edit : ReceiveWebhook(y, edit)
                   \/ Approve(y) \/ Import(y) \/ ImportFails(y) \/ RecordFailure(y),
                   y # x \/ ImportFails(y)
            PROVE  UNCHANGED <<remote[x], staged[x]>>
        BY <3>2 DEF EditRemotely, ReceiveWebhook, Approve, Import, ImportFails, RecordFailure,
                    TypeOK
      <3> QED
        BY <3>1, <3>2 DEF RowStep
    <2> QED
      BY <2>2, <2>3, <2>4, <2>5, <2>6, <2>7
  <1>3. ASSUME NEW r \in Runs PROVE RunStamps(r)'
    <2> asset.watermark \in Nat
      BY Stamps
    <2> QED
      BY <1>1, <1>2, RunStampsKept
  <1>4. asset'.watermark <= clock'
    <2> asset.watermark <= clock /\ asset.watermark \in Nat
      BY Stamps DEF StampsInOrder
    <2> QED
      BY <1>1
  <1> QED
    BY <1>2, <1>3, <1>4 DEF StampsInOrder

LEMMA RunStepStamps ==
    ASSUME TypeOK, TypeOK', StampsInOrder, RunStep
    PROVE  StampsInOrder'
  <1>1. UNCHANGED <<clock, remote>> /\ asset'.watermark >= asset.watermark
    BY StepWatermark
    DEF Next, RunStep, StartRun, FetchPage, StageItem, FinishRun, FailRun, Crash
  <1>2. ASSUME NEW x \in Submissions, staged' = staged PROVE RowStamps(x)'
    BY <1>1, <1>2 DEF StampsInOrder, RowStamps
  <1>3. ASSUME NEW r \in Runs, runs'[r].started = runs[r].started,
               runs'[r].candidate = runs[r].candidate, runs'[r].page \subseteq runs[r].page
        PROVE  RunStamps(r)'
    <2>1. /\ clock' >= clock
          /\ \A x \in Submissions :
                remote'[x].at >= remote[x].at /\ remote'[x].edit >= remote[x].edit
      BY <1>1, Stamps
    <2> QED
      BY <1>1, <1>3, <2>1, RunStampsKept
  <1>4. /\ asset.watermark <= clock /\ asset.watermark \in Nat /\ clock \in Nat
        /\ \A q \in Runs : runs[q].started \in Nat /\ runs[q].candidate \in Nat
    BY Stamps DEF StampsInOrder
  <1> PICK r \in Runs :
        \/ \E full \in BOOLEAN : StartRun(r, full)
        \/ \E page \in SUBSET Submissions : FetchPage(r, page)
        \/ \E item \in runs[r].page : StageItem(r, item)
        \/ FinishRun(r)
        \/ \E status \in {"partial", "failed"} : FailRun(r, status)
        \/ Crash(r)
    BY DEF RunStep
  <1>5. RunStamps(r)
    BY DEF StampsInOrder
  <1>6. ASSUME NEW full \in BOOLEAN, StartRun(r, full) PROVE StampsInOrder'
    <2>1. RunStamps(r)'
      <3> /\ runs'[r].started = clock /\ runs'[r].candidate = asset.watermark
          /\ runs'[r].page = {} /\ asset'.watermark = asset.watermark /\ clock' = clock
        BY <1>6, StartedRuns
      <3> QED
        BY <1>4, SyncAssumption DEF RunStamps, Later
    <2>2. ASSUME NEW q \in Runs \ {r} PROVE RunStamps(q)'
      <3>1. runs'[q] \in {runs[q], [runs[q] EXCEPT !.status = "abandoned"]}
        BY <1>6, StartedRuns
      <3>2. /\ runs'[q].started = runs[q].started /\ runs'[q].candidate = runs[q].candidate
            /\ runs'[q].page = runs[q].page
        BY <3>1 DEF TypeOK, RunType
      <3> QED
        BY <1>3, <3>2
    <2>3. asset'.watermark = asset.watermark /\ staged' = staged
      BY <1>6, StartedRuns
    <2> QED
      BY <1>1, <1>2, <1>4, <2>1, <2>2, <2>3 DEF StampsInOrder
  <1>7. ASSUME NEW page \in SUBSET Submissions, FetchPage(r, page) PROVE StampsInOrder'
    <2>1. /\ runs'[r].started = runs[r].started /\ runs'[r].candidate = runs[r].candidate
          /\ runs'[r].page = {[id |-> x, edit |-> remote[x].edit, at |-> remote[x].at] : x \in page}
          /\ \A q \in Runs \ {r} : runs'[q] = runs[q]
      BY <1>7 DEF FetchPage, TypeOK, RunType
    <2>2. ASSUME NEW item \in runs'[r].page
          PROVE  /\ item.at <= runs[r].started + TraversalLimit
                 /\ item.at <= remote[item.id].at
                 /\ remote[item.id].edit > 0
      <3> PICK x \in page : item = [id |-> x, edit |-> remote[x].edit, at |-> remote[x].at]
        BY <2>1
      <3>1. item.id = x /\ item.at = remote[x].at
        OBVIOUS
      <3>2. remote[x].edit > 0 /\ clock <= runs[r].started + TraversalLimit
        BY <1>7 DEF FetchPage, InWindow
      <3>3. remote[x].at <= clock /\ remote[x].at \in Nat
        BY Stamps DEF StampsInOrder, RowStamps
      <3> QED
        BY <1>4, <3>1, <3>2, <3>3, SyncAssumption
    <2>3. RunStamps(r)'
      <3> asset' = asset
        BY <1>7 DEF FetchPage
      <3> QED
        BY <1>1, <1>5, <2>1, <2>2 DEF RunStamps
    <2> asset' = asset /\ staged' = staged
      BY <1>7 DEF FetchPage
    <2> QED
      BY <1>1, <1>2, <1>3, <1>4, <2>1, <2>3 DEF StampsInOrder
  <1>8. ASSUME NEW item \in runs[r].page, StageItem(r, item) PROVE StampsInOrder'
    <2>1. /\ runs'[r].started = runs[r].started
          /\ runs'[r].candidate = Later(runs[r].candidate, item.at)
          /\ runs'[r].page \subseteq runs[r].page
          /\ \A q \in Runs \ {r} : runs'[q] = runs[q]
      BY <1>8 DEF StageItem, TypeOK, RunType
    <2>2. asset' = asset
      BY <1>8 DEF StageItem
    <2>3. /\ item.at <= runs[r].started + TraversalLimit /\ item.at <= clock /\ item.at \in Nat
      <3> /\ item.at <= runs[r].started + TraversalLimit
          /\ item.at <= remote[item.id].at /\ item.id \in Submissions
          /\ item.at \in Nat /\ remote[item.id].at \in Nat
        BY <1>5, Stamps DEF RunStamps
      <3> remote[item.id].at <= clock
        BY DEF StampsInOrder, RowStamps
      <3> QED
        BY <1>4
    <2>4. RunStamps(r)'
      <3> /\ runs'[r].candidate <= clock
          /\ runs'[r].candidate <= Later(asset.watermark, runs[r].started + TraversalLimit)
        BY <1>4, <1>5, <2>1, <2>3, SyncAssumption DEF RunStamps, Later
      <3> QED
        BY <1>1, <1>5, <2>1, <2>2 DEF RunStamps
    <2> QED
      BY <1>1, <1>3, <1>4, <1>8, <2>1, <2>2, <2>4, ItemStaged DEF StampsInOrder
  <1>9. CASE FinishRun(r) \/ (\E status \in {"partial", "failed"} : FailRun(r, status)) \/ Crash(r)
    <2>1. \A q \in Runs : /\ runs'[q].started = runs[q].started
                          /\ runs'[q].candidate = runs[q].candidate
                          /\ runs'[q].page \subseteq runs[q].page
      <3>1. ASSUME NEW status \in RunStatus, Ended(r, status)
            PROVE  /\ runs'[r].started = runs[r].started /\ runs'[r].candidate = runs[r].candidate
                   /\ runs'[r].page = {}
                   /\ \A q \in Runs \ {r} : runs'[q] = runs[q]
        BY <3>1 DEF Ended, TypeOK, RunType
      <3>2. ASSUME Crash(r)
            PROVE  /\ runs'[r].started = runs[r].started /\ runs'[r].candidate = runs[r].candidate
                   /\ runs'[r].page = {}
                   /\ \A q \in Runs \ {r} : runs'[q] = runs[q]
        BY <3>2 DEF Crash, TypeOK, RunType
      <3> QED
        BY <1>9, <3>1, <3>2 DEF FinishRun, FailRun, RunStatus
    <2>2. staged' = staged
      BY <1>9 DEF FinishRun, FailRun, Crash
    <2>3. asset'.watermark <= clock
      <3>1. CASE FinishRun(r)
        <4> asset'.watermark = Later(asset.watermark, runs[r].candidate)
          BY <3>1, ReleasedType DEF FinishRun, AssetType
        <4> QED
          BY <1>4, <1>5 DEF RunStamps, Later
      <3>2. CASE (\E status \in {"partial", "failed"} : FailRun(r, status)) \/ Crash(r)
        <4> asset'.watermark = asset.watermark
          BY <3>2, ReleasedType DEF FailRun, Crash
        <4> QED
          BY <1>4
      <3> QED
        BY <1>9, <3>1, <3>2
    <2> QED
      BY <1>1, <1>2, <1>3, <2>1, <2>2, <2>3 DEF StampsInOrder
  <1> QED
    BY <1>6, <1>7, <1>8, <1>9

LEMMA StepStamps ==
    ASSUME TypeOK, StampsInOrder, [Next]_vars
    PROVE  StampsInOrder'
  <1>1. CASE UNCHANGED vars
    BY <1>1 DEF vars, StampsInOrder, RowStamps, RunStamps
  <1> QED
    BY <1>1, StepType, RowStepStamps, RunStepStamps DEF Next

\* An unseen submission has been sent.
LEMMA UnseenIsSent ==
    ASSUME TypeOK, StampsInOrder, NEW x \in Submissions, Unseen(x)
    PROVE  remote[x].edit > 0
  <1> SUFFICES ASSUME remote[x].edit = 0 PROVE FALSE
    BY Stamps
  <1>1. RowStamps(x)
    BY DEF StampsInOrder
  <1>2. staged[x].at = 0 /\ staged[x].at \in Nat
    BY <1>1, Stamps DEF RowStamps
  <1>3. staged[x] = NoRow
    BY <1>1, <1>2 DEF RowStamps, Unseen
  <1> QED
    BY <1>3 DEF Unseen, Known, NoRow

\* Outside the runs only an edit makes a submission unseen.
LEMMA UnseenInRowStep ==
    ASSUME TypeOK, StampsInOrder, Tick \/ RowStep, NEW x \in Submissions, Unseen(x)'
    PROVE  \/ Unseen(x) /\ remote'[x] = remote[x]
           \/ remote'[x].at = clock
  <1>1. CASE UNCHANGED <<remote[x], staged[x]>>
    BY <1>1 DEF Unseen
  <1>2. CASE EditRemotely(x)
    BY <1>2 DEF EditRemotely, TypeOK
  <1>3. ASSUME NEW edit \in Edit, ReceiveWebhook(x, edit) PROVE FALSE
    <2> staged'[x].at = 0 /\ staged'[x].status = "open"
      BY <1>3 DEF ReceiveWebhook, TypeOK, NoRow
    <2> QED
      BY DEF Unseen
  <1>4. CASE Approve(x) \/ Import(x) \/ RecordFailure(x)
    <2>1. /\ staged'[x].at = staged[x].at /\ staged'[x].edit = staged[x].edit
          /\ staged'[x].revisions = staged[x].revisions /\ staged'[x].status # "absent"
      BY <1>4 DEF Approve, Import, RecordFailure, TypeOK, RowType
    <2>2. remote' = remote
      BY <1>4 DEF Approve, Import, RecordFailure
    <2> QED
      BY <2>1, <2>2 DEF Unseen, Known
  <1>5. CASE Tick
    BY <1>5, <1>1 DEF Tick
  <1>6. ASSUME NEW y \in Submissions,
               \/ EditRemotely(y)
               \/ \E edit \in Edit : ReceiveWebhook(y, edit)
               \/ Approve(y) \/ Import(y) \/ ImportFails(y) \/ RecordFailure(y),
               y # x \/ ImportFails(y)
        PROVE  UNCHANGED <<remote[x], staged[x]>>
    BY <1>6 DEF EditRemotely, ReceiveWebhook, Approve, Import, ImportFails, RecordFailure, TypeOK
  <1> QED
    BY <1>1, <1>2, <1>3, <1>4, <1>5, <1>6 DEF RowStep

LEMMA InitCoverage == Init => NoEditIsLost /\ Covered
  BY DEF Init, NoEditIsLost, Covered, Unseen, Known, NoRow, NoRun

LEMMA RowStepCoverage ==
    ASSUME TypeOK, StampsInOrder, NoEditIsLost, Covered, Tick \/ RowStep
    PROVE  NoEditIsLost' /\ Covered'
  <1>1. UNCHANGED <<asset, runs>>
    BY DEF Tick, RowStep, EditRemotely, ReceiveWebhook, Approve, Import, ImportFails, RecordFailure
  <1>2. NoEditIsLost'
    <2> SUFFICES ASSUME NEW x \in Submissions, Unseen(x)'
                 PROVE  remote'[x].at >= WindowStart(asset.watermark)
      BY <1>1 DEF NoEditIsLost, WindowStart
    <2>1. CASE Unseen(x) /\ remote'[x] = remote[x]
      BY <2>1 DEF NoEditIsLost
    <2>2. CASE remote'[x].at = clock
      <3> asset.watermark \in Nat /\ clock \in Nat /\ asset.watermark <= clock
        BY Stamps DEF StampsInOrder
      <3> QED
        BY <2>2, WindowStartEarly
    <2> QED
      BY <2>1, <2>2, UnseenInRowStep
  <1>3. Covered'
    <2> SUFFICES ASSUME NEW r \in Runs, runs[r].working, NEW x \in Submissions, Unseen(x)'
                 PROVE  \/ x \in runs[r].due
                        \/ remote'[x].at >= runs[r].started
                        \/ [id |-> x, edit |-> remote'[x].edit, at |-> remote'[x].at]
                              \in runs[r].page
      BY <1>1 DEF Covered
    <2>1. CASE Unseen(x) /\ remote'[x] = remote[x]
      BY <2>1 DEF Covered
    <2>2. CASE remote'[x].at = clock
      BY <2>2, Stamps DEF StampsInOrder, RunStamps
    <2> QED
      BY <2>1, <2>2, UnseenInRowStep
  <1> QED
    BY <1>2, <1>3

\* The window of a new run contains every unseen submission.
LEMMA StartCovers ==
    ASSUME TypeOK, StampsInOrder, NoEditIsLost, Covered,
           NEW r \in Runs, NEW full \in BOOLEAN, StartRun(r, full)
    PROVE  NoEditIsLost' /\ Covered'
  <1>1. UNCHANGED <<remote, staged>> /\ asset'.watermark = asset.watermark
    BY StartedRuns
  <1>2. \A x \in Submissions : Unseen(x)' <=> Unseen(x)
    BY <1>1 DEF Unseen
  <1>3. NoEditIsLost'
    BY <1>1, <1>2 DEF NoEditIsLost, WindowStart
  <1>4. ASSUME NEW x \in Submissions, Unseen(x) PROVE x \in runs'[r].due
    <2>1. remote[x].edit > 0 /\ remote[x].at \in Nat
      BY <1>4, UnseenIsSent, Stamps
    <2>2. remote[x].at >= WindowStart(asset.watermark)
      BY <1>4 DEF NoEditIsLost
    <2>3. /\ runs'[r].since = IF full THEN 0 ELSE WindowStart(asset.watermark)
          /\ runs'[r].due = InWindow(runs'[r].since)
      BY StartedRuns
    <2> QED
      BY <2>1, <2>2, <2>3 DEF InWindow
  <1>5. ASSUME NEW q \in Runs \ {r}
        PROVE  /\ runs'[q].working = runs[q].working /\ runs'[q].due = runs[q].due
               /\ runs'[q].started = runs[q].started /\ runs'[q].page = runs[q].page
    <2> runs'[q] \in {runs[q], [runs[q] EXCEPT !.status = "abandoned"]}
      BY StartedRuns
    <2> QED
      BY DEF TypeOK, RunType
  <1>6. Covered'
    BY <1>1, <1>2, <1>4, <1>5 DEF Covered
  <1> QED
    BY <1>3, <1>6

LEMMA FetchCovers ==
    ASSUME TypeOK, NoEditIsLost, Covered,
           NEW r \in Runs, NEW page \in SUBSET Submissions, FetchPage(r, page)
    PROVE  NoEditIsLost' /\ Covered'
  <1>1. UNCHANGED <<remote, staged, asset>>
    BY DEF FetchPage
  <1>2. \A x \in Submissions : Unseen(x)' <=> Unseen(x)
    BY <1>1 DEF Unseen
  <1>3. NoEditIsLost'
    BY <1>1, <1>2 DEF NoEditIsLost, WindowStart
  <1>4. /\ runs'[r].started = runs[r].started /\ runs'[r].due = runs[r].due \ page
        /\ runs'[r].page = {[id |-> x, edit |-> remote[x].edit, at |-> remote[x].at] : x \in page}
        /\ runs'[r].working = runs[r].working /\ runs[r].page = {}
        /\ \A q \in Runs \ {r} : runs'[q] = runs[q]
    BY DEF FetchPage, TypeOK, RunType
  <1>5. ASSUME NEW x \in Submissions, Unseen(x), runs[r].working
        PROVE  \/ x \in runs'[r].due
               \/ remote[x].at >= runs'[r].started
               \/ [id |-> x, edit |-> remote[x].edit, at |-> remote[x].at] \in runs'[r].page
    <2> x \in runs[r].due \/ remote[x].at >= runs[r].started
      BY <1>4, <1>5 DEF Covered
    <2> QED
      BY <1>4
  <1>6. Covered'
    BY <1>1, <1>2, <1>4, <1>5 DEF Covered
  <1> QED
    BY <1>3, <1>6

LEMMA StageCovers ==
    ASSUME TypeOK, StampsInOrder, NoEditIsLost, Covered,
           NEW r \in Runs, NEW item \in runs[r].page, StageItem(r, item)
    PROVE  NoEditIsLost' /\ Covered'
  <1>1. UNCHANGED <<remote, asset>>
    BY DEF StageItem
  <1>2. \A x \in Submissions : Unseen(x)' =>
           Unseen(x) /\ item # [id |-> x, edit |-> remote[x].edit, at |-> remote[x].at]
    BY ItemStaged
  <1>3. NoEditIsLost'
    BY <1>1, <1>2 DEF NoEditIsLost, WindowStart
  <1>4. /\ runs'[r].started = runs[r].started /\ runs'[r].due = runs[r].due
        /\ runs'[r].page = runs[r].page \ {item} /\ runs'[r].working = runs[r].working
        /\ \A q \in Runs \ {r} : runs'[q] = runs[q]
    BY DEF StageItem, TypeOK, RunType
  <1>5. Covered'
    BY <1>1, <1>2, <1>4 DEF Covered
  <1> QED
    BY <1>3, <1>5

\* A complete run moves the watermark no further than what it has missed: an
\* unseen edit was made after its start, and its candidate is at most the end of
\* its traversal, which the overlap reaches back over.
LEMMA FinishCovers ==
    ASSUME TraversalLimit <= Overlap, TypeOK, StampsInOrder, NoEditIsLost, Covered,
           NEW r \in Runs, FinishRun(r)
    PROVE  NoEditIsLost' /\ Covered'
  <1>1. UNCHANGED <<remote, staged>>
    BY DEF FinishRun
  <1>2. \A x \in Submissions : Unseen(x)' <=> Unseen(x)
    BY <1>1 DEF Unseen
  <1>3. asset'.watermark = Later(asset.watermark, runs[r].candidate)
    BY ReleasedType DEF FinishRun, AssetType
  <1>4. NoEditIsLost'
    <2> SUFFICES ASSUME NEW x \in Submissions, Unseen(x)
                 PROVE  remote[x].at >= WindowStart(Later(asset.watermark, runs[r].candidate))
      BY <1>1, <1>2, <1>3 DEF NoEditIsLost, WindowStart
    <2>1. remote[x].at >= WindowStart(asset.watermark)
      BY DEF NoEditIsLost
    <2>2. remote[x].at >= runs[r].started
      BY DEF Covered, FinishRun
    <2>3. /\ asset.watermark \in Nat /\ runs[r].started \in Nat /\ runs[r].candidate \in Nat
          /\ remote[x].at \in Nat
      BY Stamps
    <2>4. runs[r].candidate <= Later(asset.watermark, runs[r].started + TraversalLimit)
      BY DEF StampsInOrder, RunStamps
    <2>5. CASE runs[r].candidate <= asset.watermark
      <3> Later(asset.watermark, runs[r].candidate) = asset.watermark
        BY <2>3, <2>5 DEF Later
      <3> QED
        BY <2>1
    <2>6. CASE runs[r].candidate > asset.watermark
      <3>1. runs[r].candidate <= runs[r].started + TraversalLimit
        BY <2>3, <2>4, <2>6, SyncAssumption DEF Later
      <3>2. WindowStart(runs[r].candidate) \in Int
            /\ WindowStart(runs[r].candidate) <= runs[r].started
        BY <2>3, <3>1, WindowStartEarly
      <3>3. Later(asset.watermark, runs[r].candidate) = runs[r].candidate
        BY <2>3, <2>6 DEF Later
      <3> QED
        BY <2>2, <2>3, <3>2, <3>3
    <2> QED
      BY <2>3, <2>5, <2>6
  <1>5. Covered'
    <2> runs'[r].working = FALSE /\ \A q \in Runs \ {r} : runs'[q] = runs[q]
      BY DEF FinishRun, Ended, TypeOK, RunType
    <2> QED
      BY <1>1, <1>2 DEF Covered
  <1> QED
    BY <1>4, <1>5

LEMMA StopCovers ==
    ASSUME TypeOK, NoEditIsLost, Covered, NEW r \in Runs,
           (\E status \in {"partial", "failed"} : FailRun(r, status)) \/ Crash(r)
    PROVE  NoEditIsLost' /\ Covered'
  <1>1. UNCHANGED <<remote, staged>> /\ asset'.watermark = asset.watermark
    BY ReleasedType DEF FailRun, Crash
  <1>2. \A x \in Submissions : Unseen(x)' <=> Unseen(x)
    BY <1>1 DEF Unseen
  <1>3. NoEditIsLost'
    BY <1>1, <1>2 DEF NoEditIsLost, WindowStart
  <1>4. Covered'
    <2> runs'[r].working = FALSE /\ \A q \in Runs \ {r} : runs'[q] = runs[q]
      BY DEF FailRun, Ended, Crash, TypeOK, RunType
    <2> QED
      BY <1>1, <1>2 DEF Covered
  <1> QED
    BY <1>3, <1>4

LEMMA StepCoverage ==
    ASSUME TraversalLimit <= Overlap, TypeOK, StampsInOrder, NoEditIsLost, Covered, [Next]_vars
    PROVE  NoEditIsLost' /\ Covered'
  <1>1. CASE UNCHANGED vars
    BY <1>1 DEF vars, NoEditIsLost, Covered, Unseen, WindowStart
  <1>2. CASE RunStep
    BY <1>2, StartCovers, FetchCovers, StageCovers, FinishCovers, StopCovers DEF RunStep
  <1> QED
    BY <1>1, <1>2, RowStepCoverage DEF Next

\* However edits, runs, failures and late finishers interleave, the next run asks
\* for every edit that is not staged, provided a run is not served pages for
\* longer than the overlap.
THEOREM EditsAreKept ==
    ASSUME TraversalLimit <= Overlap
    PROVE  Spec => []NoEditIsLost
  <1> DEFINE Inv == TypeOK /\ StampsInOrder /\ NoEditIsLost /\ Covered
  <1>1. Init => Inv
    BY InitType, InitStamps, InitCoverage
  <1>2. Inv /\ [Next]_vars => Inv'
    BY StepType, StepStamps, StepCoverage
  <1> QED
    BY <1>1, <1>2, PTL DEF Spec

-------------------------------------------------------------------------------
(* Versions.                                                               *)

\* Edit e with stamp t is what the server, the row or a page says of x.  (A row that a
\* webhook staged has no stamp.)
IsVersion(x, e, t) ==
    \/ remote[x].edit = e /\ remote[x].at = t
    \/ staged[x].at > 0 /\ staged[x].edit = e /\ staged[x].at = t
    \/ \E r \in Runs : \E item \in runs[r].page : item.id = x /\ item.edit = e /\ item.at = t

\* Later stamps belong to later edits, the server has the latest of both, and only it
\* determines the stamp of the latest edit.
Ordered(x) ==
    \A e, t \in Nat : IsVersion(x, e, t) =>
        /\ e <= remote[x].edit
        /\ e = remote[x].edit => t = remote[x].at
        /\ \A f, s \in Nat : IsVersion(x, f, s) /\ t < s => e <= f

RevisionsInOrder(x) == \A v \in staged[x].revisions : v.at \in Nat /\ v.at <= remote[x].at

VersionsInOrder == \A x \in Submissions : Ordered(x) /\ RevisionsInOrder(x)

LEMMA VersionsOf ==
    ASSUME TypeOK, StampsInOrder, NEW x \in Submissions, NEW e, NEW t, IsVersion(x, e, t)
    PROVE  e \in Nat /\ t \in Nat /\ t <= remote[x].at /\ t <= clock
  <1>1. /\ clock \in Nat /\ remote[x].at \in Nat /\ remote[x].edit \in Nat
        /\ staged[x].at \in Nat
        /\ \A r \in Runs : \A item \in runs[r].page : item.at \in Nat /\ item.edit \in Nat
    BY Stamps
  <1>2. staged[x].edit \in Nat
    BY SyncAssumption DEF TypeOK, RowType, Edit
  <1>3. /\ remote[x].at <= clock /\ staged[x].at <= remote[x].at
        /\ \A r \in Runs : \A item \in runs[r].page : item.id = x => item.at <= remote[x].at
    BY DEF StampsInOrder, RowStamps, RunStamps
  <1> QED BY <1>1, <1>2, <1>3 DEF IsVersion

\* A step that brings no version keeps the order.
LEMMA NoNewVersion ==
    ASSUME NEW x \in Submissions, Ordered(x), remote'[x] = remote[x],
           \A e, t \in Nat : IsVersion(x, e, t)' => IsVersion(x, e, t)
    PROVE  Ordered(x)'
  BY DEF Ordered

\* An item leaves a row with its own version or with that of the item.
LEMMA MergedVersion ==
    ASSUME NEW row \in RowType, NEW item \in Item, row.status = "absent" => row = NoRow
    PROVE  \/ Merged(row, item).edit = row.edit /\ Merged(row, item).at = row.at
           \/ Merged(row, item).edit = item.edit /\ Merged(row, item).at = item.at
  <1> DEFINE new == Merged(row, item)
             made == [NoRow EXCEPT !.status = "open", !.edit = item.edit, !.at = item.at]
  <1>1. row.at \in Nat /\ item.at \in Nat
    BY SyncAssumption DEF RowType, Item, Time
  <1>2. CASE row.status = "absent"
    <2>1. new = made
      BY <1>1, <1>2 DEF Merged, NoRow
    <2>2. made.edit = item.edit /\ made.at = item.at /\ made.revisions = {}
      BY DEF NoRow
    <2> QED BY <2>1, <2>2
  <1>3. CASE row.status # "absent" /\ (row.at = 0 \/ item.at < row.at)
    <2> new = row
      BY <1>1, <1>3 DEF Merged
    <2> QED OBVIOUS
  <1>4. CASE row.status # "absent" /\ row.at > 0 /\ item.at >= row.at
    <2>1. new \in {row, Flagged(row, item), Replaced(row, item)}
      BY <1>1, <1>4 DEF Merged
    <2>2. Flagged(row, item).edit = row.edit /\ Flagged(row, item).at = row.at
      BY DEF Flagged, RowType
    <2>3. Replaced(row, item).edit = item.edit /\ Replaced(row, item).at = item.at
      BY DEF Replaced, RowType
    <2> QED BY <2>1, <2>2, <2>3
  <1> QED BY <1>1, <1>2, <1>3, <1>4

\* The revisions of a row are those it had, its own version and that of the item.
LEMMA MergedRevisions ==
    ASSUME NEW row \in RowType, NEW item \in Item, row.status = "absent" => row = NoRow,
           NEW v \in Merged(row, item).revisions
    PROVE  v \in row.revisions \/ v.at = row.at \/ v.at = item.at
  <1> DEFINE new == Merged(row, item)
             made == [NoRow EXCEPT !.status = "open", !.edit = item.edit, !.at = item.at]
  <1>1. row.at \in Nat /\ item.at \in Nat
    BY SyncAssumption DEF RowType, Item, Time
  <1>2. CASE row.status = "absent"
    <2>1. new = made
      BY <1>1, <1>2 DEF Merged, NoRow
    <2>2. made.edit = item.edit /\ made.at = item.at /\ made.revisions = {}
      BY DEF NoRow
    <2> QED BY <2>1, <2>2
  <1>3. CASE row.status # "absent" /\ (row.at = 0 \/ item.at < row.at)
    <2> new = row
      BY <1>1, <1>3 DEF Merged
    <2> QED OBVIOUS
  <1>4. CASE row.status # "absent" /\ row.at > 0 /\ item.at >= row.at
    <2>1. new \in {row, Flagged(row, item), Replaced(row, item)}
      BY <1>1, <1>4 DEF Merged
    <2>2. Flagged(row, item).revisions = row.revisions \cup {[edit |-> item.edit, at |-> item.at]}
      BY DEF Flagged, RowType
    <2>3. Replaced(row, item).revisions = row.revisions \cup {[edit |-> row.edit, at |-> row.at]}
      BY DEF Replaced, RowType
    <2> QED BY <2>1, <2>2, <2>3
  <1> QED BY <1>1, <1>2, <1>3, <1>4

LEMMA InitVersions == Init => VersionsInOrder
  BY DEF Init, VersionsInOrder, Ordered, RevisionsInOrder, IsVersion, NoRow, NoRun

\* Steps outside the runs.
LEMMA RowStepVersions ==
    ASSUME TypeOK, StampsInOrder, VersionsInOrder, Tick \/ RowStep, NEW x \in Submissions
    PROVE  Ordered(x)' /\ RevisionsInOrder(x)'
  <1>1. /\ Ordered(x) /\ RevisionsInOrder(x) /\ runs' = runs
        /\ remote[x].at \in Nat /\ remote[x].edit \in Nat /\ clock \in Nat
        /\ remote[x].at <= clock
    BY Stamps DEF VersionsInOrder, StampsInOrder, RowStamps, Tick, RowStep, EditRemotely,
                  ReceiveWebhook, Approve, Import, ImportFails, RecordFailure
  <1>2. CASE EditRemotely(x)
    <2>1. remote'[x].edit = remote[x].edit + 1 /\ remote'[x].at = clock /\ staged' = staged
      BY <1>2 DEF EditRemotely, TypeOK
    <2>2. \A e, t \in Nat : IsVersion(x, e, t)' =>
              IsVersion(x, e, t) \/ (e = remote[x].edit + 1 /\ t = clock)
      BY <1>1, <2>1 DEF IsVersion
    <2>3. \A e, t \in Nat : IsVersion(x, e, t) => e <= remote[x].edit /\ t <= clock
      BY <1>1, VersionsOf DEF Ordered
    <2>4. Ordered(x)'
      BY <1>1, <2>1, <2>2, <2>3 DEF Ordered
    <2> QED BY <1>1, <2>1, <2>4 DEF RevisionsInOrder
  <1>3. CASE remote'[x] = remote[x] /\ (staged'[x] = staged[x] \/
                 (staged'[x].at \in {0, staged[x].at} /\ staged'[x].edit = staged[x].edit))
             /\ staged'[x].revisions \subseteq staged[x].revisions
    <2>1. \A e, t \in Nat : IsVersion(x, e, t)' => IsVersion(x, e, t)
      BY <1>1, <1>3 DEF IsVersion
    <2> QED BY <1>1, <1>3, <2>1, NoNewVersion DEF RevisionsInOrder
  <1>4. ASSUME NEW edit \in Edit, ReceiveWebhook(x, edit)
        PROVE  Ordered(x)' /\ RevisionsInOrder(x)'
    <2>1. remote' = remote /\ staged'[x].at = 0 /\ staged'[x].revisions = {}
      BY <1>4 DEF ReceiveWebhook, TypeOK, NoRow
    <2>2. \A e, t \in Nat : IsVersion(x, e, t)' => IsVersion(x, e, t)
      BY <1>1, <2>1 DEF IsVersion
    <2> QED BY <1>1, <2>1, <2>2, NoNewVersion DEF RevisionsInOrder
  <1>5. CASE Approve(x) \/ Import(x) \/ RecordFailure(x)
    <2> staged[x] \in RowType
      BY DEF TypeOK
    <2>1. /\ remote' = remote /\ staged'[x].at = staged[x].at /\ staged'[x].edit = staged[x].edit
          /\ staged'[x].revisions = staged[x].revisions
      BY <1>5 DEF Approve, Import, RecordFailure, TypeOK, RowType
    <2> QED BY <1>3, <2>1
  <1>6. \/ UNCHANGED <<remote[x], staged[x]>>
        \/ EditRemotely(x)
        \/ \E edit \in Edit : ReceiveWebhook(x, edit)
        \/ Approve(x) \/ Import(x) \/ RecordFailure(x)
    <2>1. CASE Tick
      BY <2>1 DEF Tick
    <2>2. ASSUME NEW y \in Submissions,
                 \/ EditRemotely(y)
                 \/ \E edit \in Edit : ReceiveWebhook(y, edit)
                 \/ Approve(y) \/ Import(y) \/ ImportFails(y) \/ RecordFailure(y),
                 y # x \/ ImportFails(y)
          PROVE  UNCHANGED <<remote[x], staged[x]>>
      BY <2>2 DEF EditRemotely, ReceiveWebhook, Approve, Import, ImportFails, RecordFailure, TypeOK
    <2> QED BY <2>1, <2>2 DEF RowStep
  <1> QED BY <1>2, <1>3, <1>4, <1>5, <1>6

LEMMA RunStepVersions ==
    ASSUME TypeOK, StampsInOrder, VersionsInOrder, RunStep, NEW x \in Submissions
    PROVE  Ordered(x)' /\ RevisionsInOrder(x)'
  <1>1. Ordered(x) /\ RevisionsInOrder(x)
    BY DEF VersionsInOrder
  <1> PICK r \in Runs :
        \/ \E full \in BOOLEAN : StartRun(r, full)
        \/ \E page \in SUBSET Submissions : FetchPage(r, page)
        \/ \E item \in runs[r].page : StageItem(r, item)
        \/ FinishRun(r)
        \/ \E status \in {"partial", "failed"} : FailRun(r, status)
        \/ Crash(r)
    BY DEF RunStep
  <1>2. remote' = remote
    BY DEF StartRun, FetchPage, StageItem, FinishRun, FailRun, Crash
  <1>3. ASSUME staged' = staged, \A q \in Runs : runs'[q].page \subseteq runs[q].page
        PROVE  Ordered(x)' /\ RevisionsInOrder(x)'
    <2>1. \A e, t \in Nat : IsVersion(x, e, t)' => IsVersion(x, e, t)
      BY <1>2, <1>3 DEF IsVersion
    <2> QED BY <1>1, <1>2, <1>3, <2>1, NoNewVersion DEF RevisionsInOrder
  <1>4. ASSUME NEW full \in BOOLEAN, StartRun(r, full) PROVE Ordered(x)' /\ RevisionsInOrder(x)'
    <2>1. staged' = staged /\ runs'[r].page = {}
      BY <1>4, StartedRuns
    <2>2. ASSUME NEW q \in Runs \ {r} PROVE runs'[q].page = runs[q].page
      <3>1. runs'[q] \in {runs[q], [runs[q] EXCEPT !.status = "abandoned"]}
        BY <1>4, StartedRuns
      <3> QED BY <3>1 DEF TypeOK, RunType
    <2> QED BY <1>3, <2>1, <2>2
  <1>5. ASSUME NEW page \in SUBSET Submissions, FetchPage(r, page)
        PROVE  Ordered(x)' /\ RevisionsInOrder(x)'
    <2>1. /\ staged' = staged
          /\ runs'[r].page = {[id |-> y, edit |-> remote[y].edit, at |-> remote[y].at] : y \in page}
          /\ \A q \in Runs \ {r} : runs'[q] = runs[q]
      BY <1>5 DEF FetchPage, TypeOK, RunType
    <2>2. ASSUME NEW item \in runs'[r].page, item.id = x
          PROVE  item.edit = remote[x].edit /\ item.at = remote[x].at
      <3> PICK y \in page : item = [id |-> y, edit |-> remote[y].edit, at |-> remote[y].at]
        BY <2>1
      <3> QED BY <2>2
    <2>3. \A e, t \in Nat : IsVersion(x, e, t)' => IsVersion(x, e, t)
      BY <1>2, <2>1, <2>2 DEF IsVersion
    <2> QED BY <1>1, <1>2, <2>1, <2>3, NoNewVersion DEF RevisionsInOrder
  <1>6. ASSUME NEW item \in runs[r].page, StageItem(r, item)
        PROVE  Ordered(x)' /\ RevisionsInOrder(x)'
    <2>1. /\ runs'[r].page \subseteq runs[r].page
          /\ \A q \in Runs \ {r} : runs'[q] = runs[q]
      BY <1>6 DEF StageItem, TypeOK, RunType
    <2>2. /\ item \in Item /\ item.at \in Nat
          /\ staged[x] \in RowType /\ staged[x].at \in Nat
          /\ staged[x].status = "absent" => staged[x] = NoRow
      BY Stamps DEF TypeOK, StampsInOrder, RowStamps
    <2>3. CASE item.id # x
      <3>1. staged'[x] = staged[x]
        BY <1>6, <2>3 DEF StageItem, TypeOK
      <3>2. \A e, t \in Nat : IsVersion(x, e, t)' => IsVersion(x, e, t)
        BY <1>2, <2>1, <3>1 DEF IsVersion
      <3> QED BY <1>1, <1>2, <3>1, <3>2, NoNewVersion DEF RevisionsInOrder
    <2>4. CASE item.id = x
      <3>1. staged'[x] = Merged(staged[x], item)
        BY <1>6, <2>4 DEF StageItem, TypeOK
      <3>2. \/ staged'[x].edit = staged[x].edit /\ staged'[x].at = staged[x].at
            \/ staged'[x].edit = item.edit /\ staged'[x].at = item.at
        BY <2>2, <3>1, MergedVersion
      <3>3. \A e, t \in Nat : IsVersion(x, e, t)' => IsVersion(x, e, t)
        BY <1>2, <2>1, <2>4, <3>2 DEF IsVersion
      <3>4. item.at <= remote[x].at /\ staged[x].at <= remote[x].at
        BY <2>4 DEF StampsInOrder, RunStamps, RowStamps
      <3>5. RevisionsInOrder(x)'
        BY <1>1, <1>2, <2>2, <3>1, <3>4, MergedRevisions DEF RevisionsInOrder
      <3> QED BY <1>1, <1>2, <3>3, <3>5, NoNewVersion
    <2> QED BY <2>3, <2>4
  <1>7. CASE FinishRun(r) \/ (\E status \in {"partial", "failed"} : FailRun(r, status)) \/ Crash(r)
    <2>1. ASSUME NEW status \in RunStatus, Ended(r, status), NEW q \in Runs
          PROVE  runs'[q].page \subseteq runs[q].page
      BY <2>1 DEF Ended, TypeOK, RunType
    <2>2. ASSUME Crash(r), NEW q \in Runs PROVE runs'[q].page \subseteq runs[q].page
      BY <2>2 DEF Crash, TypeOK, RunType
    <2>3. staged' = staged
      BY <1>7 DEF FinishRun, FailRun, Crash
    <2> QED BY <1>3, <1>7, <2>1, <2>2, <2>3 DEF FinishRun, FailRun, RunStatus
  <1> QED BY <1>4, <1>5, <1>6, <1>7

LEMMA StepVersions ==
    ASSUME TypeOK, StampsInOrder, VersionsInOrder, [Next]_vars
    PROVE  VersionsInOrder'
  <1>1. CASE UNCHANGED vars
    BY <1>1 DEF vars, VersionsInOrder, Ordered, RevisionsInOrder, IsVersion
  <1> QED BY <1>1, RowStepVersions, RunStepVersions DEF Next, VersionsInOrder

Versioned == TypeOK /\ StampsInOrder /\ VersionsInOrder

LEMMA AlwaysVersioned == Spec => []Versioned
  <1>1. Init => StampsInOrder /\ VersionsInOrder
    BY InitStamps, InitVersions
  <1>2. TypeOK /\ StampsInOrder /\ VersionsInOrder /\ [Next]_vars =>
            StampsInOrder' /\ VersionsInOrder'
    BY StepStamps, StepVersions
  <1> QED BY <1>1, <1>2, TypeCorrect, PTL DEF Spec, Versioned

\* A step leaves the version and the flag of a row alone, is its first delivery by the
\* webhook, or stages an item.
LEMMA RowsOfAStep ==
    ASSUME TypeOK, [Next]_vars, NEW x \in Submissions
    PROVE  \/ /\ staged'[x].edit = staged[x].edit /\ staged'[x].at = staged[x].at
              /\ staged'[x].pending = staged[x].pending
              /\ staged'[x].revisions = staged[x].revisions
           \/ staged[x].status = "absent" /\ staged'[x].revisions = {}
           \/ \E r \in Runs : \E item \in runs[r].page :
                  /\ StageItem(r, item) /\ item.id = x
                  /\ staged'[x] = Merged(staged[x], item)
  <1>1. CASE staged' = staged
    BY <1>1
  <1>2. ASSUME NEW y \in Submissions,
               \/ \E edit \in Edit : ReceiveWebhook(y, edit)
               \/ Approve(y) \/ Import(y) \/ RecordFailure(y),
               y # x
        PROVE  staged'[x] = staged[x]
    <2> y # x
      BY <1>2
    <2>1. ASSUME NEW edit \in Edit, ReceiveWebhook(y, edit) PROVE staged'[x] = staged[x]
      BY <2>1 DEF ReceiveWebhook, TypeOK, NoRow
    <2>2. CASE Approve(y) \/ Import(y) \/ RecordFailure(y)
      BY <1>2, <2>2 DEF Approve, Import, RecordFailure, TypeOK
    <2> QED BY <1>2, <2>1, <2>2
  <1>3. ASSUME NEW edit \in Edit, ReceiveWebhook(x, edit)
        PROVE  staged[x].status = "absent" /\ staged'[x].revisions = {}
    BY <1>3 DEF ReceiveWebhook, TypeOK, NoRow
  <1>4. CASE Approve(x) \/ Import(x) \/ RecordFailure(x)
    <2> staged[x] \in RowType
      BY DEF TypeOK
    <2> QED BY <1>4 DEF Approve, Import, RecordFailure, TypeOK, RowType
  <1>5. ASSUME NEW r \in Runs, NEW item \in runs[r].page, StageItem(r, item)
        PROVE  IF item.id = x THEN staged'[x] = Merged(staged[x], item)
                              ELSE staged'[x] = staged[x]
    BY <1>5 DEF StageItem, TypeOK
  <1>6. CASE UNCHANGED vars \/ Tick
    BY <1>1, <1>6 DEF vars, Tick
  <1>7. CASE RowStep
    <2> PICK y \in Submissions :
          \/ EditRemotely(y)
          \/ \E edit \in Edit : ReceiveWebhook(y, edit)
          \/ Approve(y) \/ Import(y) \/ ImportFails(y) \/ RecordFailure(y)
      BY <1>7 DEF RowStep
    <2>1. CASE EditRemotely(y) \/ ImportFails(y)
      BY <1>1, <2>1 DEF EditRemotely, ImportFails
    <2> QED BY <1>2, <1>3, <1>4, <2>1
  <1>8. CASE RunStep
    <2> PICK r \in Runs :
          \/ \E full \in BOOLEAN : StartRun(r, full)
          \/ \E page \in SUBSET Submissions : FetchPage(r, page)
          \/ \E item \in runs[r].page : StageItem(r, item)
          \/ FinishRun(r)
          \/ \E status \in {"partial", "failed"} : FailRun(r, status)
          \/ Crash(r)
      BY <1>8 DEF RunStep
    <2>1. CASE ~ \E item \in runs[r].page : StageItem(r, item)
      BY <1>1, <2>1 DEF StartRun, FetchPage, FinishRun, FailRun, Crash
    <2> QED BY <1>5, <2>1
  <1> QED BY <1>6, <1>7, <1>8 DEF Next

\* What an item does to a row: nothing, create it, flag it or replace it.
IsMerge(row, item, new) ==
    \/ new = row
    \/ row.status = "absent" /\ new.revisions = {}
    \/ /\ row.status # "absent" /\ row.at > 0 /\ item.at >= row.at
       /\ item.at > row.at => row.status \in {"approved", "imported"}
       /\ new.edit = row.edit /\ new.at = row.at
       /\ row.pending = TRUE \/ row.status \in {"approved", "imported"} => new.pending = TRUE
       /\ new.revisions = row.revisions \cup {[edit |-> item.edit, at |-> item.at]}
    \/ /\ row.status # "absent" /\ row.at > 0 /\ item.at > row.at
       /\ new.edit = item.edit /\ new.at = item.at
       /\ new.revisions = row.revisions \cup {[edit |-> row.edit, at |-> row.at]}

LEMMA MergedCases ==
    ASSUME NEW row \in RowType, NEW item \in Item, row.status = "absent" => row = NoRow
    PROVE  IsMerge(row, item, Merged(row, item))
  <1> DEFINE new == Merged(row, item)
             made == [NoRow EXCEPT !.status = "open", !.edit = item.edit, !.at = item.at]
  <1>1. row.at \in Nat /\ item.at \in Nat
    BY SyncAssumption DEF RowType, Item, Time
  <1>2. CASE row.status = "absent"
    <2>1. new = made
      BY <1>1, <1>2 DEF Merged, NoRow
    <2>2. made.revisions = {}
      BY DEF NoRow
    <2> QED BY <1>2, <2>1, <2>2 DEF IsMerge
  <1>3. CASE row.status # "absent" /\ (row.at = 0 \/ item.at < row.at)
    <2> new = row
      BY <1>1, <1>3 DEF Merged
    <2> QED BY DEF IsMerge
  <1>4. CASE row.status # "absent" /\ row.at > 0 /\ item.at >= row.at
    <2>1. \/ new = row
          \/ /\ new = Flagged(row, item)
             /\ item.at > row.at => row.status \in {"approved", "imported"}
          \/ new = Replaced(row, item) /\ item.at > row.at
      BY <1>1, <1>4 DEF Merged, Protected
    <2>2. /\ Flagged(row, item).edit = row.edit /\ Flagged(row, item).at = row.at
          /\ Flagged(row, item).revisions
                = row.revisions \cup {[edit |-> item.edit, at |-> item.at]}
      BY DEF Flagged, RowType
    <2>3. row.pending = TRUE \/ row.status \in {"approved", "imported"}
             => Flagged(row, item).pending = TRUE
      BY DEF Flagged, RowType, Protected
    <2>4. /\ Replaced(row, item).edit = item.edit /\ Replaced(row, item).at = item.at
          /\ Replaced(row, item).revisions
                = row.revisions \cup {[edit |-> row.edit, at |-> row.at]}
      BY DEF Replaced, RowType
    <2>5. CASE /\ new = Flagged(row, item)
               /\ item.at > row.at => row.status \in {"approved", "imported"}
      BY <1>4, <2>2, <2>3, <2>5 DEF IsMerge
    <2>6. CASE new = Replaced(row, item) /\ item.at > row.at
      BY <1>4, <2>4, <2>6 DEF IsMerge
    <2>7. CASE new = row
      BY ONLY <2>7 DEF IsMerge
    <2> QED BY <2>1, <2>5, <2>6, <2>7
  <1>5. \/ row.status = "absent"
        \/ row.status # "absent" /\ (row.at = 0 \/ item.at < row.at)
        \/ row.status # "absent" /\ row.at > 0 /\ item.at >= row.at
    BY ONLY <1>1
  <1> QED BY <1>2, <1>3, <1>4, <1>5, Zenon

\* The snapshot of a submission never becomes older, although pages fetched
\* earlier are staged later and two runs stage the same submission.
THEOREM SnapshotsAdvance == Spec => StagedNeverOlder
  <1>1. ASSUME Versioned, [Next]_vars
        PROVE  [\A x \in Submissions :
                   staged[x].at > 0 => staged'[x].at >= staged[x].at
                                       /\ staged'[x].edit >= staged[x].edit]_vars
    <2> SUFFICES ASSUME NEW x \in Submissions, staged[x].at > 0
                 PROVE  staged'[x].at >= staged[x].at /\ staged'[x].edit >= staged[x].edit
      OBVIOUS
    <2>1. /\ TypeOK /\ staged[x] \in RowType /\ staged[x].at \in Nat /\ staged[x].edit \in Nat
          /\ staged[x].status = "absent" => staged[x] = NoRow
          /\ Ordered(x)
      BY <1>1, Stamps, SyncAssumption
         DEF Versioned, StampsInOrder, RowStamps, VersionsInOrder, TypeOK, RowType, Edit
    <2>2. staged[x].status # "absent"
      BY <2>1 DEF NoRow
    <2>3. ASSUME NEW r \in Runs, NEW item \in runs[r].page, item.id = x,
                 staged'[x] = Merged(staged[x], item)
          PROVE  staged'[x].at >= staged[x].at /\ staged'[x].edit >= staged[x].edit
      <3>1. item \in Item /\ item.at \in Nat /\ item.edit \in Nat
        BY <2>1, Stamps
      <3>2. IsVersion(x, item.edit, item.at) /\ IsVersion(x, staged[x].edit, staged[x].at)
        BY <2>3 DEF IsVersion
      <3>3. item.at > staged[x].at => staged[x].edit <= item.edit
        BY <2>1, <3>1, <3>2 DEF Ordered
      <3>4. \/ staged'[x] = staged[x]
            \/ staged'[x].edit = staged[x].edit /\ staged'[x].at = staged[x].at
            \/ staged'[x].edit = item.edit /\ staged'[x].at = item.at /\ item.at > staged[x].at
        <4>1. IsMerge(staged[x], item, staged'[x])
          BY ONLY <2>1, <2>3, <3>1, MergedCases
        <4> QED BY ONLY <2>2, <4>1 DEF IsMerge
      <3> QED BY <2>1, <3>1, <3>3, <3>4
    <2> QED BY <1>1, <2>1, <2>2, <2>3, RowsOfAStep
  <1> QED BY <1>1, AlwaysVersioned, PTL DEF Spec, StagedNeverOlder

\* A step that leaves a newer revision unflagged stages an item that was out of date.
LEMMA HiddenByAnOldItem ==
    ASSUME Versioned, [Next]_vars, NEW x \in Submissions, Hidden(x)', ~Hidden(x)
    PROVE  \E r \in Runs : \E item \in runs[r].page :
               item.id = x /\ item.edit < remote[x].edit /\ StageItem(r, item)
  <1>1. /\ TypeOK /\ StampsInOrder /\ Ordered(x) /\ RevisionsInOrder(x)
        /\ staged[x] \in RowType /\ staged[x].at \in Nat /\ staged[x].edit \in Nat
        /\ staged[x].status = "absent" => staged[x] = NoRow
        /\ remote[x].at \in Nat /\ remote[x].edit \in Nat
    BY Stamps, SyncAssumption
       DEF Versioned, StampsInOrder, RowStamps, VersionsInOrder, TypeOK, RowType, Edit
  <1> PICK v \in staged'[x].revisions : v.at > staged'[x].at
    BY DEF Hidden
  <1>2. staged'[x].pending # TRUE
    BY DEF Hidden
  <1>3. \/ staged[x].pending = TRUE
        \/ \A w \in staged[x].revisions : ~(w.at > staged[x].at)
    BY <1>1 DEF Hidden, RowType
  <1>4. PICK r \in Runs : \E i \in runs[r].page :
            StageItem(r, i) /\ i.id = x /\ staged'[x] = Merged(staged[x], i)
    <2>1. ~ /\ staged'[x].at = staged[x].at /\ staged'[x].pending = staged[x].pending
            /\ staged'[x].revisions = staged[x].revisions
      BY <1>2, <1>3
    <2>2. staged'[x].revisions # {}
      OBVIOUS
    <2> QED BY <1>1, <2>1, <2>2, RowsOfAStep
  <1> PICK item \in runs[r].page :
            StageItem(r, item) /\ item.id = x /\ staged'[x] = Merged(staged[x], item)
    BY <1>4
  <1>5. item \in Item /\ item.at \in Nat /\ item.edit \in Nat
    BY <1>1, Stamps
  <1>6. /\ staged[x].at > 0 /\ item.at > staged[x].at
        /\ staged'[x].at = item.at
        /\ staged'[x].revisions
              = staged[x].revisions \cup {[edit |-> staged[x].edit, at |-> staged[x].at]}
    <2>1. CASE staged'[x] = staged[x]
      BY <1>2, <1>3, <2>1
    <2>2. CASE staged'[x].revisions = {}
      BY <2>2
    <2>3. CASE /\ item.at >= staged[x].at
               /\ item.at > staged[x].at => staged[x].status \in {"approved", "imported"}
               /\ staged'[x].at = staged[x].at
               /\ staged[x].pending = TRUE \/ staged[x].status \in {"approved", "imported"}
                     => staged'[x].pending = TRUE
               /\ staged'[x].revisions
                     = staged[x].revisions \cup {[edit |-> item.edit, at |-> item.at]}
      <3>1. staged[x].pending # TRUE /\ item.at = staged[x].at
        <4>1. staged[x].pending # TRUE /\ ~(item.at > staged[x].at)
          BY <1>2, <2>3, Zenon
        <4>2. item.at = staged[x].at
          BY <1>1, <1>5, <2>3, <4>1
        <4> QED BY <4>1, <4>2, Zenon
      <3>2. v # [edit |-> item.edit, at |-> item.at]
        BY <1>1, <2>3, <3>1
      <3>3. v \in staged[x].revisions
        BY <2>3, <3>2
      <3> QED BY <1>3, <2>3, <3>1, <3>3
    <2>4. CASE /\ staged[x].at > 0 /\ item.at > staged[x].at
               /\ staged'[x].at = item.at
               /\ staged'[x].revisions
                     = staged[x].revisions \cup {[edit |-> staged[x].edit, at |-> staged[x].at]}
      BY <2>4
    <2>5. IsMerge(staged[x], item, staged'[x])
      BY ONLY <1>1, <1>4, <1>5, MergedCases, staged'[x] = Merged(staged[x], item)
    <2> QED BY <2>1, <2>2, <2>3, <2>4, <2>5, Zenon DEF IsMerge
  <1>7. v \in staged[x].revisions /\ v.at > item.at
    BY <1>1, <1>5, <1>6
  <1>8. v.at \in Nat /\ v.at <= remote[x].at
    BY <1>1, <1>7 DEF RevisionsInOrder
  <1>9. IsVersion(x, item.edit, item.at)
    BY <1>4 DEF IsVersion
  <1>10. item.edit <= remote[x].edit /\ (item.edit = remote[x].edit => item.at = remote[x].at)
    BY <1>1, <1>5, <1>9 DEF Ordered
  <1>11. item.edit < remote[x].edit
    BY <1>1, <1>5, <1>7, <1>8, <1>10
  <1> QED BY <1>4, <1>11

\* A revision that was replaced on the server is never current without a flag, whatever
\* approvals, imports, failures and runs come in between, except by an item that is out
\* of date itself.
THEOREM ReplacedIsFlagged == Spec => NewerStaysFlagged
  <1>1. ASSUME Versioned, [Next]_vars
        PROVE  [\A x \in Submissions : Hidden(x)' =>
                   \/ Hidden(x)
                   \/ \E r \in Runs : \E item \in runs[r].page :
                          item.id = x /\ item.edit < remote[x].edit /\ StageItem(r, item)]_vars
    BY <1>1, HiddenByAnOldItem
  <1> QED BY <1>1, AlwaysVersioned, PTL DEF Spec, NewerStaysFlagged

===============================================================================
