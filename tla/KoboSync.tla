------------------------------- MODULE KoboSync -------------------------------
(***************************************************************************)
(* Incremental synchronisation of one KoboToolbox asset                    *)
(* (apps/integrations/kobo/services/incremental.py).                       *)
(*                                                                         *)
(* A run takes the lease of the asset, asks the remote server for every    *)
(* submission edited since the asset's watermark minus an overlap, stages  *)
(* the pages it is served item by item, and moves the watermark when it    *)
(* succeeds.  Meanwhile submissions are edited, webhooks deliver them one  *)
(* by one, staged rows are approved and imported, workers crash, and a     *)
(* lease that expires is taken over by another run.                        *)
(*                                                                         *)
(* A payload is the number of the edit that made it.  Time advances in     *)
(* ticks; two edits may carry the same timestamp.  Time 0 stands for NULL. *)
(* Left out: items without _uuid or _last_edited, which are only counted,  *)
(* and what normalisation and routing derive from a payload.               *)
(***************************************************************************)
EXTENDS Integers, FiniteSets

CONSTANTS Submissions,    \* _uuid values
          Runs,           \* KoboSyncRun ids
          None,           \* SQL NULL
          Overlap,        \* KOBO_SYNC_OVERLAP_SECONDS
          Lease,          \* KOBO_SYNC_LEASE_SECONDS
          PageSize,       \* the most items the server puts on a page
          TraversalLimit, \* how long after its start a run is still served pages
          MaxClock,       \* bound of the clock
          MaxEdits        \* bound of the edits of one submission

ASSUME SyncAssumption ==
    /\ Overlap \in Nat
    /\ Lease \in Nat \ {0}
    /\ PageSize \in Nat \ {0}
    /\ TraversalLimit \in Nat
    /\ MaxClock \in Nat \ {0}
    /\ MaxEdits \in Nat
    /\ None \notin Runs

VARIABLES
    clock,
    remote,    \* the submissions on the server: latest edit and its _last_edited
    staged,    \* KoboSubmission rows with their remote revisions
    failing,   \* rows an import of which was rolled back and not yet recorded
    asset,     \* the KoboAsset row: watermark and lease
    runs       \* KoboSyncRun rows, and what the worker of a run holds in memory

vars == <<clock, remote, staged, failing, asset, runs>>

-------------------------------------------------------------------------------

Time == 0..MaxClock
Edit == 0..MaxEdits

\* An item of a page: submission, payload, _last_edited.
Item     == [id : Submissions, edit : Edit, at : Time]
Revision == [edit : Edit, at : Time]

RowStatus == {"absent", "open", "approved", "imported"}
RunStatus == {"absent", "running", "succeeded", "partial", "failed", "abandoned"}

RowType ==
    [status   : RowStatus,
     edit     : Edit,               \* raw_payload
     at       : Time,               \* remote_updated_at
     pending  : BOOLEAN,            \* remote_update_pending
     recorded : BOOLEAN,            \* a KoboImportRecord exists
     revisions : SUBSET Revision]

AssetType == [watermark : Time, lease : Runs \cup {None}, expires : Nat]

RunType ==
    [status    : RunStatus,
     working   : BOOLEAN,           \* its worker is still executing it
     started   : Time,
     since     : Time,              \* start of the query window
     due       : SUBSET Submissions,
     page      : SUBSET Item,       \* served, not yet staged
     candidate : Time]

NoRow == [status |-> "absent", edit |-> 0, at |-> 0, pending |-> FALSE,
          recorded |-> FALSE, revisions |-> {}]
NoRun == [status |-> "absent", working |-> FALSE, started |-> 0, since |-> 0,
          due |-> {}, page |-> {}, candidate |-> 0]

Init ==
    /\ clock  = 1
    /\ remote = [x \in Submissions |-> [edit |-> 0, at |-> 0]]
    /\ staged = [x \in Submissions |-> NoRow]
    /\ failing = {}
    /\ asset  = [watermark |-> 0, lease |-> None, expires |-> 0]
    /\ runs   = [r \in Runs |-> NoRun]

Later(s, t) == IF s > t THEN s ELSE t

-------------------------------------------------------------------------------
(* The world outside: time, the remote server, the webhook, the operators. *)

Tick ==
    /\ clock < MaxClock
    /\ clock' = clock + 1
    /\ UNCHANGED <<remote, staged, failing, asset, runs>>

\* A submission is sent in or edited on the server.
EditRemotely(x) ==
    /\ remote[x].edit < MaxEdits
    /\ remote' = [remote EXCEPT ![x] = [edit |-> @.edit + 1, at |-> clock]]
    /\ UNCHANGED <<clock, staged, failing, asset, runs>>

\* receive_webhook_submission, of the webhook and of the reconcile command: the
\* first delivery stages the payload, without a timestamp; repeated ones are
\* ignored.  A delivery may be late, so any edit can arrive.
ReceiveWebhook(x, edit) ==
    /\ edit \in 1..remote[x].edit
    /\ staged[x].status = "absent"
    /\ staged' = [staged EXCEPT ![x] = [NoRow EXCEPT !.status = "open", !.edit = edit]]
    /\ UNCHANGED <<clock, remote, failing, asset, runs>>

\* _auto_approve_for_import
Approve(x) ==
    /\ staged[x].status = "open"
    /\ ~staged[x].pending
    /\ staged' = [staged EXCEPT ![x].status = "approved"]
    /\ UNCHANGED <<clock, remote, failing, asset, runs>>

\* import_kobo_submission
Import(x) ==
    /\ staged[x].status = "approved"
    /\ ~staged[x].pending
    /\ ~staged[x].recorded
    /\ staged' = [staged EXCEPT ![x].status = "imported", ![x].recorded = TRUE]
    /\ UNCHANGED <<clock, remote, failing, asset, runs>>

\* The transaction of an import is rolled back: a blocker, or an exception of a
\* handler.  One of an imported row returns the result of the first.
ImportFails(x) ==
    /\ staged[x].status \notin {"absent", "imported"}
    /\ failing' = failing \cup {x}
    /\ UNCHANGED <<clock, remote, staged, asset, runs>>

\* _record_blocked_import and _record_failed_import: a second transaction makes
\* the row PROCESSING_FAILED, whatever it has become in between.
RecordFailure(x) ==
    /\ x \in failing
    /\ staged' = [staged EXCEPT ![x].status = "open"]
    /\ failing' = failing \ {x}
    /\ UNCHANGED <<clock, remote, asset, runs>>

-------------------------------------------------------------------------------
(* A run.                                                                  *)

LeaseIsFree == asset.lease = None \/ asset.expires <= clock

\* Mutant of WindowStart: the overlap is forgotten.
WindowStartNoOverlap(watermark) == watermark

\* build_incremental_submission_params; a window from 0 is no window at all.
WindowStart(watermark) == IF watermark > Overlap THEN watermark - Overlap ELSE 0

InWindow(since) == {x \in Submissions : remote[x].edit > 0 /\ remote[x].at >= since}

\* _start_run: takes the lease when it is free; a run whose lease has expired is
\* marked ABANDONED, whether or not its worker is still at it.
StartRun(r, full) ==
    LET since == IF full THEN 0 ELSE WindowStart(asset.watermark) IN
    /\ runs[r].status = "absent"
    /\ LeaseIsFree
    /\ runs' = [q \in Runs |->
                   CASE q = r ->
                            [status |-> "running", working |-> TRUE, started |-> clock,
                             since |-> since, due |-> InWindow(since), page |-> {},
                             candidate |-> asset.watermark]
                     [] q = asset.lease /\ runs[q].status = "running" ->
                            [runs[q] EXCEPT !.status = "abandoned"]
                     [] OTHER -> runs[q]]
    /\ asset' = [asset EXCEPT !.lease = r, !.expires = clock + Lease]
    /\ UNCHANGED <<clock, remote, staged, failing>>

\* The server answers with the next page: submissions of the window as they are
\* now.  The order is the server's: one that entered the window after the
\* traversal began may be served or not, and one may be served twice.
FetchPage(r, page) ==
    /\ runs[r].working
    /\ runs[r].page = {}
    /\ clock <= runs[r].started + TraversalLimit
    /\ page # {}
    /\ Cardinality(page) <= PageSize
    /\ page \subseteq InWindow(runs[r].since)
    /\ runs' = [runs EXCEPT ![r].page = {[id |-> x, edit |-> remote[x].edit, at |-> remote[x].at] : x \in page},
                            ![r].due = @ \ page]
    /\ UNCHANGED <<clock, remote, staged, failing, asset>>

Protected(row) == row.status \in {"approved", "imported"}

Replaced(row, item) ==
    [row EXCEPT !.edit = item.edit, !.at = item.at, !.status = "open", !.pending = FALSE,
                !.revisions = @ \cup {[edit |-> row.edit, at |-> row.at]}]

Flagged(row, item) ==
    [row EXCEPT !.pending = @ \/ Protected(row),
                !.revisions = @ \cup {[edit |-> item.edit, at |-> item.at]}]

\* Mutants of Merged: timestamps are not compared; a newer revision of a
\* protected row is stored without a flag.
MergedLastWriteWins(row, item) ==
    CASE row.status = "absent" ->
             [NoRow EXCEPT !.status = "open", !.edit = item.edit, !.at = item.at]
      [] row.status # "absent" /\ row.at = 0 -> row
      [] row.at > 0 /\ Protected(row) -> Flagged(row, item)
      [] OTHER -> Replaced(row, item)

MergedUnflagged(row, item) ==
    CASE row.status = "absent" ->
             [NoRow EXCEPT !.status = "open", !.edit = item.edit, !.at = item.at]
      [] row.status # "absent" /\ (row.at = 0 \/ item.at < row.at) -> row
      [] row.at > 0 /\ item.at = row.at ->
             IF item.edit = row.edit THEN row ELSE Flagged(row, item)
      [] row.at > 0 /\ item.at > row.at /\ Protected(row) ->
             [row EXCEPT !.revisions = @ \cup {[edit |-> item.edit, at |-> item.at]}]
      [] OTHER -> Replaced(row, item)

\* What an item does to the row of its submission, under the lock of the row.
Merged(row, item) ==
    CASE row.status = "absent" ->
             [NoRow EXCEPT !.status = "open", !.edit = item.edit, !.at = item.at]
      [] row.status # "absent" /\ (row.at = 0 \/ item.at < row.at) -> row
      [] row.at > 0 /\ item.at = row.at ->
             IF item.edit = row.edit THEN row
             ELSE Flagged(row, item)
      [] row.at > 0 /\ item.at > row.at ->
             IF Protected(row) THEN Flagged(row, item) ELSE Replaced(row, item)

\* One item of the page is staged, in a transaction of its own.
StageItem(r, item) ==
    /\ runs[r].working
    /\ item \in runs[r].page
    /\ staged' = [staged EXCEPT ![item.id] = Merged(@, item)]
    /\ runs' = [runs EXCEPT ![r].page = @ \ {item},
                            ![r].candidate = Later(@, item.at)]
    /\ UNCHANGED <<clock, remote, failing, asset>>

\* The row of the run is finished and its lease, if it still has it, given back.
Ended(r, status) ==
    runs' = [runs EXCEPT ![r] = [@ EXCEPT !.status = status, !.working = FALSE,
                                          !.due = {}, !.page = {}]]

\* Mutant of Released: the lease is given back whoever has it by now.
ReleasedAnyway(r) == [asset EXCEPT !.lease = None, !.expires = 0]

Released(r) ==
    IF asset.lease = r THEN [asset EXCEPT !.lease = None, !.expires = 0] ELSE asset

\* Mutant of FinishRun: the watermark is the run's own candidate.
FinishRunOwnCandidate(r) ==
    /\ runs[r].working
    /\ runs[r].due = {} /\ runs[r].page = {}
    /\ asset' = [Released(r) EXCEPT !.watermark = runs[r].candidate]
    /\ Ended(r, "succeeded")
    /\ UNCHANGED <<clock, remote, staged, failing>>

\* _finish_run after a complete traversal.  Neither the lease nor the status of
\* the run is looked at.
FinishRun(r) ==
    /\ runs[r].working
    /\ runs[r].due = {} /\ runs[r].page = {}
    /\ asset' = [Released(r) EXCEPT !.watermark = Later(@, runs[r].candidate)]
    /\ Ended(r, "succeeded")
    /\ UNCHANGED <<clock, remote, staged, failing>>

\* _finish_run after an error of the server, the page limit (PARTIAL), or any
\* other exception (FAILED).
FailRun(r, status) ==
    /\ runs[r].working
    /\ asset' = Released(r)
    /\ Ended(r, status)
    /\ UNCHANGED <<clock, remote, staged, failing>>

\* The worker dies; its row stays RUNNING and its lease stays taken.
Crash(r) ==
    /\ runs[r].working
    /\ runs' = [runs EXCEPT ![r] = [@ EXCEPT !.working = FALSE, !.due = {}, !.page = {}]]
    /\ UNCHANGED <<clock, remote, staged, failing, asset>>

-------------------------------------------------------------------------------

RunStep ==
    \E r \in Runs :
        \/ \E full \in BOOLEAN : StartRun(r, full)
        \/ \E page \in SUBSET Submissions : FetchPage(r, page)
        \/ \E item \in runs[r].page : StageItem(r, item)
        \/ FinishRun(r)
        \/ \E status \in {"partial", "failed"} : FailRun(r, status)
        \/ Crash(r)

RowStep ==
    \E x \in Submissions :
        \/ EditRemotely(x)
        \/ \E edit \in Edit : ReceiveWebhook(x, edit)
        \/ Approve(x)
        \/ Import(x)
        \/ ImportFails(x)
        \/ RecordFailure(x)

Next == Tick \/ RowStep \/ RunStep

Spec == Init /\ [][Next]_vars

-------------------------------------------------------------------------------
(* Invariants.                                                             *)

\* The rows of the tables have the types their models declare.
TypeOK ==
    /\ clock  \in Time
    /\ remote \in [Submissions -> [edit : Edit, at : Time]]
    /\ staged \in [Submissions -> RowType]
    /\ failing \subseteq Submissions
    /\ asset  \in AssetType
    /\ runs   \in [Runs -> RunType]

\* There is one lease, and its owner is the one run whose row says RUNNING,
\* however many workers are still busy: a take-over abandons the predecessor,
\* and a late finisher does not give away its successor's lease.
RunningOwnsLease ==
    /\ \A r \in Runs : runs[r].status = "running" => asset.lease = r
    /\ asset.lease # None => runs[asset.lease].status = "running"

Known(row) == {row.edit} \cup {v.edit : v \in row.revisions}

\* The latest edit of x is not in the staging table, which could take it.
Unseen(x) ==
    /\ remote[x].edit \notin Known(staged[x])
    /\ staged[x].status = "absent" \/ staged[x].at > 0

\* An edit the staging table has not seen is still in the window of the next
\* incremental run, although edits go on while a run is under way, runs
\* overlap, fail and crash, and pages show submissions at different moments.
\* (For rows that carry a timestamp, when no traversal lasts longer than the
\* overlap.)
NoEditIsLost ==
    \A x \in Submissions : Unseen(x) => remote[x].at >= WindowStart(asset.watermark)

\* A newer revision of x is stored, and nothing says so.
Hidden(x) ==
    /\ \E v \in staged[x].revisions : v.at > staged[x].at
    /\ ~staged[x].pending

-------------------------------------------------------------------------------
(* What a step may never do.                                               *)

\* The watermark never moves back, although runs overlap and finish late.
WatermarkNeverRegresses == [][asset'.watermark >= asset.watermark]_vars

\* The snapshot of a submission never becomes older, although pages fetched
\* earlier are staged later and two runs stage the same submission.
StagedNeverOlder ==
    [][\A x \in Submissions :
           staged[x].at > 0 => staged'[x].at >= staged[x].at
                               /\ staged'[x].edit >= staged[x].edit]_vars

\* A revision that was replaced on the server is never current without a flag:
\* a newer one that cannot be staged "queda privada, marcada como pendiente y
\* requiere inspeccion" (KOBO.md:157), through approvals, imports, failed
\* imports and later runs.  (Except by an item that is out of date itself, which
\* a run that has outlived its lease may stage.)
NewerStaysFlagged ==
    [][\A x \in Submissions : Hidden(x)' =>
           \/ Hidden(x)
           \/ \E r \in Runs : \E item \in runs[r].page :
                  item.id = x /\ item.edit < remote[x].edit /\ StageItem(r, item)]_vars

==============================================================================
