# SIGEDON: a TLA+ model of the donation system

SIGEDON is a Django application with which an institution takes in donations,
splits them over social projects, authorises and registers what the projects
spend, publishes part of it, and imports field surveys from KoboToolbox. The
modules here model what its code does to the rows of its database and to its
files when several web workers, management commands, operators and remote systems
act at once. Every definition is translated from the source; `PROJECT.json` maps
each one to the lines it stands for.

Contents: 1 the system, 2 the plan, 3 the modules, 4 the runs, 5 bounds and
symmetry, 6 fairness, 7 where code and documents disagree, 8 the proofs, 9 what
is left out.

## 1. The system

Everything runs in web workers (gunicorn processes) and management commands over
one PostgreSQL database, under READ COMMITTED, with private files in an object
store and a remote KoboToolbox server. Nothing is shared between processes but
the database and the object store; each process has a cache of its own. A service
is a Python function that opens one transaction, takes row locks with
`select_for_update`, checks, saves, writes audit rows and commits; a view may read
rows before it calls the service.

### 1.1 Money: donations, projects, allocations, requests, expenses

Source: `apps/operations/services.py`, `expense_request_services.py`,
`models.py`, `finance.py`, `selectors.py`, `forms.py`, `views/`.

| table | life cycle | keeps |
|---|---|---|
| `Donation` | REGISTERED → RECEIVED → ANNULLED | amount, donor |
| `Project` | ACTIVE → CLOSED | `is_public` |
| `FundAllocation` | ACTIVE → FINISHED or ANNULLED | amount, donation, project |
| `ExpenseRequest` | PENDING_DECISION → APPROVED_RESERVED → FULFILLED, or DENIED, WITHDRAWN, ANNULLED | requested and reserved amount, allocation, expense |
| `Expense` | REGISTERED → ANNULLED | amount, allocation |
| `ExpenseRequestEvent` | append-only | what happened to a request's reservation |

The tables form a chain: an allocation takes a part of a donation for a project,
a request reserves a part of an allocation, an expense spends it. Every balance
is computed from the rows (nothing stores a balance), so every service that
writes a row of the chain depends on rows other services write. Services create,
resize, move, approve, fulfil, annul, finish; delete views remove rows
physically, held back only by `on_delete=PROTECT`.

Correct means: no donation is over-allocated and no allocation over-executed;
what one request has reserved nobody else can take; money in use comes from a
received donation; a terminal row stays as it is; a closed project is quiet; a
fulfilled request and its expense stay tied together; the event trail agrees
with the rows; no foreign key dangles; transactions end; the pages offer what the
services accept; the lists, the project pages, the dashboard and the portal show
amounts that add up to each other.

Hard: five services write the same balance through three different checks; the
rows a service has to lock are found by unlocked reads that may be stale when the
locks are granted; the project form saves a whole row it loaded earlier; the
delete view of expenses checks before its transaction starts; balances are
clamped at zero and then compared; forms and templates repeat the services'
conditions in other words; five places sum the same rows through filters of their own.

### 1.2 Kobo: synchronisation, pipeline, routing, attachments

Source: `apps/integrations/kobo/`. A `KoboAsset` is a remote form. Its
submissions reach the staging table `KoboSubmission` through a webhook and
through incremental synchronisation runs (`services/incremental.py`: a lease on
the asset, a watermark, an overlap window). A staged submission is normalised
(`processors.py`), routed to a project through territorial identities
(`services/territorial_routing.py`) and imported into operational rows
(`services/automation.py`, `services/importers.py`, `import_handlers.py`), while
administrators change mappings, conflicts and identities
(`services/territorial_administration.py`). Its attachments are claimed with a
token and a time limit, downloaded, stored and confirmed (`attachments.py`).

Correct means: no remote edit is lost, an imported submission is never
overwritten or imported twice, what was imported lies in the project of its
identity, only the run that owns the lease moves the asset on, a downloaded
attachment is final.

Hard: the lease outlives neither a slow run nor a crash; pages are fetched while
submissions are edited; webhook, run, command and operator process the same row;
normalisation saves a row it read without a lock; the routing of one submission
writes others; a claim expires while its worker is busy.

### 1.3 Project updates (advances), milestones

Source: `services.py` 630–1000 and 2676–3180, `views/project_updates.py`,
`milestones.py`. An advance is drafted, published, reviewed, decided on and
remediated, with files; milestones have consecutive positions. Correct means: one
review per advance, one decision per review, one remediation per decision, each on
the document before it; what was published or submitted stays; positions stay
1..n; the audit tells when a project reaches 100 %. Hard: concurrent creation of
what must be unique, an advance locked without its project, an upload that is two
transactions with the object written between them, reordering through a temporary
position.

### 1.4 Files and backups

`services.py` 81–110 and 1680–1760, `expense_request_services.py` 1080–1260: an
object is written before the transaction that refers to it, and removed again when
that transaction fails. `deploy/backups/*.sh` dump the database, copy the files,
publish, verify, prune and restore sets. Correct means: no row without its object,
each expense keeps a document, a published set restores, pruning keeps enough good
sets. Hard: a process may die between any two steps; two deletions each see the
other's document; a script is killed half-way.

### 1.5 Accounts, roles, portal, codes

* `user_access_services.py`, `role_services.py`, `roles.py`: accounts, one functional
  role each, forced password change, sessions. Hard: two superusers, the panel and
  the Django admin replace memberships they have read; a service decides with
  permissions cached on arrival.
* `apps/public_portal`: pages are cached for one or two minutes in each process, and
  the cache of the process that changed something is cleared on commit. Correct
  means a page does not outlive what it shows for long.
* `models.py` 33–70: operational codes (`DON-000001`) come from a sequence row that is
  locked until the creation commits; `operational_code_sequences.py` inspects codes and
  sequence without locks, and a sequence reported unsafe is never repaired by the code.
  Correct means numbers without repetition or holes and no false alarm. Hard: creations
  commit between the two reads; rows with a code are deleted.
* The audit log is append-only and nothing but the milestone crossing reads it back.

### 1.6 How the parts interact

Requests and expenses are the only writers that span four tables. The status of
the project gates allocations, requests, advances and milestones. The Kobo import
writes projects' profiles and microprojects, never money. The portal reads
published projects and money and is invalidated by the services that change them.
Private files are written by expenses, requests, advances and Kobo attachments,
and backups copy them all. Roles gate every page.

## 2. The plan

| module | models | composed with | state |
|---|---|---|---|
| `MoneySums` | sums over sets of rows | used by `Ledger`, `Custody` | done |
| `Ledger` | the five tables and every service on them, one action per transaction | | done |
| `LedgerLocks` | the same services lock by lock | extends `Ledger`; each commit is an action of it | done |
| `Custody`, `LedgerCustody` | abstract: money given, handed out, set aside, spent | implemented by `Ledger` | done |
| `LedgerPages` | buttons and forms of the money pages | extends `Ledger` and `PanelRoles` | done |
| `LedgerFigures` | the amounts that lists, dashboard and portal show | extends `Ledger` | done |
| `KoboSync` | runs, lease, watermark and overlap of an asset, webhooks, imports | | done |
| `KoboPipeline` | normalise, route, import, retry, administration | | done |
| `ProjectStatus`, `Advances`, `Milestones`, `ProjectWork` | advances and files lock by lock; milestones; both on one project | `ProjectWork` composes them | done |
| `ObjectStore`, `UploadedFiles`, `KoboFiles`, `Backups` | objects and rows; uploads; claims; backup sets | `Backups` composes them | done |
| `PanelRoles`, `Accounts`, `ExpenseDesk` | permissions; accounts and sessions; expense requests from the panel | `ExpenseDesk` extends `Accounts` | done |
| `OperationalCodes` | sequence, creations and inspection | | done |
| `PublicPortal` | rendering, caching, clearing, expiry | | done |
| `...Proofs` | the theorems, one module per component or two | section 8 | done |
| `TerritorialLocks` | the row locks of routing and administration | `KoboPipeline` | to do |

Every safety and action property that a passing run checks is proved for all values of
the constants; only the liveness property is left to TLC (end of section 8).

## 3. The modules

Most modules keep one variable per table, and one action per transaction or per
step in which another process can come between; the action names are the functions'
names. A row that the sequence has not handed out is `"absent"`, one physically
removed is `"deleted"`, and an id is never reused.

### MoneySums

`Money` is `0..MaxMoney`, cents without the decimal point. `Total(rows, amountOf)`,
the `SUM(amount)` over the rows a filter selects, is the number of units of money
in those rows: a cardinality, so that it needs no recursion and the prover can
reason about it.

### Ledger

The five money tables, `trail` for the reservation events, `deleting` for delete
views between their check and their deletion, `edit` for project forms between
theirs. Each action is one service: its guard, an operator named `May...`, is what the
service checks under its locks, and its effect is everything the service saves. The
guards have names of their own because pages, forms and the lock-by-lock transactions
are compared with them. Two operations are more than one action because the code reads
and decides outside the transaction that writes: `ConfirmExpenseDeletion` / `DeleteExpense`, and `CheckProjectEdit` /
`LoadProjectEdit` / `SaveProjectEdit` / `EndProjectEdit`.

Balances are operators (`Assigned`, `Executed`, `Reserved`, `Unreserved`,
`Available`). `Consolidates` is the equation approve, fulfil and annul test after
they saved their rows: the clamped balance must have moved by exactly the amount
of the decision.

Abstracted: texts, dates, codes, the identity of the requester, the donor, the
currency (only USD is admitted), the audit log, and request events that concern no
reservation. Files are in `UploadedFiles`, permissions in `ExpenseDesk`.

### LedgerLocks

Takes sixteen services of `Ledger` apart. A worker's transaction is `Begin`
(with the first, unlocked, reference read), `Refer` (the second one: the donations
behind those allocations), `Lock` (the next row lock of `LockPlan`, if nobody else
holds it), `Pass` or `Reject` (the checks, made when every lock is held),
`Commit` (the action of `Ledger`, atomically, and all locks released) or `Abort`
(rollback for any reason at any time). `LockPlan` is a set of locks, each with its
place in the order: the stage of its statement, the key the statement orders its rows
by, and the table when the statement joins several. `NextLock` is the first one not
held. The plan is re-evaluated at each lock: a locked row is read as last committed,
exactly as `FOR UPDATE` does it under READ COMMITTED, and rows referred to by an
unlocked read stay the ones that were read. `update_expense_request` joins the
allocation its request has by then to the lock of the request, so after a stale read it
asks for an allocation last (`RequestEditLocks`); it fails afterwards, because it did not
lock that allocation first. `Guard` is the guard of the `Ledger` action, `Checks` what the
service checks. They are the same for most services. For approve, fulfil and annul
`Checks` is spelled out, because those check the allocation they locked, not necessarily
the one the request points at by then.

Left in `Ledger` only: the views that lock nothing (delete views, project form),
publish/unpublish, receiving and creating donations (one row, one lock), and
denial, whose plan is that of withdrawal.

### Custody and LedgerCustody

`Custody` knows funds and envelopes: what was given, what of it was handed out, and
in each envelope what is set aside and spent. Its nine actions are the only ways
money may move. `LedgerCustody` maps a donation to a fund (it gives nothing once it
is annulled or deleted) and an allocation to an envelope (it holds nothing once it is
annulled or deleted, but what is reserved on it stays set aside). `KeepsCustody` says
that `Ledger` implements `Custody` under that mapping: approval is `SetAside`,
fulfilment `SpendAside`, a corrected expense `Correct`, a replaced allocation
`Fill`, and everything that moves no money a stutter.

### LedgerPages

Beside the steps of `Ledger`, what the detail pages offer each role (flags of the
views, conditions of the templates: `Can...`) and what the forms let through
(`...FormAccepts`, `...FormOffers`), written from `forms.py`, `selectors.py` and the
templates and not from the services. `OffersWork` compares the two.

### LedgerFigures

The amounts that are shown, each with the filter of the query behind it: the balances of
the lists of donations and allocations and of a project's page (`selectors.py`), the
totals, the unassigned money and the bars of the dashboard (`services.py`), what a
request's page calls released, and the sums of the public portal, whose queries are its
own. A bar is `Tenths` of a percent, rounded half up and cut at 100 %. `FiguresAgree`
relates them: the dashboard counts the rows the projects count, a project's balance is
the sum of its allocations' balances, a share never exceeds its whole, the portal shows
of a project what the panel shows, an annulment releases all it had reserved.
`ProjectsAddUp` is about projects `InBalance`: where an allocation was made smaller than
executed plus reserved the clamped balances of the allocations add up to more than that
of the project, and what is reserved under an annulled allocation is subtracted from a
project that no longer counts the allocation. Amounts are whole numbers of cents, so no
rounding comes in but that of the bars.

### KoboSync

One asset. `remote` is the KoboToolbox server (the latest edit of each submission
and its `_last_edited`), `staged` the `KoboSubmission` rows with their stored
revisions, `asset` the watermark and the lease, `runs` the `KoboSyncRun` rows
together with what the worker of a run holds in memory (its window, the page it
is staging, its candidate watermark), `failing` the imports between their rollback
and the second transaction that records it.

A run is `StartRun` (one transaction: take a free lease, mark the previous run
ABANDONED if its lease expired), then `FetchPage` and one `StageItem` per item (one
transaction each), then `FinishRun` or `FailRun`, or `Crash` at any time. The worker
of an abandoned run goes on: `working` and `status` are separate. `Merged` is the
decision table of an item against its row: created, untimed, stale, repeated,
conflicting, protected, replaced. Beside the runs: edits, late and repeated
webhooks, approvals, imports.

Abstracted: a payload is the number of its edit, so equal hashes are equal numbers;
time is counted in ticks and two edits may fall in one; NULL is 0; the statuses
that a run may overwrite are `"open"`, and normalisation and routing, which move a
row between them, are in `KoboPipeline`; items without `_uuid` or timestamp are
only counted by the code and left out. The server is assumed to serve, in some
order, every submission that was in the window when the run started, each as it is
when its page is made; anything else in the window it may serve or not.

### KoboPipeline

The rows of a few submissions (Ficha 1 masters, Ficha 10 and 11 dependents), what was
materialised from each with its import record, the territorial identities, the
mapping of the pastoral zones, the open conflicts, and what each worker is doing. A
payload is what routing reads in it: code, zone, and whether it is valid. A worker
(webhook, run, command, operator of the hub) holds the object it read: `StageItem`,
`Select` or `Converge` starts it, `Process` saves the columns of that object over
whatever the row is by now, `BeginRoute` and one of the routing actions are one
transaction that reads mapping or identity unlocked and then writes, then `Approve`
and `Import`, or `ImportFails` and `RecordFailure` in a transaction of its own. Retry
and reopening rest on a row read without a lock. The administration services are
atomic actions with their guards (`HasIncompatibleHistory`, `ZoneInUse`).

### ProjectStatus, Advances, Milestones, ProjectWork

`Advances` is written in the style of `LedgerLocks`: a request is a sequence of
transactions, each with a `LockPlan` (`select_for_update` with `select_related` locks
the whole chain from remediation to project), `Check`, `Commit`. The plan is a set; rows
are locked by `Rank`, and of several rows of one rank, the files PostgreSQL deletes
with an advance in one statement, any may be next. An upload is two
transactions, `CommitGate` and `CommitUpload`, with the object written in between
(`Stored`), and one form uploads several files in turn. The delete view checks before
its transaction (`Begin`, `Confirm`). `Milestones` has one action per service, since
each of them locks the project and then all its milestones; its moves replay the
three saves against the unique constraint. `ProjectWork` composes the two: a
milestone service waits for the row of the project.

### ObjectStore, UploadedFiles, KoboFiles, Backups

`ObjectStore` is a set of names; a save takes a free one, a compensation may fail for
any of its objects. `UploadedFiles` has the uploads and deletions of supporting
documents and request attachments step by step, `KoboFiles` the claim, download,
storage and confirmation of a Kobo attachment; any process may raise or die between two
steps. `Backups` composes them with the scheduled runner, the retention and the drill.
It takes from the operator what the scripts ask for: writers are stopped during a
backup.

### PanelRoles, Accounts, ExpenseDesk

`PanelRoles` is the table of permissions `sync_operation_roles` writes. `Accounts`
has the superusers' calls (create, update, deactivate, reset, and the user form of the
Django admin), each from the unlocked load over the update of the row, which locks
it, to the replacement of the groups; and the owners' logins, logouts and password
changes. `ExpenseDesk` adds the pages of expense requests: `Opens...` is the
permission and row check of each view, `...Buttons` what the detail page shows,
`Queue` the dashboard, and a posted page is served later with the permissions cached
when it arrived.

### PublicPortal

Processes with a cache each, threads that read the project and store the rendered
page later, changes of the project that clear one process's cache after the commit,
restarts, and a clock.

### OperationalCodes

The codes of one kind of row, its sequence, the reservation each transaction holds and
what the inspection has read. `Reserve` takes the row lock, `CommitCreation` commits row
and sequence together, `RollBackCreation` undoes both. `CreateWithWord` is the explicit
code of seed data, which bypasses the sequence. `InspectCodes` and `InspectSequence` are
the two statements of the inspection. A code is its form and its number: codes typed
before migration 0007 without padding (`PRJ-7`) are read as numbers by the inspection
(`\d+`) and not by the migration (`\d{6}`), so a sound sequence can be reported as
lagging for one of them; `AlarmsAreReal` says that this is the only way.

### The MC modules

Each `MC` module extends what it checks by a symmetry set and by named bounds
(section 5). All constants are given in the `.cfg` files. `MCPanel` also chooses one
of four scenes in the initial state, so that one run asks about accounts, expense
requests, portal and codes without multiplying their states.

## 4. The runs

| run | asks | answer |
|---|---|---|
| `ledger_reservations` | two requests and two expenses compete for one allocation, or one of each moves between two: can too much be spent, the trail disagree with the rows, a page offer what is refused, or money move in a way `Custody` does not know? | no: `AllocationNotOverExecuted`, `TrailMatchesRows`, `FulfilmentIsOneToOne`, `ReservationsStayCovered`, `OffersWork`, `KeepsCustody` hold |
| `ledger_transfers` | two donations, projects and allocations, two project forms: can moves, annulments and deletions over-allocate, leave money without a received donation, unsettle what was terminal, or make two pages show amounts that contradict each other? | no: `DonationNotOverAllocated`, `FundedByReceivedDonation`, `TerminalAllocationIsSettled`, `FiguresAgree`, `ClosedProjectIsQuiet` hold |
| `ledger_reopened` | is closing irreversible? | no, see 7.1 |
| `locks_calls` | any two of sixteen calls lock by lock: is what a service checked still true when it commits, can a decision move money on the locks of an allocation the request has left, can calls wait for each other in a circle, does every call end? | `ChecksStillHold`, so every commit is a step of `Ledger`; `DecidedWhereChecked`, thanks to `Consolidates` alone; `DeadlocksAreOutOfOrder` and `EveryCallEnds`: calls deadlock only if one of them is `OutOfOrder` (see 7.5), and every call ends unless such a one is in flight |
| `kobo_sync` | two runs that overlap, fail, crash and finish late, edits, webhooks, imports: can a row become older, the watermark move back, the lease have two owners, an edit be lost, a newer revision go unnoticed? | no: `StagedNeverOlder`, `WatermarkNeverRegresses`, `RunningOwnsLease`, `NoEditIsLost`, `NewerStaysFlagged` hold |
| `kobo_pipeline` | two workers and the administrators: can something be materialised twice, outside the project of its identity, or IMPORTED be said of what was not? | no: `ImportedOnce`, `MaterialFollowsIdentity`, `ImportedHasRecord` hold |
| `kobo_reassigned` | does resolving a conflict leave imported submissions alone? | no, see 7.2 |
| `project_work` | two workers on an advance, its files and its project, or on the milestones: can a document lose the one it stands on, a published one change, a closed project move, a position collide, the audit of 100 % be wrong? | no: `DocumentsStandOnEachOther`, `PublishedStaysAsItWas`, `ClosedProjectIsFrozen`, `MilestonesStayMovable`, `LastCrossingIsTrue` hold; a circle of waiting requests has one of the pairs `DeadlocksAreKnown` lists |
| `advance_deleted` | is a published advance safe from deletion? | no, see 7.3 |
| `stored_files` | uploads, corrections, deletions and claims that raise or die anywhere; backups that fail, are killed, decay and are pruned: can a row lose its object, an expense its last document, a set be unusable? | only the attachments whose object is deleted before the commit (`RowsHaveTheirObject` says which); `ExpenseKeepsDocument`, `DownloadsAreFinal`, `BackupsRestore`, `RetentionKeepsGood` hold |
| `restore_drill` | does a drill that succeeds mean consistent data? | no, see 7.4 |
| `panel` | two superusers and an owner on one account; requests posted while roles change; the portal's caches; creations beside the inspection of their codes: can an account have two roles, an action be done outside every role, evidence change after the decision, a hidden page live on, a sound sequence raise an alarm? | no: `OneFunctionalRole`, `ActsWithinRole`, `EvidenceFrozen`, `OfferedWorkOpens`, `HiddenAgesOut`, `AlarmsAreReal` hold |

Four runs are expected to fail and check one property each; each states what a
document or a comment says.

## 5. Bounds and symmetry

* `MaxMoney` 1 or 2 in the runs of the ledger. Each guard on money compares sums; one
  unit already tells "fits" from "does not", two tell a part from the whole (a partial
  fulfilment, a resize below what is reserved, two requests that compete). The proofs
  do not depend on it.
* One or two rows per table, three in `locks_calls`. Two of a kind are needed for
  moves; the third row is the one a concurrent call creates. `MCDeepOrWide`: two
  requests and expenses on one allocation, or one of each over two allocations of two
  donations. `MCMovesOrSpends`: two projects to move allocations between, or one with both
  a request and an expense (which with two donations and allocations are in
  `ledger_reservations`). `MCEditsAreCheap`: while a project form is in flight the ledger is
  as small as the form's hazard allows (one donation of one unit, one allocation, no
  expense; with two forms, one project); `OffersWork` is checked without forms.
* `locks_calls`: two workers, `MaxCalls` 2: a check is invalidated, and a circle
  closed, by one competitor. It starts from `Prepared`, a ledger the services can
  build in a dozen calls, with a pending and a reserving request on one allocation and
  a legacy expense on another. Row ids are ordered there (rows are locked in the order
  of their keys), and no symmetry is used because the run checks liveness. Two moves that
  cross each other's projects (`Crossed`) need a third call that has put the allocations in
  another order than their projects; that they deadlock was seen on a larger instance, and
  `DeadlocksOutOfOrder` is about all of them.
* `kobo_sync`: two runs, since a hazard is one run against its successor. `MCOneOrMany`:
  three edits of one submission let a row, a page in flight and a newer revision
  differ; two submissions, edited twice at most and not imported, are there for one to
  move the watermark past the other. `MaxClock` 4 ticks: a run, the expiry of its
  lease, its successor.
* `TraversalLimit <= Overlap`: pages are served for at most one overlap. The code does
  not enforce it (300 seconds against a lease of 900; a traversal is bounded in pages
  and attempts, not in time), and `NoEditIsLost` is false without it: an edit that is
  not served while a later one moves the watermark by more than the overlap stays
  unseen until a full run. It is an assumption about operation, not about code.
* `kobo_pipeline`: `MCOneOrTwo`, one submission corrected at will, or two that dispute
  an identity and keep their payloads; the two zones are mapped to different projects.
* `project_work`: `MCOneAfterTheOther`, milestones change only while there is no advance
  (they meet only in the project's row); `MCFewFiles`, two files before the review and
  one after, a second project until something is published.
* `stored_files`: `MCOneKind`, files of one kind at a time (they share nothing but the
  store); `MCFewFiles`, backups of one file with one process beside; `MCFewSets`,
  `MaxSets` 3 and `KeepCount` 2: the smallest case in which pruning deletes a set and
  one of those it counts is broken.
* `panel`: `MCFewCalls`, one account with two calls in progress in the first scene, one
  change of a role or access in the second; `MaxClock` 5 in the third, with a page
  kept for 2 ticks and rendered in 1; in the fourth, three numbers, two creators and one
  legacy code of each form, in any combination.
* Ids, workers, processes and tabs are interchangeable in safety runs and form
  symmetry sets.
* `CHECK_DEADLOCK FALSE`: ids, calls and ticks are finite, so every run of the bounded
  system ends. Deadlock between transactions is `DeadlocksAreOutOfOrder` and `EveryCallEnds`
  in `LedgerLocks` and `DeadlocksAreKnown` in `Advances`.

## 6. Fairness

`FairLocksSpec` assumes weak fairness of `Advance(w)` for each worker: a worker
whose next statement can run does run it, because the operating system schedules
the process and PostgreSQL wakes the holder of a lock it grants. No fairness is
put on `Begin`, because nobody has to call a service, nor on `Abort`: a call must
end without PostgreSQL's deadlock detector or a timeout. Weak fairness is enough
for `Lock` because calls are bounded; PostgreSQL's lock queue is first come first
served, so a waiter is not overtaken for ever either.

No other run states liveness. Nothing in the code schedules a synchronisation
("no existe scheduling automático"), a retry, a processing of pending rows or a
backup, so nothing there has to happen; and the pages of the portal that must expire
are stated with a clock, as safety (`HiddenAgesOut`).

## 7. Where code and documents disagree

The first four are runs whose property states what a document or a comment says and
which the model violates.

1. `ledger_reopened`, `views/projects.py:367`: the edit form loads the project, and
   `form.save()` writes every column of what it loaded. If the project is finished
   in between, the save makes it ACTIVE again. `docs/DOMAIN_MODEL.md:89`: closing
   is terminal and irreversible. Two forms can also close a project again over
   allocations made while the first had reopened it, which is why
   `ClosedProjectIsQuiet` excepts the save of a form.
2. `kobo_reassigned`, `territorial_administration.py:421`: accepting a conflict moves
   its submission without looking at its status. A submission that was corrected to
   another code and imported there is moved away from the project of its import
   record. `territorial_administration.py:305`: without reassigning imported
   submissions.
3. `advance_deleted`, `views/project_updates.py:568`: the delete view checks an
   unlocked row and its transaction does not check again, so an advance that is
   published in between is deleted with its files. `views/project_updates.py:570`:
   blocks final advances on GET and POST.
4. `restore_drill`, `run_restore_drill.sh:178`: the verification chain runs on the left
   of `||`, where errexit is off, so only its last command counts.
   `run_restore_drill.sh:11`: exit non-zero on any failed stage.

The following have no run of their own. Where a definition is named it is in the
module, with its comment, and TLC shows the violation when it is added to a `.cfg`.

Money:

5. `services.py:1383`: `update_fund_allocation` locks the allocation before its
   donations, everybody else after, so the two deadlock. So can a call whose unlocked read
   is outdated when it locks (`Outdated`): it may ask for rows out of order. And so can
   `update_expense_request` (`Crossed`): the statement of `_lock_allocations_by_ids` that
   locks the two allocations of a request that moves locks the projects joined to them in
   the order of the allocations; it crosses another move, or an expense correction, that
   locks those projects the other way round. `docs/FLOWS.md:355`, `docs/SECURITY.md:171`: a
   canonical lock order; `expense_request_services.py:264`: projects by ascending pk. There
   is no other way (`DeadlocksAreOutOfOrder`).
6. `ApprovedRequestsCanBeAnnulled`, `expense_request_services.py:1009`: when an
   allocation was made smaller than executed plus reserved, its clamped balance is
   zero and annulling a request does not move it by the reserved amount, so the
   equation fails and the request cannot be annulled. `docs/FLOWS.md:386`: annulling an
   approved request releases the whole reservation.
7. `AnnulledExpensesAreKept`, `views/expenses.py:226`: the delete view checks the status
   of the expense before its transaction; an expense annulled in between is deleted.
   `services.py:655`: annulled expenses cannot be deleted.
8. Pages and forms (`LedgerPages`): the expense form compares with the clamped balance,
   so an expense of an over-committed allocation cannot be saved unchanged, and it
   offers other allocations for the expense of a request, which the service refuses
   to move; the request form hides allocations without a balance, which the service
   would accept. The dashboard's governance queues do not look at whether the project
   is closed, and the page of a review offers to decide on a closed project, which the
   service refuses.

Kobo:

9. `incremental.py:170`: a run that lost its lease and was marked ABANDONED still
   finishes SUCCEEDED and moves the watermark. `incremental.py:186`,
   `docs/KOBO.md:208`: only a complete owned run advances state.
10. `importers.py:239`: the failure of an import is recorded in a second transaction
    that sets PROCESSING_FAILED over an import that succeeded in between; the row is
    unprotected again and the next run replaces its payload. `importers.py:238`:
    without changing lifecycle; `docs/KOBO.md:155`: an imported submission is never
    overwritten.
11. `incremental.py:223`: a row staged by a webhook has no remote timestamp, and a run
    skips every item of such a row. `automation.py:63` tells operators to correct the
    data in KoboToolbox and synchronise again.
12. `UsedZoneKeepsItsMapping`, `territorial_routing.py:88`: routing reads the mapping
    without a lock, so a zone can lose its mapping while its first identity is
    created. `docs/KOBO.md:833`: a zone in use cannot lose its mapping.
13. `NormalizedIsCurrent`, `processors.py:151`: a worker saves what it normalised from
    an object read earlier over a payload that was replaced in between.
14. `PendingMeansUnknown`: a dependent that looks for its identity while the master
    creates it stays pending although the identity exists, until somebody reconciles.
15. `should_show_retry_attachments` (`submission_presentation.py:412`) offers no retry
    for the PROCESSING rows of dead workers; `attachment_status_label` (`:399`) names a
    status that does not exist.

Advances and files:

16. `ensure_project_update_is_editable` (`services.py:614`) reads the project without a
    lock. Two deletions of one remediation attachment are both audited. The deadlocks
    are those of `DeadlocksAreKnown` (`DeadlockPairs`): submission of a remediation against
    the other services of it, deletion of a file against its publicity or its advance's
    deletion, two deletions of one advance. Any larger circle has one of these pairs in it.
17. `delete_expense_request_attachment` removes the object inside its transaction
    (`expense_request_services.py:1174` says atomically); a rollback leaves a row
    without object, and later backups of version 2 fail on it. The deletion of a
    supporting document keeps its object for ever.
18. Backups: the loser of the lock overwrites the marker of the last result; a kill
    leaves temporary directories and a stale marker; `KEEP_COUNT` may be 0;
    `restore_private_objects.py` takes a size of 0 for a missing one.

Accounts and portal:

19. The password form writes the whole user row and so can reactivate an account that
    was deactivated meanwhile (`docs/FLOWS.md:58` says access ends at once), as does the
    user form of the admin with an old password hash; `update_institutional_user` decides
    audit and session invalidation from the row loaded at the start of the request, and
    a session stored by a login that races with the invalidation survives, refused until
    the account is active again.
20. A committee member may approve terms that were edited after their page was rendered,
    and a user moved from operator to committee may decide on their own request.
21. The cache of the portal is cleared in one process only. Publicity of an
    advance or its files and the deletion of allocations and expenses schedule no
    clearing.

9, 10 need a lease that expires while its worker is busy: a run has 900 seconds, and
its traversal is bounded in pages and attempts, not in time. 11 needs no overlap.

## 8. The proofs

Every theorem holds for every value of the constants that satisfies the named
assumptions of its module. None of them is inductive as it stands; the strengthening
is named in each case.

### Ledger (`MaxMoneyAssumption`: a positive natural number; `LedgerAssumption`: finite tables, `None` is no id)

| theorem | property | module |
|---|---|---|
| `TypeCorrect` | `TypeOK` (no run checks it, the proof does) | `LedgerProofs` |
| `ReferencesCorrect` | `ReferencesExist` (likewise) | `LedgerProofs` |
| `NoDonationOverAllocated` | `DonationNotOverAllocated` | `LedgerProofs` |
| `NoAllocationOverExecuted` | `AllocationNotOverExecuted` | `LedgerProofs` |
| `AlwaysFunded` | `FundedByReceivedDonation` | `LedgerProofs` |
| `TerminalStaysSettled` | `TerminalAllocationIsSettled` | `LedgerProofs` |
| `FulfilmentStaysOneToOne` | `FulfilmentIsOneToOne` | `LedgerProofs` |
| `TrailTellsTheStory` | `TrailMatchesRows` | `LedgerProofs` |
| `TerminalStays` | `TerminalIsForever` (no run checks it, the proof does) | `LedgerProofs` |
| `ClosedStaysQuiet` | `ClosedProjectIsQuiet` | `LedgerProofs` |
| `CoverIsKept` | `ReservationsStayCovered` | `LedgerViewsProofs` |
| `LedgerKeepsCustody` | `KeepsCustody`: `Ledger` implements `Custody` | `LedgerViewsProofs` |
| `OffersAgreeInActive`, `OffersAgree` | `OffersWork` (see 9 below) | `LedgerViewsProofs` |
| `FiguresAlwaysAgree` | `FiguresAgree` | `LedgerViewsProofs` |

The argument is in layers, each inductive relative to those below.

1. `TypeOK` is inductive by itself. One lemma per family of actions
   (`DonationType`, `ProjectType`, ...), joined in `StepType`.
2. `ReferencesExist` needs `TypeOK`. Its two halves, `RowReferences` (foreign keys
   of rows) and `EditReferences` (project forms in flight), support each other: the
   save of a form keeps the project's row in existence only because the form holds
   a real row. `StepKeepsProjects` says that no step makes a project disappear.
3. `DonationNotOverAllocated` needs both: without references, an allocation that
   is created could be counted under a donation that is not there yet.
   `AssignsNoMore` covers all steps in which a donation's set of counted allocations
   does not grow, `AssignsOneMore` the creation or update of one.
4. `AllocationNotOverExecuted` likewise (`ExecutesNoMore`, `ExecutesOneMore`,
   `SavedExpenseFits`). The one hard step is fulfilment, whose guard bounds the
   expense by executed plus other reservations: `ReservationCounts` shows that the
   request's own reservation is part of the total it is taken from.
5. `FundedByReceivedDonation` needs the references: the deletion of a donation spares
   the ones some row points at. `TerminalAllocationIsSettled` is proved row by row
   (`SettledRows`), which turns emptiness of sets into statements about single rows.
6. `FulfilmentIsOneToOne` and `TrailMatchesRows` come from one invariant, `LifeInv`: for
   each request (`LifeOf`) what its status says about its expense, its amounts and its
   trail, and `OneRequestEach`. The strengthening is that a pending request asks for
   money and an approved one reserves some (otherwise its annulment would release
   nothing and write no event), and that the trail is empty before the approval.
   `RequestLife` and `ExpenseLife` cover the steps of one request and of one expense.
7. `KeepsCustody` is the refinement: every step of `Ledger` is a step of `Custody` or
   stutters, under the mapping of `LedgerCustody`, given the invariants above (`Kept`).
   A balance is the share of one row plus that of the others (`Shares`), so the step of
   one request or expense moves the balance by what its share moves (`ReservedMoves`,
   `ExecutedMoves`); what Custody calls left in an envelope is the unclamped balance of
   the services for an allocation that holds money (`FreeIsUnreserved`). Each service is
   then matched with one step: approval with `SetAside`, annulment with `PutBack`,
   fulfilment with `SpendAside`, correction with `Correct`. Correction and refund of an
   expense on a terminal allocation need `SettledRows`: an annulled allocation, which
   holds nothing any more, has no registered expense.
8. The action properties follow step by step from the same invariants.
   `ReservationsStayCovered` compares shares: a step either makes no share of the
   allocation heavier (`CoveredWhenLighter`) or fits into what was left
   (`CoveredWhenLeft`). `ClosedProjectIsQuiet` needs `ClosedIsPrivate`: a project that
   is closed, in its row or in what a form has loaded of it, is private, so that saving
   a stale form does not publish it.
9. `OffersWork` follows from `Kept` and `WorksInActive`: an active allocation lies in an
   active project. Only the save of a stale project form can break that (7.1), so
   `OffersAgree` assumes that there are no project forms, and `OffersAgreeInActive`, with
   forms, says the pages are right wherever `WorksInActive` is. Each page and each form has a
   lemma (`DonationPages` to `FulfillmentForms`).
10. `FiguresAgree` also assumes that there are finitely many donations
   (`FiguresAssumption`). Two finite sets whose classes have the same size have the same
   size (`SameByClass`: bijections between the classes are glued together). Hence, without
   induction, if each row takes its amount from its owner, what the owners have is what all
   rows take and what is left to the owners (`TotalsByOwner`). It is applied to expenses
   under their allocations (`SpentFits`), reservations under theirs (`FigureProjects`) and
   allocations under their donations (`AssignedFits`); `CountedRows` says where the rows
   that a filter counts belong, and is why the filters agree. `ReleaseRecorded` is the
   one new invariant: only an approval reserves, and an annulled request with a reservation
   has the event of its release.


The lemmas about sums (at the head of `LedgerProofs`: type, monotonicity, congruence, adding,
replacing, splitting off one element) are about `Total` for any finite set and any
amounts. They follow from the library's theorems on cardinalities of finite sets
(subset, disjoint union, product, interval), because `Total` is a cardinality; no
induction is needed.

### LedgerLocks (`LocksAssumption`: ids are numbers; `FixtureAssumption`: the rows of `Prepared` exist; `LedgerLocksProofs`)

| theorem | property |
|---|---|
| `CommitsAreLedgerSteps` | from any ledger that keeps its invariants: those, both properties below, and every step a step of `Ledger` or none |
| `ChecksHoldUntilCommit` | `ChecksStillHold`, of `LocksSpec` |
| `DecisionsAreWhereChecked` | `DecidedWhereChecked`, of `LocksSpec` |
| `DeadlocksOutOfOrder` | `DeadlocksAreOutOfOrder`, of `LocksSpec` |

They hold for any number of workers, calls and rows. `Secured` names, for each call, the
rows whose locks keep its checks true: fewer than it locks. The argument has three parts.

* What a commit does to others. `Frame(held, fresh)` says that rows in `held` are changed by
  nobody else and that the balances behind them get no worse: nothing more is assigned from
  a held donation, nothing is taken from a held allocation, no allocation comes to a held
  project or becomes active in it. `CommitFrame`: a call that holds what is `Secured`
  for it keeps the frame of everything apart from that.
* What a check needs. `PassedStays`: a check that passed on secured rows is still true after
  a step within the frame of those rows, whatever the call.
* What the locks give. `Missing` being empty means that the plan is held, and the plan
  contains what is secured (`PlanSecures`); for a decision that needs the allocation of its
  request, and the allocation that was locked is the one read before the locks. They are
  the same because the equation of approve, fulfil and annul cannot hold for another one
  (`DecisionsConsolidate`): what the request asked for or reserved is not zero, and is no part
  of the balance there.

`LocksInv` joins them: the invariants of `Ledger`, that no two workers hold or insert the
same row (`Exclusive`), and that who has passed its checks holds what is secured
(`ChecksKept`). Since every commit is a step of `Ledger` whose guard holds, what
`LedgerProofs` shows of each step holds of the services run side by side; the views that
take no lock are left out here, as in the run.

`DeadlocksOutOfOrder` is about circles of any number of calls. `PlanEntries` lists what a
plan can ask for, and at which place; `First` says of the next lock that everything placed
before it is held (`NextLockIsFirst`). `OrderInv` says what that leaves in what a waiting call
holds (`Ordered`): donations by pk and before anything else, of the allocations of a
request each with the rows joined to it before the next, the expense before the projects, those
before the requests. It has to say so because a plan depends on the tables and changes while
its owner waits: `FrameOrdered` shows that no commit of another worker undoes the order.
What that needs beyond the frame is that no open request comes under a project that is held
(`KeepsOpen`), or `finish_project` could be asked for a request below one it holds; it
holds because who creates or moves a request holds the project of its allocation
(`HoldsProject`). `WaitAscends`: a call that is not `OutOfOrder` waits for a row `After` those
it holds, by the rank of the table (donation, expense, project, request), then by pk.
Allocations have no rank, because a donation is locked again with its allocation; but two
calls that hold, or are to lock next, the same allocation would both hold its donation
(`DonationIsHeld`, `NobodyAwaitsAllocations`). In a circle every awaited row would then have a
later one, and a finite set has a last row (`SomeRowIsLast`).

### KoboSync (`SyncAssumption`: positive lease and page size, `None` is no run; `KoboSyncProofs`)

| theorem | property |
|---|---|
| `TypeCorrect` | `TypeOK` |
| `LeaseHasOneOwner` | `RunningOwnsLease` |
| `WatermarkMonotone` | `WatermarkNeverRegresses` |
| `EditsAreKept` | `NoEditIsLost`, assuming `TraversalLimit <= Overlap` |
| `SnapshotsAdvance` | `StagedNeverOlder` |
| `ReplacedIsFlagged` | `NewerStaysFlagged` |

`RunningOwnsLease` is inductive given `TypeOK`. `NoEditIsLost` is not: a run that
finishes moves the watermark, and that what it has not staged is recent follows
only from what it did before. `StampsInOrder` says that nothing is stamped in the
future, that items are no newer than their submission, and that a run's candidate
is at most the old watermark or the end of its traversal; `Covered` says that for a
run under way every unseen submission is still to be served, or on its page, or
edited after the start. `StartCovers` to `StopCovers` prove one kind of step each;
in `FinishCovers` an unseen edit was made after the start, the candidate is at most
one `TraversalLimit` later, and the overlap reaches back over that.

`StagedNeverOlder` and `NewerStaysFlagged` need an order of versions: the edit and stamp
that the server, a stamped row or an item on a page has of a submission is a version of
it (`IsVersion`), and `VersionsInOrder` says that a later stamp belongs to a later edit,
that the server has the latest of both, and that no stored revision is later than the
server's. A step touches a row by a first delivery, by an item, or not at all
(`RowsOfAStep`), and an item creates, flags or replaces it (`MergedCases`). If replacing
a row leaves a newer revision unflagged, the item was older than that revision and so
older than the server's edit (`HiddenByAnOldItem`).

### Accounts and ExpenseDesk (`GivenAreRoles`; `PanelProofs`)

| theorem | property |
|---|---|
| `OneRole` | `OneFunctionalRole`, of `AccountsSpec` |
| `EvidenceStays` | `EvidenceFrozen`, of `PanelSpec` |
| `RolesAreRespected` | `ActsWithinRole`, of `PanelSpec` |
| `OffersAreHonest` | `OfferedWorkOpens`, of `PanelSpec` |

`AccountsSafe` is the inductive invariant of the accounts. A superusers' call replaces
the memberships it has read, and the ones it has read must still be all there are:
`LockHolds` says that while a call is between the update of the row and its commit
nobody else is, and that what it read are the groups of the account. `CallsHaveAccounts`
says that a call works on an account that exists.

`PanelSpec` puts the desks beside all of `AccountsNext` (the run `panel` lets one change
of a role or of access happen). `DeskInOrder` is what it keeps: a page that waits was
posted with a role for it (`AdmittedHaveRole`), and a request that is not there has no
files. Which role has a permission is `RoleOfVerb`, computed from the sets of
`PanelRoles`. `AnsweredRow` says what each service makes of the one row it changes; both
action properties are read off it. `OfferedWorkOpens` follows from the definitions of
buttons and pages (`ButtonsAreAdmitted`) and from two facts about the permissions: who
may remove a file sees it, and who decides on requests sees them (`SeesWhatItUses`).

### PublicPortal (`TimesAreNatural`; `PanelProofs`)

`HiddenPagesEnd` is `HiddenAgesOut`. The invariant bounds each page by where it is: a
rendering that shows the project began before it was hidden or it is still public, a
cached page expires at most one timeout after its rendering ended.

### OperationalCodes (`LegacyAreCodes`; `PanelProofs`)

`NumbersStayInOrder` is `NumbersInOrder` (no run checks it: a code is never given twice, none
is lost), `NoFalseAlarms` is `AlarmsAreReal`. The
invariant `CodesInv` says that the sequence is ahead of every code of six digits, that
one transaction at a time holds a reservation, and that the number reserved is the next
one.


### KoboPipeline (`PipelineAssumption`; `NullAssumption`: `None` is no material; `KoboPipelineProofs`)

| theorem | property |
|---|---|
| `PipelineSafe` | the invariant `PipelineInv` |
| `MaterialStaysWithIdentity` | `MaterialFollowsIdentity` |
| `ImportedMeansRecorded` | `ImportedHasRecord` |
| `MaterialisedOnce` | `ImportedOnce` |

Nothing here is locked between two transactions, so the invariant says what remains true
of what a worker read. `WorkersKnowTheirRow`: the row it works on exists, what it will
normalise is a payload, and a master that found a mapping has a zone. `RowsHavePayload`: a
row that exists has a payload. `MaterialHasIdentity` makes `MaterialFollowsIdentity`
inductive: the identity under which something was materialised never becomes unknown
again, so its project cannot be chosen a second time. A step is described by three
statements, `RowStep`, `TaskStep` and `HistoryStep` (together `Kept`), each proved per
action; `PartsMakeInv` puts them together. In `RowStep` a row becomes IMPORTED only if its
material exists, whatever stale copy or late failure is written over it.

### Milestones, Advances, ProjectWork (`MilestonesAssumption`: finitely many milestones, `None` is no project; `AdvancesAssumption`: `None` is no id; `ProjectWorkProofs`)

All of `WorkSpec`, in which both components run on one project.

| theorem | property |
|---|---|
| `WorkTypeCorrect` | `WorkTypeOK` (no run checks it, the proof does) |
| `CrossingsAreTrue` | `LastCrossingIsTrue` |
| `MovesAlwaysFit` | `MilestonesStayMovable` |
| `DocumentsStand` | `DocumentsStandOnEachOther` |
| `PublishedStays` | `PublishedStaysAsItWas` |
| `ClosedStaysFrozen` | `ClosedProjectIsFrozen` |
| `DeadlocksKnown` | `DeadlocksAreKnown` |

`MilestonesInv` adds to the audit that the milestones of each project are numbered `1..N`
without repetition (`Numbered`). That survives a deletion because compacting is
one-to-one and onto (`DeleteMilestoneKeeps`), and `SavesFit` shows that with it none of the
three saves of a move collides.

`AdvancesInv` is about what a transaction may still rely on at its commit. `PromisesKept`:
while it is ready to commit, it holds every lock its plan asks for by now and what its
check found is still true (`Promise`; for a new advance and an upload to an advance less
than what was checked, because the project was read without a lock there). The step of
another worker keeps a promise because whatever it writes it had to lock, and `OneHolder`
says that two workers never hold the same row (`HeldAdvanceStays`, `HeldProjectStays`,
`PromiseBeside`); a plan cannot change under its owner either (`PlanStays`, `PlanGrows`),
because an advance that is locked keeps its project. `DocumentsStand` is then the
conjunction of the promises at the commits, and the two action properties follow commit by
commit. `LocksInOrder` says that what is held ranks below what is missing; requests
that hold none of the pairs of `DeadlocksAreKnown` among them agree on one order of the
tables (`RankIn`, `OneOrder`), so in a circle of them the last awaited table would be held
by a request that waits for a later one (`LastIsNotAwaited`, `NoCircle`): a circle of any
length has one of the pairs in it. Three deletions of one advance do wait in a circle in
which no two wait for each other alone.

### UploadedFiles, KoboFiles, Backups (`StoredFilesProofs`)

Assumed: names in the directories of the three kinds of upload are different
(`UploadsAssumption`, `ClaimsAssumption`, `StorageAssumption`: each model has its own
`upload_to`), and `KeepCount` is positive (`BackupsAssumption`; the script takes 0 as well,
see 7.18, and then prunes even the set that was just published).

| theorem | property |
|---|---|
| `FilesTypeCorrect` | `FilesTypeOK` (no run checks it, the proof does) |
| `DocumentKept` | `ExpenseKeepsDocument` |
| `ObjectsKept` | `RowsHaveTheirObject` |
| `DownloadsStay` | `DownloadsAreFinal` |
| `SetsRestore` | `BackupsRestore` |
| `RetentionSafe` | `RetentionKeepsGood` |

The invariant `FilesInv` has three parts, each inductive beside the others' steps.

* `UploadInv`. An object that was written belongs to one process until a row with its name
  is committed (`NamesHeld`, `DocumentsHaveObjects`, `AttachmentsHaveObjects`), so a
  compensation never removes what another row needs. The exception is in the code: the
  object of an attachment is deleted before its row is (`cut`), and its name can be given
  away while the row may still come back. `ExpenseKeepsDocument` is no consequence of a
  count that was right once: `DeletionsKnow` keeps, for a deletion that has counted under
  the lock, a second document of the same expense, and `OneLockHolder` says nobody else can
  be deleting that one (`AnotherOne`, `DeleteKeeps`).
* `KoboInv`. Claims have different tokens, and the file of a confirmed row belongs to no
  claim (`EvidenceHasObjects`); a worker whose claim was taken over compensates its own
  object only.
* `BackupsInv`. While the runner works, no writer does (`Quiet`, which the operator
  confirms), so the rows it dumped and the files it copied are of one state (`RunnerInv`,
  `QuietRows`). `RetentionInv` says what remains true while the retention deletes one set
  after another and may be killed in between: every doomed set still has `KeepCount` newer
  whole sets that are not doomed. It holds when the sets are chosen because the newest of
  them was behind that many (`NewestExists`, `RetentionSpares`), and so the set that the last
  success names, or a newer one, is never among them.

### What is only model-checked

`EveryCallEnds` of `LedgerLocks` is liveness under fairness, which the prover does not reach.
Every other property of the eight passing runs is proved, `NoEditIsLost` and `OffersWork`
under the hypotheses named above. The four runs that fail have a
counterexample and nothing to prove.

## 9. What is left out

`PROJECT.json` lists every component with its status and, where it is partly
modelled, what is missing.

* Institutions and project documents: plain forms over one table each. Only PROTECT
  connects an institution to its donations.
* The audit log: append-only, refused by model methods and a trigger; only the
  milestone crossing is read back, and modelled.
* Operational codes and `Ledger` are not composed: its rows have ids the database never
  hands out twice.
* The Django admin: the models of money refuse to add, change and delete there. The
  admins of projects and advances save whole rows without a lock like the project form
  and are not modelled a second time. Superusers pass every permission check, and are
  outside `ExpenseDesk`.
* Row locks of territorial routing and administration, whose order differs
  (`territorial_routing.py:410`): a deadlock ends in an error of one of the two and a
  retry.
* The Kobo client (what a page holds is a free choice), discovery and registry (one row
  per asset), the commands (one more worker), the hub's pages, which only read.
* Exports, and the lists and filters of pages beyond the amounts in `LedgerFigures`, which
  only read; settings, health checks, logging; demo
  data; storage migration, run once while writers are stopped; the web server's start
  scripts; `SIGEDON_BACKUP_KEEP_DAYS` beyond a free choice of what is old.
