------------------------------- MODULE Advances -------------------------------
(***************************************************************************)
(* The advances (ProjectUpdate) of the projects, their documentary review, *)
(* decision and remediation, and the files attached to them                *)
(* (apps/operations/services.py 2676-3165, views/project_updates.py).      *)
(*                                                                         *)
(* Each service is a transaction that locks rows one after the other       *)
(* (SELECT ... FOR UPDATE with select_related locks every joined row),     *)
(* checks, and commits.  What is read without a lock and used afterwards   *)
(* can have changed: the project, when an advance is locked alone; the     *)
(* advance, when the view of its deletion has checked it.  An upload is    *)
(* two transactions with the writing of the object between them, and one   *)
(* request uploads several files one after the other.                      *)
(***************************************************************************)
EXTENDS Naturals, FiniteSets, ProjectStatus

CONSTANTS Advances, Files, Workers

VARIABLES
    advance,        \* [status, project, text] of each advance
    review,         \* whether the committee reviewed the advance
    decision,       \* the outcome of its review
    remediation,    \* [status, response] of the remediation of its decision
    file,           \* [status, of, on, public] of each attachment
    tx              \* what each worker is doing

rows == <<project, advance, review, decision, remediation, file>>
vars == <<project, advance, review, decision, remediation, file, tx>>

AdvanceStatus == {"absent", "unpublished", "published", "deleted"}
Outcome == {"conforming", "observed"}
RemediationStatus == {"none", "draft", "submitted", "accepted", "rejected"}
Owner == {"advance", "remediation"}

ASSUME AdvancesAssumption == None \notin Projects \cup Advances \cup Files \cup Outcome

\* Contents, which only matter by whether they change.
Text == {1, 2}
Edited(text) == 3 - text

AdvanceRow == [status : AdvanceStatus, project : Projects \cup {None}, text : Text]
RemediationRow == [status : RemediationStatus, response : Text]
FileRow == [status : {"absent", "kept", "deleted"}, of : Owner, on : Advances \cup {None},
            public : BOOLEAN]

\* The services.  "upload" is add_project_update_attachment and
\* add_project_update_remediation_attachment.
Service == {"register", "update", "upload", "delete_file", "set_public", "publish",
            "delete_advance", "review", "decide", "remediate", "edit_remediation",
            "submit", "resolve", "finish_project"}

Call == [name : Service, u : Advances \cup {None}, p : Projects \cup {None},
         files : SUBSET Files, of : Owner, choice : Outcome]

\* idle, the view of a deletion passed its check, locking rows, ready to commit,
\* writing an object between the two transactions of an upload.
Phase == {"idle", "confirming", "locking", "checked", "storing"}

Idle == [phase |-> "idle", gate |-> FALSE, held |-> {},
         call |-> [name |-> "finish_project", u |-> None, p |-> None, files |-> {},
                   of |-> "advance", choice |-> "observed"]]

Table == {"project", "advance", "review", "decision", "remediation", "file"}

TxRow == [phase : Phase, gate : BOOLEAN, call : Call,
          held : SUBSET (Table \X (Projects \cup Advances \cup Files \cup {None}))]

Init ==
    /\ project     = [p \in Projects |-> "active"]
    /\ advance     = [u \in Advances |-> [status |-> "absent", project |-> None, text |-> 1]]
    /\ review      = [u \in Advances |-> FALSE]
    /\ decision    = [u \in Advances |-> None]
    /\ remediation = [u \in Advances |-> [status |-> "none", response |-> 1]]
    /\ file        = [k \in Files |-> [status |-> "absent", of |-> "advance", on |-> None,
                                       public |-> FALSE]]
    /\ tx          = [w \in Workers |-> Idle]

-------------------------------------------------------------------------------
(* What the services read.                                                 *)

Editable(u) == advance[u].status = "unpublished"
Exists(u) == advance[u].status \in {"unpublished", "published"}

FilesOf(u, owner) ==
    {k \in Files : file[k].status = "kept" /\ file[k].on = u /\ file[k].of = owner}

\* The project an existing advance belongs to accepts operational mutations.
OpenFor(u) == Exists(u) /\ Open(advance[u].project)

Lock(table, id) == <<table, id>>

\* The tables joined to a row of each, the projects left out.
Joined(table) ==
    CASE table = "advance"     -> {"advance"}
      [] table = "review"      -> {"review", "advance"}
      [] table = "decision"    -> {"decision", "review", "advance"}
      [] table = "remediation" -> {"remediation", "decision", "review", "advance"}

\* A row of u with everything joined to it, down to the project.
From(table, u) ==
    {Lock(t, u) : t \in Joined(table)} \cup {Lock("project", advance[u].project)}

\* The advance without its project, which is read when it is needed.
Alone(u) == {Lock("advance", u)}

FileLocks(ks) == {Lock("file", k) : k \in ks}

\* Mutant of ReviewLocks: the project is not joined.
ReviewLocksAdvanceOnly(u) == Alone(u)

\* create_project_update_review
ReviewLocks(u) == From("advance", u)

\* What one transaction locks.
LockPlan(t) ==
    LET c == t.call IN
    CASE c.name = "register"         -> {Lock("project", c.p)}
      [] c.name = "update"           -> Alone(c.u) \cup {Lock("project", c.p)}
      [] c.name = "upload"           -> IF c.of = "advance" THEN Alone(c.u)
                                                            ELSE From("remediation", c.u)
      [] c.name = "delete_file"      -> FileLocks(c.files) \cup
                                            IF c.of = "advance" THEN Alone(c.u)
                                                                ELSE From("remediation", c.u)
      [] c.name = "set_public"       -> FileLocks(c.files) \cup From("advance", c.u)
      [] c.name = "publish"          -> From("advance", c.u)
      [] c.name = "delete_advance"   -> FileLocks(c.files) \cup Alone(c.u)
      [] c.name = "review"           -> ReviewLocks(c.u)
      [] c.name = "decide"           -> From("review", c.u)
      [] c.name = "remediate"        -> From("decision", c.u)
      [] c.name \in {"edit_remediation", "resolve", "submit"} -> From("remediation", c.u)
      [] c.name = "finish_project"   -> {Lock("project", c.p)}

\* Mutant of Rank: a review locks the project first.
RankProjectFirst(name, table) ==
    CASE table = "remediation" -> 2
      [] table = "decision"    -> 3
      [] table = "review"      -> 4
      [] table = "advance"     -> 5
      [] table = "project"     -> IF name = "review" THEN 1 ELSE 6
      [] table = "file"        -> 7

\* The order in which a service locks the rows of its plan, by table: the joined
\* rows as they are joined, except that a submission locks the decision first;
\* publicity and deletion of an advance the files first, deletion of a file last.
Rank(name, table) ==
    CASE table = "remediation" -> 2
      [] table = "decision"    -> IF name = "submit" THEN 1 ELSE 3
      [] table = "review"      -> 4
      [] table = "advance"     -> 5
      [] table = "project"     -> 6
      [] table = "file"        -> IF name \in {"set_public", "delete_advance"} THEN 0 ELSE 7

Missing(t) == LockPlan(t) \ t.held

\* The rows the next lock may be: one, or any of the files PostgreSQL deletes with
\* an advance in one statement.
NextLocks(t) ==
    {l \in Missing(t) : \A m \in Missing(t) : Rank(t.call.name, l[1]) <= Rank(t.call.name, m[1])}

-------------------------------------------------------------------------------
(* The checks, with the locks held.                                        *)

\* Mutant of UploadAllowed: only the first transaction looks at the parent.
UploadAllowedOnce(t) ==
    ~t.gate \/ t.call.of = "remediation" \/ (Editable(t.call.u) /\ OpenFor(t.call.u))

\* ensure_project_update_is_editable; _require_draft_remediation
UploadAllowed(t) ==
    LET u == t.call.u IN
    /\ OpenFor(u)
    /\ IF t.call.of = "advance" THEN Editable(u) ELSE remediation[u].status = "draft"

\* create_project_update_review
ReviewAllowed(u) == OpenFor(u) /\ advance[u].status = "published" /\ ~review[u]

\* update_project_update_remediation
EditAllowed(u) == OpenFor(u) /\ remediation[u].status = "draft"

\* Mutant of Deletable: the review goes with the advance instead of protecting it.
DeletableWithReview(u) == Exists(u)

\* The collector of a deletion refuses what is protected; the status was
\* checked by the view.  A file attached since the collection fails at the commit.
Deletable(u) == Exists(u) /\ ~review[u]

Allowed(t) ==
    LET c == t.call
        u == c.u
    IN
    CASE c.name = "register"       -> advance[u].status = "absent" /\ Open(c.p)
      [] c.name = "update"         -> Editable(u) /\ OpenFor(u) /\ Open(c.p)
      [] c.name = "upload"         -> UploadAllowed(t)
      [] c.name = "delete_file"    -> UploadAllowed(t)
      [] c.name = "set_public"     -> OpenFor(u) /\ \A k \in c.files : file[k].status = "kept"
      [] c.name = "publish"        -> OpenFor(u) /\ Editable(u)
      [] c.name = "delete_advance" -> Deletable(u) /\ FilesOf(u, "advance") \subseteq c.files
      [] c.name = "review"         -> ReviewAllowed(u)
      [] c.name = "decide"         -> OpenFor(u) /\ advance[u].status = "published"
                                          /\ review[u] /\ decision[u] = None
      [] c.name = "remediate"      -> OpenFor(u) /\ decision[u] = "observed"
                                          /\ remediation[u].status = "none"
      [] c.name = "edit_remediation" -> EditAllowed(u)
      [] c.name = "submit"         -> OpenFor(u) /\ remediation[u].status = "draft"
      [] c.name = "resolve"        -> OpenFor(u) /\ remediation[u].status = "submitted"
      [] c.name = "finish_project" -> Open(c.p)

-------------------------------------------------------------------------------
(* What a transaction writes.                                              *)

WriteAdvance(u, row) ==
    /\ advance' = [advance EXCEPT ![u] = row]
    /\ UNCHANGED <<project, review, decision, remediation, file>>

WriteRemediation(u, status, response) ==
    /\ remediation' = [remediation EXCEPT ![u] = [status |-> status, response |-> response]]
    /\ UNCHANGED <<project, advance, review, decision, file>>

WriteFiles(ks, status, public(_)) ==
    /\ file' = [k \in Files |-> IF k \in ks THEN [file[k] EXCEPT !.status = status,
                                                                 !.public = public(k)]
                                            ELSE file[k]]
    /\ UNCHANGED <<project, advance, review, decision, remediation>>

RegisterAdvance(c) ==
    WriteAdvance(c.u, [status |-> "unpublished", project |-> c.p, text |-> 1])

UpdateAdvance(c) ==
    WriteAdvance(c.u, [advance[c.u] EXCEPT !.project = c.p, !.text = Edited(@)])

\* publish_project_update saves the status only.
PublishAdvance(c) == WriteAdvance(c.u, [advance[c.u] EXCEPT !.status = "published"])

\* The attachments go with the advance.
DeleteAdvance(c) ==
    /\ advance' = [advance EXCEPT ![c.u].status = "deleted"]
    /\ file' = [k \in Files |-> IF k \in c.files
                                  THEN [file[k] EXCEPT !.status = "deleted"] ELSE file[k]]
    /\ UNCHANGED <<project, review, decision, remediation>>

\* The row of an uploaded file, whose number comes from a sequence.
AttachFile(c, k) ==
    /\ file' = [file EXCEPT ![k] = [status |-> "kept", of |-> c.of, on |-> c.u,
                                    public |-> FALSE]]
    /\ UNCHANGED <<project, advance, review, decision, remediation>>

\* A file that was deleted meanwhile is deleted once more.
DeleteFile(c) == WriteFiles(c.files, "deleted", LAMBDA k : file[k].public)

\* set_project_update_attachment_publicity
SetPublic(c) == WriteFiles(c.files, "kept", LAMBDA k : ~file[k].public)

ReviewAdvance(c) ==
    /\ review' = [review EXCEPT ![c.u] = TRUE]
    /\ UNCHANGED <<project, advance, decision, remediation, file>>

DecideReview(c) ==
    /\ decision' = [decision EXCEPT ![c.u] = c.choice]
    /\ UNCHANGED <<project, advance, review, remediation, file>>

FinishProject(c) ==
    /\ Close(c.p)
    /\ UNCHANGED <<advance, review, decision, remediation, file>>

Remediate(c)       == WriteRemediation(c.u, "draft", 1)
EditRemediation(c) ==
    WriteRemediation(c.u, remediation[c.u].status, Edited(remediation[c.u].response))
SubmitRemediation(c) == WriteRemediation(c.u, "submitted", remediation[c.u].response)

\* resolve_project_update_remediation
ResolveRemediation(c) ==
    WriteRemediation(c.u, IF c.choice = "conforming" THEN "accepted" ELSE "rejected",
                     remediation[c.u].response)

-------------------------------------------------------------------------------
(* The steps of a request.                                                 *)

Only(phase, c) == [Idle EXCEPT !.phase = phase, !.call = c]

\* The next transaction of a request: the first one of the next upload, or none.
Continue(c) ==
    IF c.files = {} THEN Idle
    ELSE [Only("locking", [c EXCEPT !.name = "upload"]) EXCEPT !.gate = TRUE]

\* The rows a request names in its URL or its form exist.
Found(c) ==
    /\ c.name = "register" => advance[c.u].status = "absent"
    /\ c.name \in {"update", "publish", "delete_advance", "review"} => Exists(c.u)
    /\ c.name \in {"register", "update"} => c.of = "advance" /\ c.p # None
    /\ c.name = "upload" => c.files # {}
    /\ c.name = "upload" => IF c.of = "advance" THEN Exists(c.u)
                                                ELSE remediation[c.u].status # "none"
    /\ c.name \in {"register", "update", "upload"} =>
           \A k \in c.files : file[k].status = "absent"
    /\ c.name \in {"delete_file", "set_public"} =>
           \E k \in FilesOf(c.u, c.of) : c.files = {k}
    /\ c.name = "set_public" => c.of = "advance"
    /\ c.name = "decide" => review[c.u]
    /\ c.name = "remediate" => decision[c.u] # None
    /\ c.name \in {"edit_remediation", "submit", "resolve"} => remediation[c.u].status # "none"
    /\ c.name = "delete_advance" => Editable(c.u) /\ OpenFor(c.u)

\* Nobody else is about to create the same rows: their ids come from sequences.
Fresh(c) ==
    \A w \in Workers :
        LET other == tx[w].call IN
        tx[w].phase # "idle" =>
            /\ c.name = "register" /\ other.name = "register" => other.u # c.u
            /\ c.name \in {"register", "update", "upload"}
                 /\ other.name \in {"register", "update", "upload"}
                 => c.files \cap other.files = {}

\* A request starts its (first) transaction; a deletion has passed the check of
\* its view, ensure_project_update_is_deletable, on rows it did not lock.
Begin(w, c) ==
    /\ tx[w].phase = "idle"
    /\ Found(c)
    /\ Fresh(c)
    /\ tx' = [tx EXCEPT ![w] =
                 CASE c.name = "delete_advance" -> Only("confirming", c)
                   [] c.name = "upload"         -> Continue(c)
                   [] OTHER                     -> Only("locking", c)]
    /\ UNCHANGED rows

\* The view of a deletion opens the transaction that deletes, with the attachments
\* there are by now.
Confirm(w) ==
    /\ tx[w].phase = "confirming"
    /\ tx' = [tx EXCEPT ![w].phase = "locking",
                        ![w].call.files = FilesOf(tx[w].call.u, "advance")]
    /\ UNCHANGED rows

\* The next row, once no other transaction holds it.
LockRow(w) ==
    /\ tx[w].phase = "locking"
    /\ \E l \in NextLocks(tx[w]) :
           /\ \A v \in Workers \ {w} : l \notin tx[v].held
           /\ tx' = [tx EXCEPT ![w].held = @ \cup {l}]
    /\ UNCHANGED rows

\* All locks are held and the checks pass or raise.
Check(w) ==
    /\ tx[w].phase = "locking"
    /\ Missing(tx[w]) = {}
    /\ tx' = [tx EXCEPT ![w] = IF Allowed(@) THEN [@ EXCEPT !.phase = "checked"] ELSE Idle]
    /\ UNCHANGED rows

\* The transaction commits and, with it, the locks are released.
Commit(w) ==
    LET c == tx[w].call
    IN  /\ tx[w].phase = "checked"
        /\ c.name # "upload"
        /\ CASE c.name = "register"       -> RegisterAdvance(c)
             [] c.name = "update"         -> UpdateAdvance(c)
             [] c.name = "delete_file"    -> DeleteFile(c)
             [] c.name = "set_public"     -> SetPublic(c)
             [] c.name = "publish"        -> PublishAdvance(c)
             [] c.name = "delete_advance" -> DeleteAdvance(c)
             [] c.name = "review"         -> ReviewAdvance(c)
             [] c.name = "decide"         -> DecideReview(c)
             [] c.name = "remediate"      -> Remediate(c)
             [] c.name = "edit_remediation" -> EditRemediation(c)
             [] c.name = "submit"         -> SubmitRemediation(c)
             [] c.name = "resolve"        -> ResolveRemediation(c)
             [] c.name = "finish_project" -> FinishProject(c)
        /\ tx' = [tx EXCEPT ![w] = IF c.name \in {"register", "update"} THEN Continue(c) ELSE Idle]

\* The first transaction of an upload ends and the object is written.
CommitGate(w) ==
    /\ tx[w].phase = "checked"
    /\ tx[w].call.name = "upload"
    /\ tx[w].gate
    /\ tx' = [tx EXCEPT ![w] = Only("storing", tx[w].call)]
    /\ UNCHANGED rows

\* The object is there; the second transaction starts.
Stored(w) ==
    /\ tx[w].phase = "storing"
    /\ tx' = [tx EXCEPT ![w].phase = "locking"]
    /\ UNCHANGED rows

\* The second transaction creates the row, and the next file is uploaded.
CommitUpload(w) ==
    LET c == tx[w].call IN
    /\ tx[w].phase = "checked"
    /\ c.name = "upload"
    /\ ~tx[w].gate
    /\ \E k \in c.files :
           /\ AttachFile(c, k)
           /\ tx' = [tx EXCEPT ![w] = Continue([c EXCEPT !.files = @ \ {k}])]

\* The request ends with nothing more committed: an error, a refused form, the
\* victim of a deadlock, the death of the process.
Abort(w) ==
    /\ tx[w].phase # "idle"
    /\ tx' = [tx EXCEPT ![w] = Idle]
    /\ UNCHANGED rows

\* The calls that differ in something a service looks at.
Calls ==
    LET Make(name, u, p, files, of, choice) ==
            [name |-> name, u |-> u, p |-> p, files |-> files, of |-> of, choice |-> choice]
    IN  {Make(n, u, p, ks, "advance", "observed") :
            n \in {"register", "update"}, u \in Advances, p \in Projects, ks \in SUBSET Files}
        \cup {Make("upload", u, None, ks, of, "observed") :
                 u \in Advances, ks \in SUBSET Files, of \in Owner}
        \cup {Make(n, u, None, {k}, of, "observed") :
                 n \in {"delete_file", "set_public"}, u \in Advances, k \in Files, of \in Owner}
        \cup {Make(n, u, None, {}, "advance", "observed") :
                 n \in {"publish", "delete_advance", "review", "remediate", "edit_remediation",
                        "submit"}, u \in Advances}
        \cup {Make(n, u, None, {}, "advance", x) :
                 n \in {"decide", "resolve"}, u \in Advances, x \in Outcome}
        \cup {Make("finish_project", None, p, {}, "advance", "observed") : p \in Projects}

WorkerStep(w) ==
    \/ \E c \in Calls : Begin(w, c)
    \/ Confirm(w)
    \/ LockRow(w)
    \/ Check(w)
    \/ Commit(w)
    \/ CommitGate(w)
    \/ Stored(w)
    \/ CommitUpload(w)
    \/ Abort(w)

Next == \E w \in Workers : WorkerStep(w)

Spec == Init /\ [][Next]_vars

-------------------------------------------------------------------------------
(* Properties.                                                             *)

TypeOK ==
    /\ project \in [Projects -> {"active", "closed"}]
    /\ advance \in [Advances -> AdvanceRow]
    /\ review \in [Advances -> BOOLEAN]
    /\ decision \in [Advances -> Outcome \cup {None}]
    /\ remediation \in [Advances -> RemediationRow]
    /\ file \in [Files -> FileRow]
    /\ tx \in [Workers -> TxRow]

\* The documents of an advance stand on each other, whoever reviews, decides,
\* publishes or deletes at the same time: a review has a published advance, a
\* decision a review, a remediation an observed decision, and an attachment the
\* advance or the remediation it belongs to.
DocumentsStandOnEachOther ==
    /\ \A u \in Advances :
           /\ review[u] => advance[u].status = "published"
           /\ decision[u] # None => review[u]
           /\ remediation[u].status # "none" => decision[u] = "observed"
    /\ \A k \in Files : file[k].status = "kept" =>
           IF file[k].of = "advance" THEN Exists(file[k].on)
                                     ELSE remediation[file[k].on].status # "none"

\* What was published or submitted is what stays: from then on neither its text
\* nor its set of files changes, even for the rest of an upload that started
\* before (docs/FLOWS.md:564, :575).
PublishedStaysAsItWas ==
    [][\A u \in Advances :
           /\ advance[u].status = "published" /\ advance'[u].status = "published" =>
                  /\ advance'[u] = advance[u]
                  /\ FilesOf(u, "advance")' = FilesOf(u, "advance")
           /\ remediation[u].status \in {"submitted", "accepted", "rejected"} =>
                  /\ remediation'[u].response = remediation[u].response
                  /\ FilesOf(u, "remediation")' = FilesOf(u, "remediation")]_vars

\* Nothing of a closed project is published, reviewed, decided or remediated any
\* more, and the publicity of its files does not change.
ClosedProjectIsFrozen ==
    [][\A u \in Advances : Exists(u) /\ ~Open(advance[u].project) =>
           /\ advance'[u].status \in {advance[u].status, "deleted"}
           /\ UNCHANGED <<review[u], decision[u], remediation[u]>>
           /\ \A k \in FilesOf(u, "advance") : file'[k].public = file[k].public]_vars

WaitsFor(w, v) ==
    /\ tx[w].phase = "locking"
    /\ NextLocks(tx[w]) \cap tx[v].held # {}

\* The services that take the same two rows in opposite orders: the submission of
\* a remediation and the other services of the same remediation, the deletion of a
\* file and its publicity or the deletion of its advance, and two deletions of one
\* advance, whose files go in no given order.
DeadlockPairs ==
    {{"submit", other} : other \in {"edit_remediation", "resolve", "upload", "delete_file"}}
        \cup {{"delete_file", other} : other \in {"set_public", "delete_advance"}}
        \cup {{"delete_advance"}}

\* Two of these requests run one of the pairs.
HasPair(W) ==
    \E w, v \in W : w # v /\ {tx[w].call.name, tx[v].call.name} \in DeadlockPairs

\* Requests wait for each other in a circle, of two or of any number, until
\* PostgreSQL ends one, only if two of them run one of the known pairs of services.
DeadlocksAreKnown ==
    \A W \in SUBSET Workers :
        W # {} /\ (\A w \in W : \E v \in W : WaitsFor(w, v)) => HasPair(W)

\* The view of the deletion "blocks final advances on GET and POST without
\* deleting or auditing them" (views/project_updates.py:570).
PublishedIsNeverDeleted ==
    [][\A u \in Advances : advance[u].status = "published" => advance'[u].status = "published"]_vars

==============================================================================
