----------------------------- MODULE UploadedFiles -----------------------------
(***************************************************************************)
(* Files uploaded through the services of apps/operations: the supporting  *)
(* documents of an expense, and the attachments of an expense request.     *)
(*                                                                         *)
(* Every upload first stores its objects, outside any transaction, and     *)
(* then confirms them in one; if that raises, it deletes its objects.  A   *)
(* process may die between any two of these steps.                         *)
(***************************************************************************)
EXTENDS Naturals, FiniteSets, ObjectStore

CONSTANTS
    Expenses, Requests, Attachments, Clerks,
    DocumentNames, AttachmentNames      \* names in the two directories

\* upload_to: supporting_documents/ and expense_request_attachments/.
ASSUME UploadsAssumption ==
    /\ DocumentNames \cup AttachmentNames \subseteq Names
    /\ DocumentNames \cap AttachmentNames = {}
    /\ None \notin Expenses \cup Requests \cup Attachments \cup Names

VARIABLES
    expense,        \* its status
    request,        \* its status
    document,       \* the expense each supporting document belongs to, by name
    attachment,     \* [of, name] of each attachment of a request
    job             \* what each process is doing

uploadVars == <<expense, request, document, attachment, job>>

ExpenseStatus == {"absent", "registered", "annulled"}
RequestStatus == {"pending", "decided"}

NoAttachment == [of |-> None, name |-> None]

AttachmentRow == [of : Requests \cup {None}, name : AttachmentNames \cup {None}]

\* left: the files still to be stored.  names: the objects stored for it.
\* row: the document or attachment that is being deleted.
Call == {"execute", "correct", "support", "attach", "delete", "detach"}

Phase == {"storing", "raised", "waiting", "locked", "freed"}

Job == [call : Call \cup {"none"}, phase : Phase \cup {"idle"},
        of : Expenses \cup Requests \cup {None}, left : 0..2, names : SUBSET Names,
        row : DocumentNames \cup Attachments \cup {None}]

Idle == [call |-> "none", phase |-> "idle", of |-> None, left |-> 0, names |-> {}, row |-> None]

UploadInit ==
    /\ expense    = [e \in Expenses |-> "absent"]
    /\ request    = [r \in Requests |-> "pending"]
    /\ document   = [n \in DocumentNames |-> None]
    /\ attachment = [a \in Attachments |-> NoAttachment]
    /\ job        = [w \in Clerks |-> Idle]

DocumentsOf(e) == {n \in DocumentNames : document[n] = e}

\* Mutant of DeletionLocks: each document is deleted under a lock of its own.
DeletionLocksDocument(w) == {job[w].row}

\* select_for_update of delete_supporting_document: the expense, so that
\* nobody else counts its documents.
DeletionLocks(w) == {job[w].of, job[w].row}

\* What a transaction that is under way has locked.
Locks(w) ==
    IF job[w].phase \notin {"locked", "freed"} THEN {}
    ELSE IF job[w].call = "delete" THEN DeletionLocks(w)
    ELSE {job[w].of, job[w].row}

Unlocked(x) == \A w \in Clerks : x \notin Locks(w)

Directory(call) == IF call = "attach" THEN AttachmentNames ELSE DocumentNames

-------------------------------------------------------------------------------
(* Uploads.                                                                *)

Begin(w, call, of, left) ==
    /\ job[w] = Idle
    /\ job' = [job EXCEPT ![w] = [Idle EXCEPT !.call = call, !.phase = "storing",
                                             !.of = of, !.left = left]]
    /\ UNCHANGED <<expense, request, document, attachment, storeVars>>

\* fulfill_expense_request and create_expense_legacy; update_expense with a new
\* file; create_supporting_document; add_expense_request_attachments, which
\* looks at the request in a transaction of its own first.
BeginUpload(w) ==
    \/ \E e \in Expenses : expense[e] = "absent" /\ Begin(w, "execute", e, 1)
    \/ \E e \in Expenses : expense[e] # "absent" /\ Begin(w, "correct", e, 1)
    \/ \E e \in Expenses : expense[e] # "absent" /\ Begin(w, "support", e, 1)
    \/ \E r \in Requests, left \in 1..2 :
           request[r] = "pending" /\ Unlocked(r) /\ Begin(w, "attach", r, left)

\* _store_upload_for_field
StoreFile(w) ==
    /\ job[w].phase = "storing" /\ job[w].left > 0
    /\ \E n \in Directory(job[w].call) :
           /\ Save(n)
           /\ job' = [job EXCEPT ![w].left = @ - 1, ![w].names = @ \cup {n}]
    /\ UNCHANGED <<expense, request, document, attachment>>

\* What the confirming transaction checks under the lock of the parent row.
Confirmable(w) ==
    LET of == job[w].of IN
    CASE job[w].call = "execute" -> expense[of] = "absent"
      [] job[w].call = "correct" -> expense[of] = "registered"
      [] job[w].call = "support" -> expense[of] # "absent"
      [] job[w].call = "attach"  -> request[of] = "pending"

\* The confirming transaction commits: all rows of the upload at once.
ConfirmUpload(w) ==
    /\ job[w].phase = "storing" /\ job[w].left = 0
    /\ Unlocked(job[w].of) /\ Confirmable(w)
    /\ IF job[w].call = "attach"
         THEN /\ \E new \in [job[w].names -> {a \in Attachments : attachment[a] = NoAttachment}] :
                     /\ \A m, n \in job[w].names : new[m] = new[n] => m = n
                     /\ attachment' = [a \in Attachments |->
                            IF \E n \in job[w].names : new[n] = a
                              THEN [of   |-> job[w].of,
                                    name |-> CHOOSE n \in job[w].names : new[n] = a]
                              ELSE attachment[a]]
              /\ UNCHANGED <<expense, document>>
         ELSE /\ expense' = [expense EXCEPT ![job[w].of] = IF @ = "absent" THEN "registered" ELSE @]
              /\ document' = [n \in DocumentNames |->
                                 IF n \in job[w].names THEN job[w].of ELSE document[n]]
              /\ UNCHANGED attachment
    /\ job' = [job EXCEPT ![w] = Idle]
    /\ UNCHANGED <<request, storeVars>>

\* A save or the confirming transaction raises.
Raise(w) ==
    /\ job[w].phase = "storing"
    /\ job' = [job EXCEPT ![w].phase = "raised"]
    /\ UNCHANGED <<expense, request, document, attachment, storeVars>>

\* The except branch of _stored_upload and of add_expense_request_attachments.
CompensateUpload(w) ==
    /\ job[w].phase = "raised"
    /\ Compensate(job[w].names)
    /\ job' = [job EXCEPT ![w] = Idle]
    /\ UNCHANGED <<expense, request, document, attachment>>

-------------------------------------------------------------------------------
(* Deletions.                                                              *)

\* delete_supporting_document reads without a lock which expense to lock.
ReferDocument(w, n) ==
    /\ job[w] = Idle
    /\ document[n] # None
    /\ job' = [job EXCEPT ![w] = [Idle EXCEPT !.call = "delete", !.phase = "waiting",
                                             !.of = document[n], !.row = n]]
    /\ UNCHANGED <<expense, request, document, attachment, storeVars>>

\* It locks and then counts; the last document of an expense stays.
CountDocuments(w) ==
    /\ job[w].phase = "waiting"
    /\ \A x \in DeletionLocks(w) : Unlocked(x)
    /\ job' = [job EXCEPT ![w] =
                  IF /\ document[job[w].row] # None
                     /\ expense[job[w].of] # "annulled"
                     /\ Cardinality(DocumentsOf(job[w].of)) > 1
                    THEN [@ EXCEPT !.phase = "locked"]
                    ELSE Idle]
    /\ UNCHANGED <<expense, request, document, attachment, storeVars>>

\* The row goes, its object stays.
DeleteDocument(w) ==
    /\ job[w].call = "delete" /\ job[w].phase = "locked"
    /\ document' = [document EXCEPT ![job[w].row] = None]
    /\ job' = [job EXCEPT ![w] = Idle]
    /\ UNCHANGED <<expense, request, attachment, storeVars>>

\* delete_expense_request_attachment: the row is deleted, not yet committed.
Detach(w, a) ==
    /\ job[w] = Idle
    /\ attachment[a] # NoAttachment
    /\ request[attachment[a].of] = "pending" /\ Unlocked(attachment[a].of)
    /\ job' = [job EXCEPT ![w] = [Idle EXCEPT !.call = "detach", !.phase = "locked",
                                             !.of = attachment[a].of, !.row = a]]
    /\ UNCHANGED <<expense, request, document, attachment, storeVars>>

\* Still in that transaction its object is deleted, if the storage can.
FreeObject(w) ==
    /\ job[w].call = "detach" /\ job[w].phase = "locked"
    /\ Compensate({attachment[job[w].row].name})
    /\ job' = [job EXCEPT ![w].phase = "freed"]
    /\ UNCHANGED <<expense, request, document, attachment>>

CommitDetach(w) ==
    /\ job[w].phase = "freed"
    /\ attachment' = [attachment EXCEPT ![job[w].row] = NoAttachment]
    /\ job' = [job EXCEPT ![w] = Idle]
    /\ UNCHANGED <<expense, request, document, storeVars>>

-------------------------------------------------------------------------------

\* annul_expense
AnnulExpense(e) ==
    /\ expense[e] = "registered" /\ Unlocked(e)
    /\ expense' = [expense EXCEPT ![e] = "annulled"]
    /\ UNCHANGED <<request, document, attachment, job, storeVars>>

\* Approval, denial, withdrawal: the request is no longer pending.
DecideRequest(r) ==
    /\ request[r] = "pending" /\ Unlocked(r)
    /\ request' = [request EXCEPT ![r] = "decided"]
    /\ UNCHANGED <<expense, document, attachment, job, storeVars>>

\* The process dies or its connection breaks.  PostgreSQL rolls back; a deleted
\* object does not come back.
Die(w) ==
    /\ job[w] # Idle
    /\ cut' = IF job[w].phase = "freed" THEN cut \cup {attachment[job[w].row].name} ELSE cut
    /\ job' = [job EXCEPT ![w] = Idle]
    /\ UNCHANGED <<expense, request, document, attachment, objects>>

UploadStep ==
    \/ \E w \in Clerks :
           \/ BeginUpload(w) \/ StoreFile(w) \/ ConfirmUpload(w)
           \/ Raise(w) \/ CompensateUpload(w) \/ Die(w)
           \/ (\E n \in DocumentNames : ReferDocument(w, n))
           \/ CountDocuments(w) \/ DeleteDocument(w)
           \/ (\E a \in Attachments : Detach(w, a))
           \/ FreeObject(w) \/ CommitDetach(w)
    \/ \E e \in Expenses : AnnulExpense(e)
    \/ \E r \in Requests : DecideRequest(r)

UploadTypeOK ==
    /\ StoreTypeOK
    /\ expense \in [Expenses -> ExpenseStatus]
    /\ request \in [Requests -> RequestStatus]
    /\ document \in [DocumentNames -> Expenses \cup {None}]
    /\ attachment \in [Attachments -> AttachmentRow]
    /\ job \in [Clerks -> Job]

\* Every expense keeps a supporting document, also when two of its documents are
\* deleted at the same time and each deletion still sees the other.
ExpenseKeepsDocument ==
    \A e \in Expenses : expense[e] # "absent" => DocumentsOf(e) # {}

==============================================================================
