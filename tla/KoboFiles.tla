------------------------------- MODULE KoboFiles -------------------------------
(***************************************************************************)
(* The attachments of KoboToolbox submissions (integrations/kobo/          *)
(* attachments.py).  A worker claims a row with a fresh token, downloads   *)
(* and stores the file under a name made of that token, outside any        *)
(* transaction, and settles the row only if the token is still its own:    *)
(* a claim expires while its worker is busy, and another one takes over.   *)
(***************************************************************************)
EXTENDS Naturals, FiniteSets, ObjectStore

CONSTANTS
    Evidence,       \* KoboAttachment rows
    Downloaders,    \* worker processes
    Tokens          \* claims; a token is also the name of its object

ASSUME ClaimsAssumption == Tokens \subseteq Names /\ None \notin Evidence \cup Names

VARIABLES
    evidence,       \* [status, token, file] of each row
    download        \* what each worker is doing

koboVars == <<evidence, download>>

EvidenceStatus == {"pending", "processing", "downloaded", "invalid", "failed"}

EvidenceRow == [status : EvidenceStatus, token : Tokens \cup {None}, file : Tokens \cup {None}]

NoDownload == [row |-> None, token |-> None, stored |-> FALSE]

Download == [row : Evidence \cup {None}, token : Tokens \cup {None}, stored : BOOLEAN]

KoboInit ==
    /\ evidence = [a \in Evidence |-> [status |-> "pending", token |-> None, file |-> None]]
    /\ download = [v \in Downloaders |-> NoDownload]

\* uuid4: neither a row nor a worker nor an object has it.
Fresh(t) ==
    /\ \A a \in Evidence : evidence[a].token # t
    /\ \A v \in Downloaders : download[v].token # t
    /\ t \notin objects

\* Mutant of Owns: any claim that is still being processed will do.
OwnsAny(v) == TRUE

\* _owns_processing_claim
Owns(v) ==
    LET row == evidence[download[v].row] IN
    row.status = "processing" /\ row.token = download[v].token

\* claim_attachment_processing.  A claim that is being processed is taken over
\* once its time is up; how long that takes is a setting, and may be nothing.
Claim(v, a) ==
    /\ download[v] = NoDownload
    /\ evidence[a].status \in {"pending", "failed", "processing"}
    /\ \E t \in Tokens :
           /\ Fresh(t)
           /\ evidence' = [evidence EXCEPT ![a].status = "processing", ![a].token = t]
           /\ download' = [download EXCEPT ![v] = [row |-> a, token |-> t, stored |-> FALSE]]
    /\ UNCHANGED storeVars

\* _finalize_claimed_failure: the content is INVALID for good, or the download
\* or the storage FAILED.  Who lost the claim changes nothing.
SettleFailure(v, status) ==
    /\ download[v].row # None /\ ~download[v].stored
    /\ evidence' = IF Owns(v)
                     THEN [evidence EXCEPT ![download[v].row].status = status,
                                           ![download[v].row].token = None]
                     ELSE evidence
    /\ download' = [download EXCEPT ![v] = NoDownload]
    /\ UNCHANGED storeVars

\* storage.save under the name build_safe_filename makes of the token.
StoreDownload(v) ==
    /\ download[v].row # None /\ ~download[v].stored
    /\ Save(download[v].token)
    /\ download' = [download EXCEPT ![v].stored = TRUE]
    /\ UNCHANGED evidence

\* Mutant of Leftover: the object of the row is deleted, not that of the worker.
LeftoverOfRow(v) == {evidence[download[v].row].file} \ {None}

\* What a worker that could not confirm deletes again.
Leftover(v) == {download[v].token}

\* _confirm_download_success by the owner.
ConfirmDownload(v) ==
    /\ download[v].stored /\ Owns(v)
    /\ evidence' = [evidence EXCEPT ![download[v].row] =
                       [status |-> "downloaded", token |-> None, file |-> download[v].token]]
    /\ download' = [download EXCEPT ![v] = NoDownload]
    /\ UNCHANGED storeVars

\* The claim was lost, or the confirmation raised.
CompensateDownload(v) ==
    /\ download[v].stored
    /\ Compensate(Leftover(v))
    /\ download' = [download EXCEPT ![v] = NoDownload]
    /\ UNCHANGED evidence

DieDownloading(v) ==
    /\ download[v] # NoDownload
    /\ download' = [download EXCEPT ![v] = NoDownload]
    /\ UNCHANGED <<evidence, storeVars>>

KoboStep ==
    \E v \in Downloaders :
        \/ \E a \in Evidence : Claim(v, a)
        \/ SettleFailure(v, "invalid") \/ SettleFailure(v, "failed")
        \/ StoreDownload(v) \/ ConfirmDownload(v)
        \/ CompensateDownload(v) \/ DieDownloading(v)

KoboTypeOK ==
    /\ evidence \in [Evidence -> EvidenceRow]
    /\ download \in [Downloaders -> Download]

\* What was downloaded, or found to be invalid, is never reopened, replaced or
\* marked as failed by a worker whose claim had expired long before.
DownloadsAreFinal ==
    [][\A a \in Evidence :
           evidence[a].status \in {"downloaded", "invalid"} => evidence'[a] = evidence[a]]_evidence

==============================================================================
