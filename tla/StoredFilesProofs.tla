--------------------------- MODULE StoredFilesProofs ---------------------------
(***************************************************************************)
(* Theorems about Backups and the two kinds of stored files it composes,   *)
(* for any finite number of rows, processes, names and backup sets.        *)
(*                                                                         *)
(* Two ideas carry the argument.  An object belongs to one process until   *)
(* its row is there: a name that a running call has stored is in no row    *)
(* and in no other call (NamesHeld), so that its compensation takes        *)
(* nothing from anybody.  And while the runner is at work all else stands  *)
(* still, so that what it dumped are the references of the files it copied.*)
(***************************************************************************)
EXTENDS Backups, FiniteSetTheorems, WellFoundedInduction, TLAPS

-------------------------------------------------------------------------------
(* The inductive invariant.                                                *)

UploadCalls == {"execute", "correct", "support", "attach"}

Freed(a) == \E w \in Clerks : job[w].phase = "freed" /\ job[w].row = a

\* The row is there, and no deletion has touched its object.
Attached(a) == attachment[a] # NoAttachment /\ ~Freed(a)

\* What the local variables of each call may hold in each of its phases.
CallsFit ==
    \A w \in Clerks :
        /\ job[w].call = "none" \/ job[w].phase = "idle" => job[w] = Idle
        /\ job[w].phase \in {"storing", "raised"} => job[w].call \in UploadCalls
        /\ job[w].call \in UploadCalls =>
               /\ job[w].phase \in {"storing", "raised"}
               /\ job[w].of \in IF job[w].call = "attach" THEN Requests ELSE Expenses
               /\ job[w].names \subseteq Directory(job[w].call)
               /\ job[w].names = {} => job[w].left > 0
        /\ job[w].call = "delete" =>
               /\ job[w].phase \in {"waiting", "locked"} /\ job[w].names = {}
               /\ job[w].of \in Expenses /\ job[w].row \in DocumentNames
        /\ job[w].call = "detach" =>
               /\ job[w].phase \in {"locked", "freed"} /\ job[w].names = {}
               /\ job[w].of \in Requests /\ job[w].row \in Attachments

\* The objects of a running upload are there, and nobody else's; unless a deletion
\* that was not committed had freed the name.
NamesHeld ==
    \A w \in Clerks : \A n \in job[w].names :
        n \notin cut => n \in objects /\ \A v \in Clerks : n \in job[v].names => v = w

DocumentsHaveObjects ==
    \A n \in DocumentNames :
        document[n] # None => n \in objects /\ \A w \in Clerks : n \notin job[w].names

\* A deletion knows to which expense the document belongs, as nobody can use its
\* name again; once it has the lock another document of the expense is there.
DeletionsKnow ==
    \A w \in Clerks :
        job[w].call = "delete" =>
            /\ job[w].row \in objects
            /\ \A v \in Clerks : job[w].row \notin job[v].names
            /\ document[job[w].row] \in {job[w].of, None}
            /\ job[w].phase = "locked" =>
                   \E n \in DocumentNames : n # job[w].row /\ document[n] = job[w].of

DetachesKnow ==
    \A w \in Clerks :
        job[w].call = "detach" =>
            /\ attachment[job[w].row] # NoAttachment
            /\ attachment[job[w].row].of = job[w].of

Locking(w) == job[w].phase \in {"locked", "freed"}

\* No two transactions hold the same expense, or the same request.
OneLockHolder ==
    \A v, w \in Clerks :
        Locking(v) /\ Locking(w) /\ job[v].call = job[w].call /\ job[v].of = job[w].of => v = w

AttachmentsFit ==
    \A a \in Attachments :
        attachment[a] # NoAttachment =>
            attachment[a].of \in Requests /\ attachment[a].name \in AttachmentNames

AttachmentsHaveObjects ==
    \A a \in Attachments :
        Attached(a) /\ attachment[a].name \notin cut =>
            /\ attachment[a].name \in objects
            /\ \A b \in Attachments :
                   Attached(b) /\ attachment[b].name = attachment[a].name => b = a
            /\ \A w \in Clerks : attachment[a].name \notin job[w].names

CutsAreAttachments == cut \subseteq AttachmentNames

UploadInv ==
    /\ UploadTypeOK /\ CallsFit /\ NamesHeld
    /\ DocumentsHaveObjects /\ DeletionsKnow /\ DetachesKnow /\ OneLockHolder
    /\ AttachmentsFit /\ AttachmentsHaveObjects /\ CutsAreAttachments

\* Claims have a token of their own, and the object of a claim is its worker's.
ClaimsFit ==
    \A v \in Downloaders :
        /\ download[v].row = None => download[v] = NoDownload
        /\ download[v].row # None => download[v].token # None
        /\ download[v].stored => download[v].token \in objects
        /\ \A u \in Downloaders :
               download[u].token = download[v].token /\ download[v].token # None => u = v

EvidenceHasObjects ==
    \A a \in Evidence :
        evidence[a].file # None =>
            /\ evidence[a].file \in objects
            /\ \A v \in Downloaders : download[v].token # evidence[a].file

KoboInv == KoboTypeOK /\ ClaimsFit /\ EvidenceHasObjects

\* Which sets are there, and what the runner knows in each of its phases.
RunnerInv ==
    /\ \A b \in Stamps :
           sets[b] # NoSet => b <= stamps /\ sets[b].version \in Versions
    /\ runner.phase = "off" <=> runner = Stopped
    /\ runner.phase \in {"locked", "dumped", "copied"} => Quiet /\ runner.version \in Versions
    /\ runner.phase = "dumped" => runner.rows = References
    /\ runner.phase = "copied" =>
           runner.rows \subseteq runner.files \cup (IF runner.version = 1 THEN cut ELSE {})
    /\ runner.phase \in {"published", "verified", "retaining"} =>
           stamps \in Stamps /\ sets[stamps] # NoSet
    /\ runner.doomed # {} => runner.phase \in {"retaining", "pruning"}

\* What the retention has chosen stays dispensable while it is deleted set by set.
RetentionInv ==
    /\ runner.doomed \subseteq Whole
    /\ \A b \in runner.doomed : Cardinality(Newer(b, Whole \ runner.doomed)) >= KeepCount

BackupsTypeOK ==
    /\ stamps \in 0..MaxSets
    /\ sets \in [Stamps -> Set]
    /\ runner \in Runner
    /\ marker \in [status : {"none", "success", "failure"}, stamp : 0..MaxSets]
    /\ drill \in Drill

\* All that is said of the backups.
BackupsInv == BackupsTypeOK /\ RunnerInv /\ RetentionInv /\ BackupsRestore

FilesInv == UploadInv /\ KoboInv /\ BackupsInv /\ ExpenseKeepsDocument

-------------------------------------------------------------------------------
(* Steps of uploads and of the deletion of their files.                    *)

LEMMA IdleFits ==
    /\ Idle \in Job
    /\ Idle.call = "none" /\ Idle.phase = "idle" /\ Idle.names = {}
  BY DEF Idle, Job, Call, Phase

\* A step of one process leaves the others where they are.
LEMMA JobBecomes ==
    ASSUME job \in [Clerks -> Job], NEW w \in Clerks, NEW new \in Job,
           job' = [job EXCEPT ![w] = new]
    PROVE  /\ job' \in [Clerks -> Job] /\ job'[w] = new
           /\ \A v \in Clerks : v # w => job'[v] = job[v]
  OBVIOUS

Begun(call, of, left) ==
    [Idle EXCEPT !.call = call, !.phase = "storing", !.of = of, !.left = left]

LEMMA BegunRecord ==
    ASSUME NEW call \in UploadCalls, NEW of \in Expenses \cup Requests, NEW left \in 1..2
    PROVE  LET new == Begun(call, of, left) IN
           /\ new \in Job /\ new.call = call /\ new.phase = "storing" /\ new.of = of
           /\ new.left = left /\ new.names = {} /\ new.row = None
  <1> DEFINE new == Begun(call, of, left)
  <1>1. left \in 0..2
    OBVIOUS
  <1>2. new \in Job
    BY <1>1 DEF Begun, Idle, Job, Call, Phase, UploadCalls
  <1>3. /\ new.call = call /\ new.phase = "storing" /\ new.of = of
        /\ new.left = left /\ new.names = {} /\ new.row = None
    BY DEF Begun, Idle
  <1> QED
    BY <1>2, <1>3

LEMMA BeginKeeps ==
    ASSUME UploadInv, NEW w \in Clerks, BeginUpload(w)
    PROVE  UploadInv'
  <1> USE DEF UploadInv
  <1>1. PICK call \in UploadCalls, of \in Expenses \cup Requests, left \in 1..2 :
           /\ of \in IF call = "attach" THEN Requests ELSE Expenses
           /\ Begin(w, call, of, left)
    BY DEF BeginUpload, UploadCalls
  <1> DEFINE new == Begun(call, of, left)
  <1>3. /\ new \in Job /\ new.call = call /\ new.phase = "storing" /\ new.of = of
        /\ new.left = left /\ new.names = {} /\ new.row = None
    BY BegunRecord
  <1>4. /\ job[w] = Idle
        /\ job' = [job EXCEPT ![w] = new]
        /\ UNCHANGED <<expense, request, document, attachment, objects, cut>>
    BY <1>1, Zenon DEF Begin, Begun, storeVars
  <1> HIDE DEF new
  <1>5. /\ job' \in [Clerks -> Job] /\ job'[w] = new
        /\ \A v \in Clerks : v # w => job'[v] = job[v]
        /\ job[w].phase = "idle"
    BY <1>3, <1>4, IdleFits, JobBecomes DEF UploadTypeOK
  <1>6. \A a \in Attachments : Freed(a)' <=> Freed(a)
    BY <1>3, <1>5 DEF Freed
  <1>7. UploadTypeOK'
    BY <1>4, <1>5 DEF UploadTypeOK, StoreTypeOK
  <1>8. CallsFit'
    BY <1>1, <1>3, <1>5 DEF CallsFit, UploadCalls
  <1>9. NamesHeld'
    BY <1>3, <1>4, <1>5 DEF NamesHeld
  <1>10. DocumentsHaveObjects' /\ DeletionsKnow' /\ DetachesKnow'
    BY <1>3, <1>4, <1>5 DEF DocumentsHaveObjects, DeletionsKnow, DetachesKnow, UploadCalls
  <1>11. OneLockHolder'
    BY <1>3, <1>5 DEF OneLockHolder, Locking
  <1>12. AttachmentsFit' /\ AttachmentsHaveObjects' /\ CutsAreAttachments'
    BY <1>3, <1>4, <1>5, <1>6
       DEF AttachmentsFit, AttachmentsHaveObjects, Attached, CutsAreAttachments
  <1> QED
    BY <1>7, <1>8, <1>9, <1>10, <1>11, <1>12

WithFile(j, n) == [j EXCEPT !.left = @ - 1, !.names = @ \cup {n}]

LEMMA StoredRecord ==
    ASSUME NEW j \in Job, NEW n \in Names, j.left > 0
    PROVE  LET new == WithFile(j, n) IN
           /\ new \in Job /\ new.call = j.call /\ new.phase = j.phase
           /\ new.of = j.of /\ new.row = j.row /\ new.names = j.names \cup {n}
  <1> DEFINE new == WithFile(j, n)
             left == j.left - 1
             names == j.names \cup {n}
  <1>1. left \in 0..2 /\ names \in SUBSET Names /\ new = [j EXCEPT !.left = left, !.names = names]
    BY DEF Job, WithFile
  <1> HIDE DEF left, names, new
  <1>2. /\ new \in Job /\ new.call = j.call /\ new.phase = j.phase
        /\ new.of = j.of /\ new.row = j.row /\ new.names = names
    BY <1>1 DEF Job
  <1> QED
    BY <1>2 DEF names, new

LEMMA StoreFileKeeps ==
    ASSUME UploadInv, NEW w \in Clerks, StoreFile(w)
    PROVE  UploadInv'
  <1> USE DEF UploadInv
  <1>1. PICK n \in Directory(job[w].call) :
           /\ Save(n)
           /\ job' = [job EXCEPT ![w].left = @ - 1, ![w].names = @ \cup {n}]
    BY DEF StoreFile
  <1>2. /\ n \notin objects /\ objects' = objects \cup {n}
        /\ job[w].phase = "storing" /\ job[w].left > 0
        /\ UNCHANGED <<expense, request, document, attachment, cut>>
    BY <1>1 DEF Save, StoreFile
  <1>3. /\ job[w] \in Job
        /\ job[w].call \in UploadCalls
        /\ n \in Names /\ n \in DocumentNames \cup AttachmentNames
    BY <1>1, <1>2, UploadsAssumption DEF CallsFit, UploadTypeOK, Directory
  <1> DEFINE new == WithFile(job[w], n)
  <1>5. /\ new \in Job /\ new.call = job[w].call /\ new.phase = job[w].phase
        /\ new.of = job[w].of /\ new.row = job[w].row /\ new.names = job[w].names \cup {n}
    BY <1>2, <1>3, StoredRecord
  <1>6. job' = [job EXCEPT ![w] = new]
    BY ONLY <1>1, Zenon DEF WithFile
  <1> HIDE DEF new
  <1>7. /\ job' \in [Clerks -> Job] /\ job'[w] = new
        /\ \A v \in Clerks : v # w => job'[v] = job[v]
    BY <1>5, <1>6, JobBecomes DEF UploadTypeOK
  <1>8. \A a \in Attachments : Freed(a)' <=> Freed(a)
    BY <1>5, <1>7 DEF Freed
  <1>9. UploadTypeOK'
    BY <1>2, <1>3, <1>7 DEF UploadTypeOK, StoreTypeOK
  <1>10. CallsFit'
    <2>1. \A v \in Clerks : v # w => job'[v] = job[v]
      BY ONLY <1>7
    <2>2. /\ job[w].of \in (IF job[w].call = "attach" THEN Requests ELSE Expenses)
          /\ job[w].names \subseteq Directory(job[w].call)
      BY <1>3 DEF CallsFit
    <2>3. /\ job'[w].call = job[w].call /\ job'[w].phase = "storing" /\ job'[w].of = job[w].of
          /\ job'[w].names \subseteq Directory(job[w].call) /\ job'[w].names # {}
      BY ONLY <1>1, <1>2, <1>5, <1>7, <2>2, n \in Directory(job[w].call)
    <2>4. CallsFit /\ job[w].call \in UploadCalls
      BY <1>3
    <2> QED
      BY ONLY <2>1, <2>2, <2>3, <2>4 DEF CallsFit, UploadCalls
  <1>11. NamesHeld'
    BY <1>2, <1>5, <1>7 DEF NamesHeld
  <1>12. DocumentsHaveObjects' /\ DeletionsKnow' /\ DetachesKnow'
    BY <1>2, <1>3, <1>5, <1>7 DEF DocumentsHaveObjects, DeletionsKnow, DetachesKnow, UploadCalls
  <1>13. OneLockHolder'
    BY <1>5, <1>7 DEF OneLockHolder, Locking
  <1>14. AttachmentsFit' /\ AttachmentsHaveObjects' /\ CutsAreAttachments'
    BY <1>2, <1>5, <1>7, <1>8
       DEF AttachmentsFit, AttachmentsHaveObjects, Attached, CutsAreAttachments
  <1> QED
    BY <1>9, <1>10, <1>11, <1>12, <1>13, <1>14

WithPhase(j, phase) == [j EXCEPT !.phase = phase]

LEMMA WithPhaseRecord ==
    ASSUME NEW j \in Job, NEW phase \in Phase
    PROVE  LET new == WithPhase(j, phase) IN
           /\ new \in Job /\ new.call = j.call /\ new.phase = phase /\ new.of = j.of
           /\ new.left = j.left /\ new.names = j.names /\ new.row = j.row
  BY DEF WithPhase, Job

Asked(call, phase, of, row) ==
    [Idle EXCEPT !.call = call, !.phase = phase, !.of = of, !.row = row]

LEMMA AskedRecord ==
    ASSUME NEW call \in Call, NEW phase \in Phase, NEW of \in Expenses \cup Requests,
           NEW row \in DocumentNames \cup Attachments
    PROVE  LET new == Asked(call, phase, of, row) IN
           /\ new \in Job /\ new.call = call /\ new.phase = phase /\ new.of = of
           /\ new.names = {} /\ new.row = row
  <1> DEFINE new == Asked(call, phase, of, row)
  <1>1. new \in Job
    BY IdleFits DEF Asked, Job
  <1>2. /\ new.call = call /\ new.phase = phase /\ new.of = of
        /\ new.names = {} /\ new.row = row
    BY DEF Asked, Idle
  <1> QED
    BY <1>1, <1>2

\* The rows of a confirmed expense take over the objects of its upload.
LEMMA ConfirmExpenseKeeps ==
    ASSUME UploadInv, NEW w \in Clerks, ConfirmUpload(w), job[w].call # "attach"
    PROVE  UploadInv'
  <1> USE DEF UploadInv
  <1>1. /\ job[w].phase = "storing"
        /\ document' = [n \in DocumentNames |->
                           IF n \in job[w].names THEN job[w].of ELSE document[n]]
        /\ expense' = [expense EXCEPT ![job[w].of] = IF @ = "absent" THEN "registered" ELSE @]
        /\ job' = [job EXCEPT ![w] = Idle]
        /\ UNCHANGED <<request, attachment, objects, cut>>
    BY DEF ConfirmUpload, storeVars
  <1>2. /\ job[w].call \in UploadCalls /\ job[w].of \in Expenses
        /\ job[w].names \subseteq DocumentNames
        /\ \A n \in DocumentNames : n \notin cut
    BY <1>1, UploadsAssumption DEF CallsFit, UploadTypeOK, Directory, CutsAreAttachments
  <1>3. /\ job' \in [Clerks -> Job] /\ job'[w] = Idle
        /\ \A v \in Clerks : v # w => job'[v] = job[v]
    BY <1>1, IdleFits, JobBecomes DEF UploadTypeOK
  <1>4. \A a \in Attachments : Freed(a)' <=> Freed(a)
    BY <1>1, <1>3, IdleFits DEF Freed
  <1>5. UploadTypeOK'
    BY <1>1, <1>2, <1>3 DEF UploadTypeOK, StoreTypeOK, ExpenseStatus
  <1>6. CallsFit' /\ OneLockHolder'
    BY <1>3, IdleFits DEF CallsFit, UploadCalls, OneLockHolder, Locking
  <1>7. NamesHeld'
    BY <1>1, <1>3, IdleFits DEF NamesHeld
  <1>8. DocumentsHaveObjects'
    BY <1>1, <1>2, <1>3, IdleFits DEF DocumentsHaveObjects, NamesHeld
  <1>9. DeletionsKnow'
    <2> SUFFICES ASSUME NEW v \in Clerks, job'[v].call = "delete"
                 PROVE  /\ job'[v].row \in objects'
                        /\ \A u \in Clerks : job'[v].row \notin job'[u].names
                        /\ document'[job'[v].row] \in {job'[v].of, None}
                        /\ job'[v].phase = "locked" =>
                               \E n \in DocumentNames :
                                   n # job'[v].row /\ document'[n] = job'[v].of
      BY DEF DeletionsKnow
    <2>1. /\ job'[v] = job[v] /\ v # w /\ job[v].row \in DocumentNames /\ job[v].of \in Expenses
      BY <1>3, IdleFits DEF CallsFit
    <2>2. /\ job[v].row \in objects
          /\ \A u \in Clerks : job[v].row \notin job[u].names
          /\ document[job[v].row] \in {job[v].of, None}
      BY <2>1 DEF DeletionsKnow
    <2>3. ASSUME job[v].phase = "locked"
          PROVE  \E n \in DocumentNames : n # job[v].row /\ document'[n] = job[v].of
      <3>1. PICK n \in DocumentNames : n # job[v].row /\ document[n] = job[v].of
        BY <2>1, <2>3 DEF DeletionsKnow
      <3>2. n \notin job[w].names
        BY <2>1, <3>1, UploadsAssumption DEF DocumentsHaveObjects
      <3> QED
        BY <1>1, <3>1, <3>2
    <2> QED
      BY <1>1, <1>3, <2>1, <2>2, <2>3, IdleFits
  <1>10. DetachesKnow' /\ AttachmentsFit' /\ CutsAreAttachments'
    BY <1>1, <1>3, IdleFits DEF DetachesKnow, AttachmentsFit, CutsAreAttachments
  <1>11. AttachmentsHaveObjects'
    BY <1>1, <1>3, <1>4, IdleFits DEF AttachmentsHaveObjects, Attached
  <1> QED
    BY <1>5, <1>6, <1>7, <1>8, <1>9, <1>10, <1>11

\* The rows of confirmed attachments take over the objects of their upload.
LEMMA ConfirmAttachKeeps ==
    ASSUME UploadInv, NEW w \in Clerks, ConfirmUpload(w), job[w].call = "attach"
    PROVE  UploadInv'
  <1> USE DEF UploadInv
  <1>1. /\ job[w].phase = "storing"
        /\ job' = [job EXCEPT ![w] = Idle]
        /\ UNCHANGED <<request, expense, document, objects, cut>>
    BY DEF ConfirmUpload, storeVars
  <1>2. PICK new \in [job[w].names -> {a \in Attachments : attachment[a] = NoAttachment}] :
           /\ \A m, n \in job[w].names : new[m] = new[n] => m = n
           /\ attachment' = [a \in Attachments |->
                  IF \E n \in job[w].names : new[n] = a
                    THEN [of   |-> job[w].of,
                          name |-> CHOOSE n \in job[w].names : new[n] = a]
                    ELSE attachment[a]]
    BY DEF ConfirmUpload
  <1>3. job[w].names \subseteq AttachmentNames /\ job[w].of \in Requests
    BY DEF CallsFit, UploadCalls, Directory
  <1>4. ASSUME NEW a \in Attachments
        PROVE  \/ attachment'[a] = attachment[a]
               \/ /\ attachment[a] = NoAttachment
                  /\ \E n \in job[w].names :
                         new[n] = a /\ attachment'[a] = [of |-> job[w].of, name |-> n]
    <2>1. CASE \E n \in job[w].names : new[n] = a
      <3>1. PICK n \in job[w].names : new[n] = a
        BY <2>1
      <3>2. (CHOOSE m \in job[w].names : new[m] = a) = n
        BY <1>2, <3>1
      <3> QED
        BY <1>2, <2>1, <3>1, <3>2
    <2> QED
      BY <1>2, <2>1
  <1>5. \A a \in Attachments :
           \/ attachment'[a] = attachment[a]
           \/ /\ attachment[a] = NoAttachment
              /\ attachment'[a].of \in Requests /\ attachment'[a].name \in job[w].names
              /\ new[attachment'[a].name] = a
    <2> SUFFICES ASSUME NEW a \in Attachments, attachment'[a] # attachment[a]
                 PROVE  /\ attachment[a] = NoAttachment
                        /\ attachment'[a].of \in Requests
                        /\ attachment'[a].name \in job[w].names
                        /\ new[attachment'[a].name] = a
      OBVIOUS
    <2>1. attachment[a] = NoAttachment
      BY <1>4
    <2>2. PICK n \in job[w].names :
              new[n] = a /\ attachment'[a] = [of |-> job[w].of, name |-> n]
      BY <1>4
    <2>3. attachment'[a].of = job[w].of /\ attachment'[a].name = n
      BY <2>2
    <2> QED
      BY <1>3, <2>1, <2>2, <2>3
  <1>6. attachment' \in [Attachments -> AttachmentRow]
    <2>1. ASSUME NEW a \in Attachments PROVE attachment'[a] \in AttachmentRow
      <3>1. CASE attachment'[a] = attachment[a]
        BY <3>1 DEF UploadTypeOK
      <3>2. CASE attachment'[a] # attachment[a]
        <4>1. PICK n \in job[w].names : attachment'[a] = [of |-> job[w].of, name |-> n]
          BY <1>4, <3>2
        <4>2. n \in AttachmentNames
          BY <1>3
        <4> QED
          BY <1>3, <4>1, <4>2 DEF AttachmentRow
      <3> QED
        BY <3>1, <3>2
    <2> QED
      BY <1>2, <2>1
  <1>7. /\ job' \in [Clerks -> Job] /\ job'[w] = Idle
        /\ \A v \in Clerks : v # w => job'[v] = job[v]
    BY <1>1, IdleFits, JobBecomes DEF UploadTypeOK
  <1>8. \A a \in Attachments : Freed(a)' <=> Freed(a)
    BY <1>1, <1>7, IdleFits DEF Freed
  <1>9. UploadTypeOK' /\ CutsAreAttachments'
    BY <1>1, <1>6, <1>7 DEF UploadTypeOK, StoreTypeOK, CutsAreAttachments
  <1>10. CallsFit' /\ OneLockHolder'
    BY <1>7, IdleFits DEF CallsFit, UploadCalls, OneLockHolder, Locking
  <1>11. NamesHeld' /\ DocumentsHaveObjects' /\ DeletionsKnow'
    BY <1>1, <1>7, IdleFits DEF NamesHeld, DocumentsHaveObjects, DeletionsKnow
  <1>12. DetachesKnow'
    BY <1>5, <1>7, IdleFits DEF DetachesKnow, CallsFit
  <1>13. AttachmentsFit'
    BY <1>3, <1>5 DEF AttachmentsFit
  <1>14. AttachmentsHaveObjects'
    <2> SUFFICES ASSUME NEW a \in Attachments, Attached(a)', attachment'[a].name \notin cut
                 PROVE  /\ attachment'[a].name \in objects
                        /\ \A b \in Attachments :
                               Attached(b)' /\ attachment'[b].name = attachment'[a].name => b = a
                        /\ \A v \in Clerks : attachment'[a].name \notin job'[v].names
      BY <1>1 DEF AttachmentsHaveObjects
    <2>1. \A b \in Attachments :
              Attached(b)' /\ attachment'[b] = attachment[b] => Attached(b)
      BY <1>8 DEF Attached
    <2>2. CASE attachment'[a] = attachment[a]
      BY <1>5, <1>7, <2>1, <2>2, IdleFits DEF AttachmentsHaveObjects
    <2>3. CASE attachment'[a] # attachment[a]
      <3>1. attachment'[a].name \in job[w].names /\ new[attachment'[a].name] = a
        BY <1>5, <2>3
      <3>2. /\ attachment'[a].name \in objects
            /\ \A v \in Clerks : attachment'[a].name \notin job'[v].names
        BY <1>7, <3>1, IdleFits DEF NamesHeld
      <3>3. ASSUME NEW b \in Attachments, Attached(b)',
                   attachment'[b].name = attachment'[a].name
            PROVE  b = a
        BY <1>5, <2>1, <3>1, <3>3 DEF AttachmentsHaveObjects
      <3> QED
        BY <3>2, <3>3
    <2> QED
      BY <2>2, <2>3
  <1> QED
    BY <1>9, <1>10, <1>11, <1>12, <1>13, <1>14

LEMMA RaiseKeeps ==
    ASSUME UploadInv, NEW w \in Clerks, Raise(w)
    PROVE  UploadInv'
  <1> USE DEF UploadInv
  <1> DEFINE new == WithPhase(job[w], "raised")
  <1>1. /\ job[w].phase = "storing"
        /\ UNCHANGED <<expense, request, document, attachment, objects, cut>>
    BY DEF Raise, storeVars
  <1>2. job[w] \in Job /\ job[w].call \in UploadCalls
    BY <1>1 DEF CallsFit, UploadTypeOK
  <1>3. /\ new \in Job /\ new.call = job[w].call /\ new.phase = "raised" /\ new.of = job[w].of
        /\ new.left = job[w].left /\ new.names = job[w].names
    BY <1>2, WithPhaseRecord DEF Phase
  <1>4. job' = [job EXCEPT ![w] = new]
    BY DEF Raise, WithPhase
  <1> HIDE DEF new
  <1>5. /\ job' \in [Clerks -> Job] /\ job'[w] = new
        /\ \A v \in Clerks : v # w => job'[v] = job[v]
    BY <1>3, <1>4, JobBecomes DEF UploadTypeOK
  <1>6. \A a \in Attachments : Freed(a)' <=> Freed(a)
    BY <1>1, <1>3, <1>5 DEF Freed
  <1>7. UploadTypeOK' /\ CutsAreAttachments'
    BY <1>1, <1>5 DEF UploadTypeOK, StoreTypeOK, CutsAreAttachments
  <1>8. CallsFit' /\ OneLockHolder'
    BY <1>2, <1>3, <1>5 DEF CallsFit, UploadCalls, OneLockHolder, Locking
  <1>9. NamesHeld' /\ DocumentsHaveObjects'
    BY <1>1, <1>3, <1>5 DEF NamesHeld, DocumentsHaveObjects
  <1>10. DeletionsKnow' /\ DetachesKnow' /\ AttachmentsFit'
    BY <1>1, <1>2, <1>3, <1>5 DEF DeletionsKnow, DetachesKnow, AttachmentsFit, UploadCalls
  <1>11. AttachmentsHaveObjects'
    BY <1>1, <1>3, <1>5, <1>6 DEF AttachmentsHaveObjects, Attached
  <1> QED
    BY <1>7, <1>8, <1>9, <1>10, <1>11

\* The compensation deletes only what belongs to nobody else.
LEMMA CompensateKeeps ==
    ASSUME UploadInv, NEW w \in Clerks, CompensateUpload(w)
    PROVE  UploadInv'
  <1> USE DEF UploadInv
  <1>1. /\ job[w].phase = "raised"
        /\ job' = [job EXCEPT ![w] = Idle]
        /\ UNCHANGED <<expense, request, document, attachment, cut>>
        /\ objects' \subseteq objects
        /\ \A n \in objects : n \notin job[w].names => n \in objects'
    BY DEF CompensateUpload, Compensate
  <1>2. /\ job' \in [Clerks -> Job] /\ job'[w] = Idle
        /\ \A v \in Clerks : v # w => job'[v] = job[v]
    BY <1>1, IdleFits, JobBecomes DEF UploadTypeOK
  <1>3. \A a \in Attachments : Freed(a)' <=> Freed(a)
    BY <1>1, <1>2, IdleFits DEF Freed
  <1>4. UploadTypeOK' /\ CutsAreAttachments'
    BY <1>1, <1>2 DEF UploadTypeOK, StoreTypeOK, CutsAreAttachments
  <1>5. CallsFit' /\ OneLockHolder'
    BY <1>2, IdleFits DEF CallsFit, UploadCalls, OneLockHolder, Locking
  <1>6. NamesHeld' /\ DocumentsHaveObjects'
    BY <1>1, <1>2, IdleFits DEF NamesHeld, DocumentsHaveObjects
  <1>7. DeletionsKnow' /\ DetachesKnow' /\ AttachmentsFit'
    BY <1>1, <1>2, IdleFits DEF DeletionsKnow, DetachesKnow, AttachmentsFit
  <1>8. AttachmentsHaveObjects'
    BY <1>1, <1>2, <1>3, IdleFits DEF AttachmentsHaveObjects, Attached
  <1> QED
    BY <1>4, <1>5, <1>6, <1>7, <1>8

LEMMA ReferKeeps ==
    ASSUME UploadInv, NEW w \in Clerks, NEW n \in DocumentNames, ReferDocument(w, n)
    PROVE  UploadInv'
  <1> USE DEF UploadInv
  <1> DEFINE new == Asked("delete", "waiting", document[n], n)
  <1>1. /\ job[w] = Idle /\ document[n] # None
        /\ UNCHANGED <<expense, request, document, attachment, objects, cut>>
    BY DEF ReferDocument, storeVars
  <1>2. document[n] \in Expenses
    BY <1>1 DEF UploadTypeOK
  <1>3. /\ new \in Job /\ new.call = "delete" /\ new.phase = "waiting" /\ new.of = document[n]
        /\ new.names = {} /\ new.row = n
    BY <1>2, AskedRecord DEF Call, Phase
  <1>4. job' = [job EXCEPT ![w] = new]
    BY DEF ReferDocument, Asked
  <1> HIDE DEF new
  <1>5. /\ job' \in [Clerks -> Job] /\ job'[w] = new
        /\ \A v \in Clerks : v # w => job'[v] = job[v]
    BY <1>3, <1>4, JobBecomes DEF UploadTypeOK
  <1>6. \A a \in Attachments : Freed(a)' <=> Freed(a)
    BY <1>1, <1>3, <1>5, IdleFits DEF Freed
  <1>7. UploadTypeOK' /\ CutsAreAttachments'
    BY <1>1, <1>5 DEF UploadTypeOK, StoreTypeOK, CutsAreAttachments
  <1>8. CallsFit' /\ OneLockHolder'
    BY <1>2, <1>3, <1>5 DEF CallsFit, UploadCalls, OneLockHolder, Locking
  <1>9. NamesHeld' /\ DocumentsHaveObjects'
    BY <1>1, <1>3, <1>5 DEF NamesHeld, DocumentsHaveObjects
  <1>10. DeletionsKnow'
    BY <1>1, <1>3, <1>5, IdleFits DEF DeletionsKnow, DocumentsHaveObjects
  <1>11. DetachesKnow' /\ AttachmentsFit'
    BY <1>1, <1>3, <1>5 DEF DetachesKnow, AttachmentsFit
  <1>12. AttachmentsHaveObjects'
    BY <1>1, <1>3, <1>5, <1>6 DEF AttachmentsHaveObjects, Attached
  <1> QED
    BY <1>7, <1>8, <1>9, <1>10, <1>11, <1>12

\* More than one: another one than any given one.
LEMMA AnotherOne ==
    ASSUME NEW S, Cardinality(S) > 1, NEW x
    PROVE  \E y \in S : y # x
  <1>1. S # {}
    BY FS_EmptySet
  <1>2. S # {x}
    <2>1. Cardinality({x}) = 1
      BY FS_Singleton
    <2> QED
      BY <2>1
  <1> QED
    BY <1>1, <1>2

LEMMA CountKeeps ==
    ASSUME UploadInv, NEW w \in Clerks, CountDocuments(w)
    PROVE  UploadInv'
  <1> USE DEF UploadInv
  <1>1. /\ job[w].phase = "waiting"
        /\ \A v \in Clerks : job[w].of \notin Locks(v)
        /\ UNCHANGED <<expense, request, document, attachment, objects, cut>>
    BY DEF CountDocuments, DeletionLocks, Unlocked, storeVars
  <1>2. /\ job[w] \in Job /\ job[w].call = "delete"
        /\ job[w].of \in Expenses /\ job[w].row \in DocumentNames
    BY <1>1, IdleFits DEF CallsFit, UploadTypeOK, Job, Call, UploadCalls
  <1> DEFINE locked == WithPhase(job[w], "locked")
  <1>3. /\ locked \in Job /\ locked.call = "delete" /\ locked.phase = "locked"
        /\ locked.of = job[w].of /\ locked.names = job[w].names /\ locked.row = job[w].row
    BY <1>2, WithPhaseRecord DEF Phase
  <1>4. PICK new \in {locked, Idle} :
            /\ job' = [job EXCEPT ![w] = new]
            /\ new = locked =>
                   document[job[w].row] # None /\ Cardinality(DocumentsOf(job[w].of)) > 1
    <2>1. CASE /\ document[job[w].row] # None /\ expense[job[w].of] # "annulled"
               /\ Cardinality(DocumentsOf(job[w].of)) > 1
      BY <2>1 DEF CountDocuments, WithPhase
    <2>2. CASE ~ /\ document[job[w].row] # None /\ expense[job[w].of] # "annulled"
                 /\ Cardinality(DocumentsOf(job[w].of)) > 1
      <3>1. job' = [job EXCEPT ![w] = Idle]
        BY <2>2 DEF CountDocuments
      <3>2. Idle # locked
        BY <1>3, IdleFits
      <3> QED
        BY <3>1, <3>2
    <2> QED
      BY <2>1, <2>2
  <1> HIDE DEF locked
  <1>5. /\ new \in Job
        /\ new = Idle \/ (new.call = "delete" /\ new.phase = "locked" /\ new.of = job[w].of
                          /\ new.names = {} /\ new.row = job[w].row)
        /\ new.names = {} /\ new.phase \in {"locked", "idle"} /\ new.call \in {"delete", "none"}
    BY <1>2, <1>3, <1>4, IdleFits DEF CallsFit
  <1>6. /\ job' \in [Clerks -> Job] /\ job'[w] = new
        /\ \A v \in Clerks : v # w => job'[v] = job[v]
    BY <1>4, <1>5, JobBecomes DEF UploadTypeOK
  <1>7. \A a \in Attachments : Freed(a)' <=> Freed(a)
    BY <1>1, <1>5, <1>6 DEF Freed
  <1>8. UploadTypeOK' /\ CutsAreAttachments'
    BY <1>1, <1>6 DEF UploadTypeOK, StoreTypeOK, CutsAreAttachments
  <1>9. CallsFit'
    BY <1>2, <1>5, <1>6, IdleFits DEF CallsFit, UploadCalls
  <1>10. OneLockHolder'
    <2>1. \A v \in Clerks :
              Locking(v) /\ job[v].call = "delete" => job[v].of # job[w].of
      BY <1>1 DEF Locks, DeletionLocks, Locking
    <2> QED
      BY <1>5, <1>6, <2>1, IdleFits DEF OneLockHolder, Locking
  <1>11. NamesHeld' /\ DocumentsHaveObjects'
    BY <1>1, <1>5, <1>6 DEF NamesHeld, DocumentsHaveObjects
  <1>12. DeletionsKnow'
    <2>1. new = locked =>
              \E n \in DocumentNames : n # job[w].row /\ document[n] = job[w].of
      BY <1>4, AnotherOne DEF DocumentsOf
    <2>2. ASSUME NEW v \in Clerks, job'[v].call = "delete"
          PROVE  /\ job'[v].row \in objects
                 /\ \A u \in Clerks : job'[v].row \notin job'[u].names
                 /\ document[job'[v].row] \in {job'[v].of, None}
                 /\ job'[v].phase = "locked" =>
                        \E n \in DocumentNames :
                            n # job'[v].row /\ document[n] = job'[v].of
      <3>1. /\ job[v].call = "delete" /\ job'[v].row = job[v].row /\ job'[v].of = job[v].of
            /\ v = w => new = locked
        BY <1>2, <1>4, <1>5, <1>6, <2>2, IdleFits
      <3>2. /\ job[v].row \in objects
            /\ \A u \in Clerks : job[v].row \notin job'[u].names
            /\ document[job[v].row] \in {job[v].of, None}
        BY <1>5, <1>6, <3>1 DEF DeletionsKnow
      <3>3. CASE v = w
        BY <2>1, <3>1, <3>2, <3>3
      <3>4. CASE v # w
        BY <1>6, <3>1, <3>2, <3>4 DEF DeletionsKnow
      <3> QED
        BY <3>3, <3>4
    <2> QED
      BY <1>1, <2>2 DEF DeletionsKnow
  <1>13. DetachesKnow' /\ AttachmentsFit'
    BY <1>1, <1>5, <1>6 DEF DetachesKnow, AttachmentsFit
  <1>14. AttachmentsHaveObjects'
    BY <1>1, <1>5, <1>6, <1>7 DEF AttachmentsHaveObjects, Attached
  <1> QED
    BY <1>8, <1>9, <1>10, <1>11, <1>12, <1>13, <1>14

LEMMA DeleteKeeps ==
    ASSUME UploadInv, NEW w \in Clerks, DeleteDocument(w)
    PROVE  UploadInv'
  <1> USE DEF UploadInv
  <1>1. /\ job[w].call = "delete" /\ job[w].phase = "locked"
        /\ document' = [document EXCEPT ![job[w].row] = None]
        /\ job' = [job EXCEPT ![w] = Idle]
        /\ UNCHANGED <<expense, request, attachment, objects, cut>>
    BY DEF DeleteDocument, storeVars
  <1>2. /\ job' \in [Clerks -> Job] /\ job'[w] = Idle
        /\ \A v \in Clerks : v # w => job'[v] = job[v]
    BY <1>1, IdleFits, JobBecomes DEF UploadTypeOK
  <1>3. \A a \in Attachments : Freed(a)' <=> Freed(a)
    BY <1>1, <1>2, IdleFits DEF Freed
  <1>4. \A n \in DocumentNames : document'[n] = IF n = job[w].row THEN None ELSE document[n]
    BY <1>1 DEF UploadTypeOK
  <1>5. UploadTypeOK' /\ CutsAreAttachments'
    BY <1>1, <1>2 DEF UploadTypeOK, StoreTypeOK, CutsAreAttachments
  <1>6. CallsFit' /\ OneLockHolder'
    BY <1>2, IdleFits DEF CallsFit, UploadCalls, OneLockHolder, Locking
  <1>7. NamesHeld' /\ DocumentsHaveObjects'
    BY <1>1, <1>2, <1>4, IdleFits DEF NamesHeld, DocumentsHaveObjects
  <1>8. DeletionsKnow'
    <2>1. ASSUME NEW v \in Clerks, job'[v].call = "delete"
          PROVE  /\ job'[v].row \in objects
                 /\ \A u \in Clerks : job'[v].row \notin job'[u].names
                 /\ document'[job'[v].row] \in {job'[v].of, None}
                 /\ job'[v].phase = "locked" =>
                        \E n \in DocumentNames :
                            n # job'[v].row /\ document'[n] = job'[v].of
      <3>1. /\ v # w /\ job'[v] = job[v] /\ job[v].row \in DocumentNames /\ job[v].of \in Expenses
        BY <1>2, <2>1, IdleFits DEF CallsFit
      <3>2. /\ job[v].row \in objects
            /\ \A u \in Clerks : job[v].row \notin job'[u].names
            /\ document[job[v].row] \in {job[v].of, None}
        BY <1>2, <2>1, <3>1, IdleFits DEF DeletionsKnow
      <3>3. ASSUME job[v].phase = "locked"
            PROVE  \E n \in DocumentNames : n # job[v].row /\ document'[n] = job[v].of
        <4>1. PICK n \in DocumentNames : n # job[v].row /\ document[n] = job[v].of
          BY <2>1, <3>1, <3>3 DEF DeletionsKnow
        <4>2. n # job[w].row
          <5>1. document[job[w].row] \in {job[w].of, None}
            BY <1>1 DEF DeletionsKnow
          <5>2. job[v].of # job[w].of
            BY <1>1, <2>1, <3>1, <3>3 DEF OneLockHolder, Locking
          <5> QED
            BY <3>1, <4>1, <5>1, <5>2, UploadsAssumption
        <4> QED
          BY <1>4, <4>1, <4>2
      <3> QED
        BY <1>4, <3>1, <3>2, <3>3
    <2> QED
      BY <1>1, <2>1 DEF DeletionsKnow
  <1>9. DetachesKnow' /\ AttachmentsFit'
    BY <1>1, <1>2, IdleFits DEF DetachesKnow, AttachmentsFit
  <1>10. AttachmentsHaveObjects'
    BY <1>1, <1>2, <1>3, IdleFits DEF AttachmentsHaveObjects, Attached
  <1> QED
    BY <1>5, <1>6, <1>7, <1>8, <1>9, <1>10

LEMMA DetachKeeps ==
    ASSUME UploadInv, NEW w \in Clerks, NEW a \in Attachments, Detach(w, a)
    PROVE  UploadInv'
  <1> USE DEF UploadInv
  <1> DEFINE new == Asked("detach", "locked", attachment[a].of, a)
  <1>1. /\ job[w] = Idle /\ attachment[a] # NoAttachment
        /\ Unlocked(attachment[a].of)
        /\ UNCHANGED <<expense, request, document, attachment, objects, cut>>
    BY DEF Detach, storeVars
  <1>2. attachment[a].of \in Requests
    BY <1>1 DEF AttachmentsFit
  <1>3. /\ new \in Job /\ new.call = "detach" /\ new.phase = "locked" /\ new.of = attachment[a].of
        /\ new.names = {} /\ new.row = a
    BY <1>2, AskedRecord DEF Call, Phase
  <1>4. job' = [job EXCEPT ![w] = new]
    BY DEF Detach, Asked
  <1> HIDE DEF new
  <1>5. /\ job' \in [Clerks -> Job] /\ job'[w] = new
        /\ \A v \in Clerks : v # w => job'[v] = job[v]
    BY <1>3, <1>4, JobBecomes DEF UploadTypeOK
  <1>6. \A b \in Attachments : Freed(b)' <=> Freed(b)
    BY <1>1, <1>3, <1>5, IdleFits DEF Freed
  <1>7. UploadTypeOK' /\ CutsAreAttachments'
    BY <1>1, <1>5 DEF UploadTypeOK, StoreTypeOK, CutsAreAttachments
  <1>8. CallsFit'
    BY <1>2, <1>3, <1>5 DEF CallsFit, UploadCalls
  <1>9. OneLockHolder'
    <2>1. \A v \in Clerks :
              Locking(v) /\ job[v].call = "detach" => job[v].of # attachment[a].of
      BY <1>1 DEF Unlocked, Locks, Locking
    <2> QED
      BY <1>3, <1>5, <2>1 DEF OneLockHolder, Locking
  <1>10. NamesHeld' /\ DocumentsHaveObjects'
    BY <1>1, <1>3, <1>5 DEF NamesHeld, DocumentsHaveObjects
  <1>11. DeletionsKnow' /\ DetachesKnow' /\ AttachmentsFit'
    BY <1>1, <1>3, <1>5 DEF DeletionsKnow, DetachesKnow, AttachmentsFit
  <1>12. AttachmentsHaveObjects'
    BY <1>1, <1>3, <1>5, <1>6 DEF AttachmentsHaveObjects, Attached
  <1> QED
    BY <1>7, <1>8, <1>9, <1>10, <1>11, <1>12

\* While its row is locked, the name of an attachment is nobody else's, unless an
\* earlier deletion had freed it.
LEMMA LockedRow ==
    ASSUME UploadInv, NEW w \in Clerks, job[w].call = "detach"
    PROVE  /\ job[w].row \in Attachments
           /\ attachment[job[w].row] # NoAttachment
           /\ attachment[job[w].row].name \in AttachmentNames
           /\ \A v \in Clerks :
                  job[v].call = "detach" /\ job[v].row = job[w].row => v = w
  <1> USE DEF UploadInv
  <1>1. job[w].row \in Attachments /\ attachment[job[w].row] # NoAttachment
    BY DEF CallsFit, DetachesKnow
  <1>2. ASSUME NEW v \in Clerks, job[v].call = "detach", job[v].row = job[w].row
        PROVE  v = w
    <2>1. job[v].of = job[w].of
      BY <1>2 DEF DetachesKnow
    <2> QED
      BY <1>2, <2>1 DEF OneLockHolder, Locking, CallsFit
  <1> QED
    BY <1>1, <1>2 DEF AttachmentsFit

LEMMA FreeKeeps ==
    ASSUME UploadInv, NEW w \in Clerks, FreeObject(w)
    PROVE  UploadInv'
  <1> USE DEF UploadInv
  <1> DEFINE new  == WithPhase(job[w], "freed")
             row  == job[w].row
             name == attachment[row].name
  <1>1. /\ job[w].call = "detach" /\ job[w].phase = "locked"
        /\ objects' \subseteq objects
        /\ \A n \in objects : n # name => n \in objects'
        /\ UNCHANGED <<expense, request, document, attachment, cut>>
    BY DEF FreeObject, Compensate
  <1>2. job[w] \in Job
    BY DEF UploadTypeOK
  <1>3. /\ new \in Job /\ new.call = job[w].call /\ new.phase = "freed" /\ new.of = job[w].of
        /\ new.names = job[w].names /\ new.row = job[w].row
    BY <1>2, WithPhaseRecord DEF Phase
  <1>4. job' = [job EXCEPT ![w] = new]
    BY DEF FreeObject, WithPhase
  <1> HIDE DEF new
  <1>5. /\ job' \in [Clerks -> Job] /\ job'[w] = new
        /\ \A v \in Clerks : v # w => job'[v] = job[v]
    BY <1>3, <1>4, JobBecomes DEF UploadTypeOK
  <1>6. /\ row \in Attachments /\ attachment[row] # NoAttachment /\ name \in AttachmentNames
        /\ ~Freed(row)
    <2>1. \A v \in Clerks : job[v].phase = "freed" => job[v].call = "detach"
      BY IdleFits DEF CallsFit, UploadTypeOK, Job, Call, UploadCalls
    <2> QED
      BY <1>1, <2>1, LockedRow DEF Freed
  <1>7. \A a \in Attachments : Freed(a)' <=> Freed(a) \/ a = row
    BY <1>1, <1>3, <1>5 DEF Freed
  <1>8. name \notin cut =>
            /\ \A v \in Clerks : name \notin job[v].names
            /\ \A b \in Attachments : Attached(b) /\ attachment[b].name = name => b = row
    BY <1>6 DEF AttachmentsHaveObjects, Attached
  <1>9. name \notin DocumentNames
    BY <1>6, UploadsAssumption
  <1> HIDE DEF name, row
  <1>10. UploadTypeOK' /\ CutsAreAttachments'
    BY <1>1, <1>5 DEF UploadTypeOK, StoreTypeOK, CutsAreAttachments
  <1>11. CallsFit' /\ OneLockHolder'
    BY <1>1, <1>3, <1>5 DEF CallsFit, UploadCalls, OneLockHolder, Locking
  <1>12. NamesHeld'
    BY <1>1, <1>3, <1>5, <1>8 DEF NamesHeld
  <1>13. DocumentsHaveObjects'
    BY <1>1, <1>3, <1>5, <1>9 DEF DocumentsHaveObjects
  <1>14. DeletionsKnow' /\ DetachesKnow' /\ AttachmentsFit'
    BY <1>1, <1>3, <1>5, <1>9 DEF DeletionsKnow, DetachesKnow, AttachmentsFit, CallsFit
  <1>15. AttachmentsHaveObjects'
    BY <1>1, <1>3, <1>5, <1>7, <1>8 DEF AttachmentsHaveObjects, Attached
  <1> QED
    BY <1>10, <1>11, <1>12, <1>13, <1>14, <1>15

LEMMA CommitKeeps ==
    ASSUME UploadInv, NEW w \in Clerks, CommitDetach(w)
    PROVE  UploadInv'
  <1> USE DEF UploadInv
  <1>1. /\ job[w].phase = "freed"
        /\ attachment' = [attachment EXCEPT ![job[w].row] = NoAttachment]
        /\ job' = [job EXCEPT ![w] = Idle]
        /\ UNCHANGED <<expense, request, document, objects, cut>>
    BY DEF CommitDetach, storeVars
  <1>2. job[w].call = "detach"
    BY <1>1, IdleFits DEF CallsFit, UploadTypeOK, Job, Call, UploadCalls
  <1>3. /\ job' \in [Clerks -> Job] /\ job'[w] = Idle
        /\ \A v \in Clerks : v # w => job'[v] = job[v]
    BY <1>1, IdleFits, JobBecomes DEF UploadTypeOK
  <1>4. \A a \in Attachments :
            attachment'[a] = IF a = job[w].row THEN NoAttachment ELSE attachment[a]
    BY <1>1 DEF UploadTypeOK
  <1>5. \A a \in Attachments : Attached(a)' <=> Attached(a)
    BY <1>1, <1>3, <1>4, IdleFits DEF Attached, Freed
  <1>6. attachment' \in [Attachments -> AttachmentRow]
    BY <1>1 DEF UploadTypeOK, AttachmentRow, NoAttachment
  <1>7. UploadTypeOK' /\ CutsAreAttachments'
    BY <1>1, <1>3, <1>6 DEF UploadTypeOK, StoreTypeOK, CutsAreAttachments
  <1>8. CallsFit' /\ OneLockHolder'
    BY <1>3, IdleFits DEF CallsFit, UploadCalls, OneLockHolder, Locking
  <1>9. NamesHeld' /\ DocumentsHaveObjects' /\ DeletionsKnow'
    BY <1>1, <1>3, IdleFits DEF NamesHeld, DocumentsHaveObjects, DeletionsKnow
  <1>10. DetachesKnow'
    BY <1>2, <1>3, <1>4, LockedRow, IdleFits DEF DetachesKnow, CallsFit
  <1>11. AttachmentsFit'
    BY <1>4 DEF AttachmentsFit
  <1>12. AttachmentsHaveObjects'
    <2>1. \A a \in Attachments : Attached(a) => a # job[w].row
      BY <1>1 DEF Attached, Freed
    <2> QED
      BY <1>1, <1>3, <1>4, <1>5, <2>1, IdleFits DEF AttachmentsHaveObjects
  <1> QED
    BY <1>7, <1>8, <1>9, <1>10, <1>11, <1>12

\* Whoever dies leaves no more than objects of no row, and the name of an
\* attachment whose deletion it had not committed.
LEMMA DieKeeps ==
    ASSUME UploadInv, NEW w \in Clerks, Die(w)
    PROVE  UploadInv'
  <1> USE DEF UploadInv
  <1>1. /\ job[w] # Idle
        /\ cut' = IF job[w].phase = "freed" THEN cut \cup {attachment[job[w].row].name} ELSE cut
        /\ job' = [job EXCEPT ![w] = Idle]
        /\ UNCHANGED <<expense, request, document, attachment, objects>>
    BY DEF Die
  <1>2. /\ job' \in [Clerks -> Job] /\ job'[w] = Idle
        /\ \A v \in Clerks : v # w => job'[v] = job[v]
    BY <1>1, IdleFits, JobBecomes DEF UploadTypeOK
  <1>3. /\ cut \subseteq cut'
        /\ cut' \subseteq AttachmentNames
        /\ \A a \in Attachments : Attached(a)' /\ ~Attached(a) => attachment[a].name \in cut'
    <2>1. job[w].phase = "freed" => job[w].call = "detach"
      BY IdleFits DEF CallsFit, UploadTypeOK, Job, Call, UploadCalls
    <2>2. job[w].phase = "freed" => attachment[job[w].row].name \in AttachmentNames
      BY <2>1, LockedRow
    <2>3. ASSUME NEW a \in Attachments, Attached(a)', ~Attached(a)
          PROVE  attachment[a].name \in cut'
      <3>1. PICK v \in Clerks : job[v].phase = "freed" /\ job[v].row = a
        BY <1>1, <2>3 DEF Attached, Freed
      <3>2. ~(job'[v].phase = "freed" /\ job'[v].row = a)
        BY <2>3, <3>1 DEF Attached, Freed
      <3>3. v = w
        BY <1>2, <3>1, <3>2
      <3> QED
        BY <1>1, <3>1, <3>3
    <2> QED
      BY <1>1, <2>2, <2>3 DEF CutsAreAttachments
  <1>4. UploadTypeOK' /\ CutsAreAttachments'
    BY <1>1, <1>2, <1>3, UploadsAssumption DEF UploadTypeOK, StoreTypeOK, CutsAreAttachments
  <1>5. CallsFit' /\ OneLockHolder'
    BY <1>2, IdleFits DEF CallsFit, UploadCalls, OneLockHolder, Locking
  <1>6. NamesHeld' /\ DocumentsHaveObjects' /\ DeletionsKnow'
    BY <1>1, <1>2, <1>3, IdleFits DEF NamesHeld, DocumentsHaveObjects, DeletionsKnow
  <1>7. DetachesKnow' /\ AttachmentsFit'
    BY <1>1, <1>2, IdleFits DEF DetachesKnow, AttachmentsFit
  <1>8. AttachmentsHaveObjects'
    <2>1. ASSUME NEW a \in Attachments, Attached(a)', attachment'[a].name \notin cut'
          PROVE  Attached(a) /\ attachment[a].name \notin cut
      BY <1>1, <1>3, <2>1
    <2> QED
      BY <1>1, <1>2, <2>1, IdleFits DEF AttachmentsHaveObjects
  <1> QED
    BY <1>4, <1>5, <1>6, <1>7, <1>8

\* What happens to objects of other kinds, and to statuses, does not matter.
LEMMA UploadFrame ==
    ASSUME UploadInv, UNCHANGED <<document, attachment, job, cut>>, objects' \subseteq Names,
           expense' \in [Expenses -> ExpenseStatus], request' \in [Requests -> RequestStatus],
           \A n \in DocumentNames \cup AttachmentNames : n \in objects' <=> n \in objects
    PROVE  UploadInv'
  <1> USE DEF UploadInv
  <1>1. \A w \in Clerks : job[w].names \subseteq DocumentNames \cup AttachmentNames
    BY IdleFits DEF CallsFit, UploadTypeOK, Job, Call, UploadCalls, Directory
  <1>2. UploadTypeOK' /\ CutsAreAttachments' /\ CallsFit' /\ OneLockHolder'
    BY DEF UploadTypeOK, StoreTypeOK, CutsAreAttachments, CallsFit, OneLockHolder, Locking
  <1>3. NamesHeld'
    BY <1>1 DEF NamesHeld
  <1>4. DocumentsHaveObjects' /\ DeletionsKnow'
    BY DEF DocumentsHaveObjects, DeletionsKnow, CallsFit
  <1>5. DetachesKnow' /\ AttachmentsFit'
    BY DEF DetachesKnow, AttachmentsFit
  <1>6. AttachmentsHaveObjects'
    BY DEF AttachmentsHaveObjects, AttachmentsFit, Attached, Freed
  <1> QED
    BY <1>2, <1>3, <1>4, <1>5, <1>6

LEMMA UploadKeeps ==
    ASSUME UploadInv, UploadStep
    PROVE  UploadInv'
  <1>1. ASSUME NEW w \in Clerks, ConfirmUpload(w) PROVE UploadInv'
    BY <1>1, ConfirmExpenseKeeps, ConfirmAttachKeeps
  <1>2. ASSUME NEW e \in Expenses, AnnulExpense(e) PROVE UploadInv'
    <2>1. /\ UNCHANGED <<request, document, attachment, job, objects, cut>>
          /\ expense' = [expense EXCEPT ![e] = "annulled"]
      BY <1>2 DEF AnnulExpense, storeVars
    <2> QED
      BY <2>1, UploadFrame DEF UploadInv, UploadTypeOK, StoreTypeOK, ExpenseStatus
  <1>3. ASSUME NEW r \in Requests, DecideRequest(r) PROVE UploadInv'
    <2>1. /\ UNCHANGED <<expense, document, attachment, job, objects, cut>>
          /\ request' = [request EXCEPT ![r] = "decided"]
      BY <1>3 DEF DecideRequest, storeVars
    <2> QED
      BY <2>1, UploadFrame DEF UploadInv, UploadTypeOK, StoreTypeOK, RequestStatus
  <1> QED
    BY <1>1, <1>2, <1>3, BeginKeeps, StoreFileKeeps, RaiseKeeps, CompensateKeeps, DieKeeps,
       ReferKeeps, CountKeeps, DeleteKeeps, DetachKeeps, FreeKeeps, CommitKeeps
       DEF UploadStep

\* An upload touches no object of the integration, and a cut stays one.
LEMMA UploadLeavesTokens ==
    ASSUME UploadInv, UploadStep
    PROVE  /\ \A t \in Tokens : t \in objects' <=> t \in objects
           /\ cut \subseteq cut'
  <1> USE DEF UploadInv
  <1> DEFINE Goal == /\ \A t \in Tokens : t \in objects' <=> t \in objects
                     /\ cut \subseteq cut'
  <1>1. ASSUME UNCHANGED storeVars PROVE Goal
    BY <1>1 DEF storeVars
  <1>2. ASSUME NEW w \in Clerks, StoreFile(w) PROVE Goal
    BY <1>2, StorageAssumption DEF StoreFile, Save, Directory
  <1>3. ASSUME NEW w \in Clerks, CompensateUpload(w) PROVE Goal
    <2>1. job[w].names \subseteq DocumentNames \cup AttachmentNames
      BY IdleFits DEF CallsFit, UploadTypeOK, Job, Call, UploadCalls, Directory
    <2> QED
      BY <1>3, <2>1, StorageAssumption DEF CompensateUpload, Compensate
  <1>4. ASSUME NEW w \in Clerks, FreeObject(w) PROVE Goal
    <2>1. attachment[job[w].row].name \in AttachmentNames
      BY <1>4, LockedRow DEF FreeObject
    <2> QED
      BY <1>4, <2>1, StorageAssumption DEF FreeObject, Compensate
  <1>5. ASSUME NEW w \in Clerks, Die(w) PROVE Goal
    BY <1>5 DEF Die
  <1> HIDE DEF Goal
  <1>6. ASSUME NEW w \in Clerks,
               \/ BeginUpload(w) \/ ConfirmUpload(w) \/ Raise(w) \/ CountDocuments(w)
               \/ DeleteDocument(w) \/ CommitDetach(w)
               \/ \E n \in DocumentNames : ReferDocument(w, n)
               \/ \E a \in Attachments : Detach(w, a)
        PROVE  UNCHANGED storeVars
    BY <1>6 DEF BeginUpload, Begin, ConfirmUpload, Raise, CountDocuments, DeleteDocument,
                CommitDetach, ReferDocument, Detach
  <1>7. Goal
    BY <1>1, <1>2, <1>3, <1>4, <1>5, <1>6 DEF UploadStep, AnnulExpense, DecideRequest
  <1> QED
    BY <1>7 DEF Goal

\* Only the first upload of an expense makes it, and the deletions of documents
\* that pass have found another one.
LEMMA DocumentsStay ==
    ASSUME UploadInv, ExpenseKeepsDocument, UploadStep
    PROVE  ExpenseKeepsDocument'
  <1> USE DEF UploadInv
  <1> SUFFICES ASSUME NEW e \in Expenses, expense'[e] # "absent"
               PROVE  \E n \in DocumentNames : document'[n] = e
    BY DEF ExpenseKeepsDocument, DocumentsOf
  <1>1. expense[e] # "absent" => \E n \in DocumentNames : document[n] = e
    BY DEF ExpenseKeepsDocument, DocumentsOf
  <1>2. ASSUME NEW w \in Clerks, ConfirmUpload(w), job[w].call # "attach"
        PROVE  \E n \in DocumentNames : document'[n] = e
    <2>1. /\ job[w].phase = "storing" /\ job[w].left = 0
          /\ document' = [n \in DocumentNames |->
                             IF n \in job[w].names THEN job[w].of ELSE document[n]]
          /\ expense' = [expense EXCEPT ![job[w].of] = IF @ = "absent" THEN "registered" ELSE @]
      BY <1>2 DEF ConfirmUpload
    <2>2. /\ job[w].names # {} /\ job[w].names \subseteq DocumentNames
          /\ job[w].of \in Expenses
      BY <1>2, <2>1 DEF CallsFit, Directory
    <2>3. CASE e = job[w].of
      BY <2>1, <2>2, <2>3
    <2>4. CASE e # job[w].of
      <3>1. PICK n \in DocumentNames : document[n] = e
        BY <1>1, <2>1, <2>2, <2>4 DEF UploadTypeOK
      <3>2. n \notin job[w].names
        BY <3>1, UploadsAssumption DEF DocumentsHaveObjects
      <3> QED
        BY <2>1, <3>1, <3>2
    <2> QED
      BY <2>3, <2>4
  <1>3. ASSUME NEW w \in Clerks, DeleteDocument(w)
        PROVE  \E n \in DocumentNames : document'[n] = e
    <2>1. /\ job[w].call = "delete" /\ job[w].phase = "locked"
          /\ document' = [document EXCEPT ![job[w].row] = None] /\ expense' = expense
      BY <1>3 DEF DeleteDocument
    <2>2. PICK n \in DocumentNames : document[n] = e
      BY <1>1, <2>1
    <2>3. PICK m \in DocumentNames : m # job[w].row /\ document[m] = job[w].of
      BY <2>1 DEF DeletionsKnow
    <2>4. n = job[w].row => job[w].of = e
      BY <2>1, <2>2, UploadsAssumption DEF DeletionsKnow
    <2> QED
      BY <2>1, <2>2, <2>3, <2>4 DEF UploadTypeOK
  <1>4. ASSUME NEW x \in Expenses, AnnulExpense(x)
        PROVE  \E n \in DocumentNames : document'[n] = e
    BY <1>1, <1>4 DEF AnnulExpense, UploadTypeOK
  <1>5. ASSUME UNCHANGED <<expense, document>>
        PROVE  \E n \in DocumentNames : document'[n] = e
    BY <1>1, <1>5
  <1>6. ASSUME NEW w \in Clerks, ConfirmUpload(w), job[w].call = "attach"
        PROVE  UNCHANGED <<expense, document>>
    BY <1>6 DEF ConfirmUpload
  <1>7. ASSUME NEW w \in Clerks,
               \/ BeginUpload(w) \/ StoreFile(w) \/ Raise(w) \/ CompensateUpload(w) \/ Die(w)
               \/ CountDocuments(w) \/ FreeObject(w) \/ CommitDetach(w)
               \/ \E n \in DocumentNames : ReferDocument(w, n)
               \/ \E a \in Attachments : Detach(w, a)
        PROVE  UNCHANGED <<expense, document>>
    BY <1>7 DEF BeginUpload, Begin, StoreFile, Raise, CompensateUpload, Die, CountDocuments,
                FreeObject, CommitDetach, ReferDocument, Detach
  <1>8. ASSUME NEW r \in Requests, DecideRequest(r)
        PROVE  UNCHANGED <<expense, document>>
    BY <1>8 DEF DecideRequest
  <1> QED
    BY <1>2, <1>3, <1>4, <1>5, <1>6, <1>7, <1>8 DEF UploadStep

-------------------------------------------------------------------------------
(* Steps of the downloads.                                                 *)

Settled(row, status, token) == [row EXCEPT !.status = status, !.token = token]

LEMMA SettledRecord ==
    ASSUME NEW row \in EvidenceRow, NEW status \in EvidenceStatus,
           NEW token \in Tokens \cup {None}
    PROVE  LET new == Settled(row, status, token) IN
           /\ new \in EvidenceRow /\ new.file = row.file
           /\ new.status = status /\ new.token = token
  BY DEF Settled, EvidenceRow

LEMMA DownloadBecomes ==
    ASSUME KoboTypeOK, NEW v \in Downloaders, NEW new \in Download,
           download' = [download EXCEPT ![v] = new]
    PROVE  /\ download' \in [Downloaders -> Download] /\ download'[v] = new
           /\ \A u \in Downloaders : u # v => download'[u] = download[u]
  BY DEF KoboTypeOK

LEMMA EvidenceBecomes ==
    ASSUME KoboTypeOK, NEW a \in Evidence, NEW new \in EvidenceRow,
           evidence' = [evidence EXCEPT ![a] = new]
    PROVE  /\ evidence' \in [Evidence -> EvidenceRow] /\ evidence'[a] = new
           /\ \A b \in Evidence : b # a => evidence'[b] = evidence[b]
  BY DEF KoboTypeOK

LEMMA NoDownloadFits ==
    /\ NoDownload \in Download
    /\ NoDownload.row = None /\ NoDownload.token = None /\ NoDownload.stored = FALSE
  BY DEF NoDownload, Download

\* A worker that has stored an object has the token that names it.
LEMMA ClaimHasToken ==
    ASSUME KoboInv, NEW v \in Downloaders, download[v].row # None \/ download[v].stored
    PROVE  download[v].row \in Evidence /\ download[v].token \in Tokens
  BY NoDownloadFits DEF KoboInv, KoboTypeOK, ClaimsFit, Download

LEMMA ClaimKeeps ==
    ASSUME KoboInv, NEW v \in Downloaders, NEW a \in Evidence, Claim(v, a)
    PROVE  KoboInv'
  <1> USE DEF KoboInv
  <1>1. PICK t \in Tokens :
           /\ Fresh(t)
           /\ evidence' = [evidence EXCEPT ![a].status = "processing", ![a].token = t]
           /\ download' = [download EXCEPT ![v] = [row |-> a, token |-> t, stored |-> FALSE]]
    BY DEF Claim
  <1> DEFINE new == Settled(evidence[a], "processing", t)
             d   == [row |-> a, token |-> t, stored |-> FALSE]
  <1>2. new \in EvidenceRow /\ new.file = evidence[a].file
    BY SettledRecord DEF KoboTypeOK, EvidenceStatus
  <1>3. evidence' = [evidence EXCEPT ![a] = new] /\ download' = [download EXCEPT ![v] = d]
    BY <1>1, Zenon DEF Settled
  <1>4. UNCHANGED <<objects, cut>>
    BY DEF Claim, storeVars
  <1>5. d \in Download /\ d.row = a /\ d.token = t /\ d.stored = FALSE
    BY DEF Download
  <1> HIDE DEF new, d
  <1>6. /\ download' \in [Downloaders -> Download] /\ download'[v] = d
        /\ \A u \in Downloaders : u # v => download'[u] = download[u]
    BY <1>3, <1>5, DownloadBecomes
  <1>7. /\ evidence' \in [Evidence -> EvidenceRow]
        /\ \A b \in Evidence : evidence'[b].file = evidence[b].file
    BY <1>2, <1>3, EvidenceBecomes
  <1>8. /\ t # None /\ a # None /\ t \notin objects
        /\ \A u \in Downloaders : download[u].token # t
    BY <1>1, ClaimsAssumption DEF Fresh
  <1>9. KoboTypeOK'
    BY <1>6, <1>7 DEF KoboTypeOK
  <1>10. ClaimsFit'
    BY <1>4, <1>5, <1>6, <1>8 DEF ClaimsFit
  <1>11. EvidenceHasObjects'
    BY <1>4, <1>5, <1>6, <1>7, <1>8 DEF EvidenceHasObjects
  <1> QED
    BY <1>9, <1>10, <1>11

LEMMA SettleKeeps ==
    ASSUME KoboInv, NEW v \in Downloaders, NEW status \in EvidenceStatus, SettleFailure(v, status)
    PROVE  KoboInv'
  <1> USE DEF KoboInv
  <1>1. /\ download[v].row # None
        /\ download' = [download EXCEPT ![v] = NoDownload]
        /\ UNCHANGED <<objects, cut>>
    BY DEF SettleFailure, storeVars
  <1>2. download[v].row \in Evidence
    BY <1>1, ClaimHasToken
  <1> DEFINE a   == download[v].row
             new == Settled(evidence[a], status, None)
  <1>3. new \in EvidenceRow /\ new.file = evidence[a].file
    BY <1>2, SettledRecord DEF KoboTypeOK
  <1>4. evidence' = evidence \/ evidence' = [evidence EXCEPT ![a] = new]
    BY DEF SettleFailure, Settled
  <1> HIDE DEF a, new
  <1>5. /\ download' \in [Downloaders -> Download] /\ download'[v] = NoDownload
        /\ \A u \in Downloaders : u # v => download'[u] = download[u]
    BY <1>1, NoDownloadFits, DownloadBecomes
  <1>6. /\ evidence' \in [Evidence -> EvidenceRow]
        /\ \A b \in Evidence : evidence'[b].file = evidence[b].file
    <2>1. CASE evidence' = evidence
      BY <2>1 DEF KoboTypeOK
    <2>2. CASE evidence' = [evidence EXCEPT ![a] = new]
      BY <1>2, <1>3, <2>2, EvidenceBecomes DEF a
    <2> QED
      BY <1>4, <2>1, <2>2
  <1>7. KoboTypeOK'
    BY <1>5, <1>6 DEF KoboTypeOK
  <1>8. ClaimsFit'
    BY <1>1, <1>5, NoDownloadFits DEF ClaimsFit
  <1>9. EvidenceHasObjects'
    BY <1>1, <1>5, <1>6, NoDownloadFits DEF EvidenceHasObjects
  <1> QED
    BY <1>7, <1>8, <1>9

WithObject(d) == [d EXCEPT !.stored = TRUE]

LEMMA StoreDownloadKeeps ==
    ASSUME KoboInv, NEW v \in Downloaders, StoreDownload(v)
    PROVE  KoboInv'
  <1> USE DEF KoboInv
  <1> DEFINE new == WithObject(download[v])
  <1>1. /\ download[v].row # None
        /\ objects' = objects \cup {download[v].token}
        /\ UNCHANGED <<evidence, cut>>
    BY DEF StoreDownload, Save
  <1>2. download' = [download EXCEPT ![v] = new]
    BY DEF StoreDownload, WithObject
  <1>3. download[v] \in Download
    BY DEF KoboTypeOK
  <1>4. /\ new \in Download /\ new.row = download[v].row /\ new.token = download[v].token
    BY <1>3 DEF WithObject, Download
  <1> HIDE DEF new
  <1>5. /\ download' \in [Downloaders -> Download] /\ download'[v] = new
        /\ \A u \in Downloaders : u # v => download'[u] = download[u]
    BY <1>2, <1>4, DownloadBecomes
  <1>6. KoboTypeOK'
    BY <1>1, <1>5 DEF KoboTypeOK
  <1>7. ClaimsFit'
    BY <1>1, <1>4, <1>5 DEF ClaimsFit
  <1>8. EvidenceHasObjects'
    BY <1>1, <1>4, <1>5 DEF EvidenceHasObjects
  <1> QED
    BY <1>6, <1>7, <1>8

\* The row takes over the object of its owner.
LEMMA ConfirmDownloadKeeps ==
    ASSUME KoboInv, NEW v \in Downloaders, ConfirmDownload(v)
    PROVE  KoboInv'
  <1> USE DEF KoboInv
  <1> DEFINE new == [status |-> "downloaded", token |-> None, file |-> download[v].token]
  <1>1. /\ download[v].stored
        /\ evidence' = [evidence EXCEPT ![download[v].row] = new]
        /\ download' = [download EXCEPT ![v] = NoDownload]
        /\ UNCHANGED <<objects, cut>>
    BY DEF ConfirmDownload, storeVars
  <1>2. download[v].row \in Evidence /\ download[v].token \in Tokens /\ download[v].token # None
    BY <1>1, ClaimHasToken, ClaimsAssumption
  <1>3. new \in EvidenceRow /\ new.file = download[v].token
    BY <1>2 DEF EvidenceRow, EvidenceStatus
  <1> HIDE DEF new
  <1>4. /\ download' \in [Downloaders -> Download] /\ download'[v] = NoDownload
        /\ \A u \in Downloaders : u # v => download'[u] = download[u]
    BY <1>1, NoDownloadFits, DownloadBecomes
  <1>5. /\ evidence' \in [Evidence -> EvidenceRow] /\ evidence'[download[v].row] = new
        /\ \A b \in Evidence : b # download[v].row => evidence'[b] = evidence[b]
    BY <1>1, <1>2, <1>3, EvidenceBecomes
  <1>6. KoboTypeOK'
    BY <1>4, <1>5 DEF KoboTypeOK
  <1>7. ClaimsFit'
    BY <1>1, <1>4, NoDownloadFits DEF ClaimsFit
  <1>8. EvidenceHasObjects'
    BY <1>1, <1>2, <1>3, <1>4, <1>5, NoDownloadFits DEF EvidenceHasObjects, ClaimsFit
  <1> QED
    BY <1>6, <1>7, <1>8

LEMMA CompensateDownloadKeeps ==
    ASSUME KoboInv, NEW v \in Downloaders, CompensateDownload(v)
    PROVE  KoboInv'
  <1> USE DEF KoboInv
  <1>1. /\ download[v].stored
        /\ \A n \in objects : n # download[v].token => n \in objects'
        /\ download' = [download EXCEPT ![v] = NoDownload]
        /\ UNCHANGED <<evidence, cut>>
    BY DEF CompensateDownload, Compensate, Leftover
  <1>2. download[v].token \in Tokens /\ download[v].token # None
    BY <1>1, ClaimHasToken, ClaimsAssumption
  <1>3. /\ download' \in [Downloaders -> Download] /\ download'[v] = NoDownload
        /\ \A u \in Downloaders : u # v => download'[u] = download[u]
    BY <1>1, NoDownloadFits, DownloadBecomes
  <1>4. KoboTypeOK'
    BY <1>1, <1>3 DEF KoboTypeOK
  <1>5. ClaimsFit'
    BY <1>1, <1>2, <1>3, NoDownloadFits DEF ClaimsFit
  <1>6. EvidenceHasObjects'
    BY <1>1, <1>3, NoDownloadFits DEF EvidenceHasObjects
  <1> QED
    BY <1>4, <1>5, <1>6

LEMMA DieDownloadingKeeps ==
    ASSUME KoboInv, NEW v \in Downloaders, DieDownloading(v)
    PROVE  KoboInv'
  <1> USE DEF KoboInv
  <1>1. /\ download' = [download EXCEPT ![v] = NoDownload]
        /\ UNCHANGED <<evidence, objects, cut>>
    BY DEF DieDownloading, storeVars
  <1>2. /\ download' \in [Downloaders -> Download] /\ download'[v] = NoDownload
        /\ \A u \in Downloaders : u # v => download'[u] = download[u]
    BY <1>1, NoDownloadFits, DownloadBecomes
  <1>3. KoboTypeOK' /\ ClaimsFit' /\ EvidenceHasObjects'
    BY <1>1, <1>2, NoDownloadFits DEF KoboTypeOK, ClaimsFit, EvidenceHasObjects
  <1> QED
    BY <1>3

LEMMA KoboKeeps ==
    ASSUME KoboInv, KoboStep
    PROVE  KoboInv'
  BY ClaimKeeps, SettleKeeps, StoreDownloadKeeps, ConfirmDownloadKeeps,
     CompensateDownloadKeeps, DieDownloadingKeeps
     DEF KoboStep, EvidenceStatus

\* A download touches no object of an upload.
LEMMA KoboLeavesUploads ==
    ASSUME KoboInv, KoboStep
    PROVE  /\ \A n \in DocumentNames \cup AttachmentNames : n \in objects' <=> n \in objects
           /\ objects \subseteq Names => objects' \subseteq Names
           /\ cut' = cut
  <1> DEFINE Goal == /\ \A n \in DocumentNames \cup AttachmentNames :
                            n \in objects' <=> n \in objects
                     /\ objects \subseteq Names => objects' \subseteq Names
                     /\ cut' = cut
  <1>1. ASSUME UNCHANGED storeVars PROVE Goal
    BY <1>1 DEF storeVars
  <1>2. ASSUME NEW v \in Downloaders, StoreDownload(v) PROVE Goal
    <2>1. download[v].token \in Tokens
      BY <1>2, ClaimHasToken DEF StoreDownload
    <2> QED
      BY <1>2, <2>1, ClaimsAssumption, StorageAssumption DEF StoreDownload, Save
  <1>3. ASSUME NEW v \in Downloaders, CompensateDownload(v) PROVE Goal
    <2>1. download[v].token \in Tokens
      BY <1>3, ClaimHasToken DEF CompensateDownload
    <2> QED
      BY <1>3, <2>1, StorageAssumption DEF CompensateDownload, Compensate, Leftover
  <1> HIDE DEF Goal
  <1>4. ASSUME NEW v \in Downloaders,
               \/ \E a \in Evidence : Claim(v, a)
               \/ SettleFailure(v, "invalid") \/ SettleFailure(v, "failed")
               \/ ConfirmDownload(v) \/ DieDownloading(v)
        PROVE  UNCHANGED storeVars
    BY <1>4 DEF Claim, SettleFailure, ConfirmDownload, DieDownloading
  <1>5. Goal
    BY <1>1, <1>2, <1>3, <1>4 DEF KoboStep
  <1> QED
    BY <1>5 DEF Goal

-------------------------------------------------------------------------------
(* Rows and their objects.                                                 *)

\* A row that is not being deleted has its object, or an earlier deletion that was
\* not committed took it.
LEMMA RowsHold ==
    ASSUME UploadInv, KoboInv
    PROVE  RowsHaveTheirObject
  <1> USE DEF UploadInv, KoboInv
  <1>1. \A a \in Attachments : Freed(a) => attachment[a].name \in BeingFreed
    BY DEF Freed, BeingFreed
  <1>2. ASSUME NEW a \in Attachments, attachment[a].name # None
        PROVE  attachment[a].name \in objects \cup cut \cup BeingFreed
    BY <1>1, <1>2 DEF AttachmentsHaveObjects, Attached, NoAttachment
  <1>3. References \subseteq objects \cup cut \cup BeingFreed
    BY <1>2 DEF References, DocumentsHaveObjects, EvidenceHasObjects
  <1>4. ASSUME NEW a \in Attachments, NEW b \in Attachments,
               attachment[a].name = attachment[b].name, a # b
        PROVE  attachment[a].name \in cut \cup BeingFreed \cup {None}
    BY <1>1, <1>4 DEF AttachmentsHaveObjects, Attached, NoAttachment
  <1> QED
    BY <1>3, <1>4 DEF RowsHaveTheirObject, CutsAreAttachments

LEMMA QuietRows ==
    ASSUME UploadInv, KoboInv, Quiet
    PROVE  References \subseteq objects \cup cut /\ References \subseteq Names
  <1>1. BeingFreed = {}
    BY IdleFits DEF Quiet, BeingFreed
  <1>2. References \subseteq objects \cup cut
    BY <1>1, RowsHold DEF RowsHaveTheirObject
  <1> QED
    BY <1>2 DEF UploadInv, UploadTypeOK, StoreTypeOK

-------------------------------------------------------------------------------
(* Steps of the runner and of the drill.                                   *)

LEMMA StoppedFits ==
    /\ Stopped \in Runner /\ Stopped.phase = "off" /\ Stopped.doomed = {}
    /\ NoSet \in Set /\ NoSet.version = 0 /\ NoSet.rows = {} /\ NoSet.whole = FALSE
    /\ NoDrill \in Drill
  BY DEF Stopped, Runner, NoSet, Set, NoDrill, Drill, Versions

LEMMA StampsAreFinite ==
    ASSUME NEW W \in SUBSET Stamps
    PROVE  IsFiniteSet(W) /\ Cardinality(W) \in Nat
  <1>1. IsFiniteSet(Stamps)
    BY FS_Interval, BackupsAssumption DEF Stamps
  <1> QED
    BY <1>1, FS_Subset, FS_CardinalityType

\* Of some sets one is the newest.
LEMMA NewestExists ==
    ASSUME NEW D \in SUBSET Stamps, D # {}
    PROVE  \E c \in D : \A d \in D : d <= c
  <1> DEFINE T == {x \in Nat : MaxSets - x \in D}
  <1>1. MaxSets \in Nat /\ D \subseteq 1..MaxSets
    BY BackupsAssumption DEF Stamps
  <1>2. ASSUME NEW d \in D PROVE MaxSets - d \in T
    <2>1. d \in 1..MaxSets
      BY <1>1
    <2>2. MaxSets - d \in Nat /\ MaxSets - (MaxSets - d) = d
      BY <1>1, <2>1
    <2> QED
      BY <2>2
  <1>3. T \subseteq Nat /\ T # {}
    BY <1>2
  <1> HIDE DEF T
  <1>4. PICK x \in T : \A y \in T : ~ (<<y, x>> \in OpToRel(<, Nat))
    BY <1>3, NatLessThanWellFounded, WFMin
  <1>5. \A y \in T : ~(y < x)
    BY <1>3, <1>4 DEF OpToRel
  <1>6. x \in Nat /\ MaxSets - x \in D
    BY DEF T
  <1>7. ASSUME NEW d \in D PROVE d <= MaxSets - x
    <2>1. d \in 1..MaxSets /\ ~(MaxSets - d < x)
      BY <1>1, <1>2, <1>5
    <2> QED
      BY <1>1, <1>6, <2>1
  <1> QED
    BY <1>6, <1>7

\* The retention: whatever it dooms has KeepCount newer ones that it does not.
LEMMA RetentionSpares ==
    ASSUME NEW W \in SUBSET Stamps, NEW doomed \in SUBSET W,
           \A b \in doomed : ~(Cardinality(Newer(b, W)) < KeepCount),
           NEW b \in doomed
    PROVE  Cardinality(Newer(b, W \ doomed)) >= KeepCount
  <1>1. PICK c \in doomed : \A d \in doomed : d <= c
    BY NewestExists
  <1>2. b \in Nat /\ c \in Nat /\ W \subseteq Nat /\ b <= c
    BY <1>1, BackupsAssumption DEF Stamps
  <1>3. Newer(c, W) \subseteq Newer(b, W \ doomed)
    <2> SUFFICES ASSUME NEW x \in W, x > c PROVE x > b /\ x \notin doomed
      BY DEF Newer
    <2>1. x \in Nat
      BY <1>2
    <2> QED
      BY <1>1, <1>2, <2>1
  <1>4. Newer(c, W) \in SUBSET Stamps /\ Newer(b, W \ doomed) \in SUBSET Stamps
    BY DEF Newer
  <1>5. /\ Cardinality(Newer(c, W)) <= Cardinality(Newer(b, W \ doomed))
        /\ Cardinality(Newer(c, W)) \in Nat /\ Cardinality(Newer(b, W \ doomed)) \in Nat
    BY <1>3, <1>4, StampsAreFinite, FS_Subset
  <1>6. ~(Cardinality(Newer(c, W)) < KeepCount)
    OBVIOUS
  <1> QED
    BY <1>5, <1>6, BackupsAssumption

\* A doomed set is not the newest one.
LEMMA NewerSpared ==
    ASSUME BackupsInv, NEW b \in runner.doomed
    PROVE  \E c \in Whole \ runner.doomed : c > b
  <1>1. Cardinality(Newer(b, Whole \ runner.doomed)) >= KeepCount
    BY DEF BackupsInv, RetentionInv
  <1>2. Cardinality({}) = 0
    BY FS_EmptySet
  <1>3. Newer(b, Whole \ runner.doomed) # {}
    BY <1>1, <1>2, BackupsAssumption
  <1> QED
    BY <1>3 DEF Newer

\* While the runner is off everything else may go on.
LEMMA RunnerFrame ==
    ASSUME BackupsInv, runner = Stopped, UNCHANGED backupVars, cut \subseteq cut'
    PROVE  BackupsInv'
  <1>1. /\ UNCHANGED <<stamps, sets, runner, marker, drill>>
        /\ runner'.phase = "off" /\ runner.doomed = {}
    BY StoppedFits DEF backupVars
  <1>2. BackupsTypeOK'
    BY <1>1 DEF BackupsInv, BackupsTypeOK
  <1>3. RunnerInv'
    BY <1>1 DEF BackupsInv, RunnerInv
  <1>4. RetentionInv'
    BY <1>1 DEF RetentionInv
  <1>5. BackupsRestore'
    BY <1>1 DEF BackupsInv, BackupsRestore
  <1> QED
    BY <1>2, <1>3, <1>4, <1>5 DEF BackupsInv

\* Steps that leave the sets on the disk as they are and doom none.
LEMMA SetsStay ==
    ASSUME BackupsInv, UNCHANGED <<sets, stamps, cut>>, runner' \in Runner,
           runner'.doomed = {} \/ runner'.doomed = runner.doomed,
           marker' = marker \/ marker' = [status |-> "failure", stamp |-> 0], drill' \in Drill,
           RunnerInv'
    PROVE  BackupsInv'
  <1>1. marker'.status = "success" => marker' = marker
    OBVIOUS
  <1>2. BackupsTypeOK'
    BY BackupsAssumption DEF BackupsInv, BackupsTypeOK
  <1>3. Whole' = Whole
    BY DEF Whole
  <1>4. RetentionInv'
    BY <1>3 DEF BackupsInv, RetentionInv, Newer
  <1>5. BackupsRestore'
    BY <1>1 DEF BackupsInv, BackupsRestore
  <1> QED
    BY <1>2, <1>4, <1>5 DEF BackupsInv

AtPhase(r, phase) == [r EXCEPT !.phase = phase]

LEMMA AtPhaseRecord ==
    ASSUME NEW r \in Runner,
           NEW phase \in {"off", "locked", "dumped", "copied", "published", "verified",
                          "retaining", "pruning"}
    PROVE  LET new == AtPhase(r, phase) IN
           /\ new \in Runner /\ new.phase = phase /\ new.version = r.version
           /\ new.rows = r.rows /\ new.files = r.files /\ new.doomed = r.doomed
  BY DEF AtPhase, Runner

LEMMA StandsStill ==
    ASSUME UNCHANGED <<storeVars, uploadVars, koboVars>>
    PROVE  References' = References /\ (Quiet' <=> Quiet) /\ UNCHANGED <<objects, cut>>
  BY DEF storeVars, uploadVars, koboVars, References, Quiet

LEMMA StartKeeps ==
    ASSUME BackupsInv, UNCHANGED <<storeVars, uploadVars, koboVars>>, StartRunner
    PROVE  BackupsInv'
  <1> USE DEF BackupsInv
  <1>1. PICK version \in Versions :
            runner' = [runner EXCEPT !.phase = "locked", !.version = version]
    BY DEF StartRunner
  <1>2. /\ runner' \in Runner /\ runner'.phase = "locked" /\ runner'.version = version
        /\ runner'.doomed = runner.doomed
    BY <1>1 DEF BackupsTypeOK, Runner
  <1>3. runner.doomed = {} /\ Quiet' /\ UNCHANGED <<stamps, sets, marker, drill, cut>>
    BY StoppedFits, StandsStill DEF StartRunner
  <1>4. RunnerInv'
    BY <1>2, <1>3, StoppedFits DEF RunnerInv
  <1> QED
    BY <1>2, <1>3, <1>4, SetsStay DEF BackupsTypeOK

LEMMA LoseLockKeeps ==
    ASSUME BackupsInv, UNCHANGED <<storeVars, uploadVars, koboVars>>, LoseLock
    PROVE  BackupsInv'
  <1> USE DEF BackupsInv
  <1>1. UNCHANGED <<stamps, sets, runner, drill, cut>>
    BY StandsStill DEF LoseLock
  <1>2. RunnerInv'
    BY <1>1, StandsStill DEF RunnerInv
  <1> QED
    BY <1>1, <1>2, SetsStay DEF LoseLock, BackupsTypeOK

LEMMA DumpKeeps ==
    ASSUME BackupsInv, UploadInv, KoboInv, UNCHANGED <<storeVars, uploadVars, koboVars>>, Dump
    PROVE  BackupsInv'
  <1> USE DEF BackupsInv
  <1>1. /\ runner.phase = "locked"
        /\ UNCHANGED <<stamps, sets, marker, drill, cut>>
    BY StandsStill DEF Dump
  <1>2. Quiet /\ runner.version \in Versions /\ References \subseteq Names /\ runner.doomed = {}
    BY <1>1, QuietRows DEF RunnerInv
  <1>3. runner' = [runner EXCEPT !.phase = "dumped", !.rows = References]
    BY DEF Dump
  <1>4. /\ runner' \in Runner /\ runner'.phase = "dumped" /\ runner'.version = runner.version
        /\ runner'.rows = References /\ runner'.doomed = runner.doomed
    BY <1>2, <1>3 DEF BackupsTypeOK, Runner
  <1>5. RunnerInv'
    BY <1>1, <1>2, <1>4, StandsStill, StoppedFits DEF RunnerInv
  <1> QED
    BY <1>1, <1>4, <1>5, SetsStay DEF BackupsTypeOK

\* While the runner copies nothing moves: the rows it dumped are the rows whose
\* objects it copies.
LEMMA CopyKeeps ==
    ASSUME BackupsInv, UploadInv, KoboInv, UNCHANGED <<storeVars, uploadVars, koboVars>>, CopyFiles
    PROVE  BackupsInv'
  <1> USE DEF BackupsInv
  <1> DEFINE files == IF runner.version = 2 THEN References \cap objects ELSE objects
  <1>1. /\ runner.phase = "dumped"
        /\ runner.version = 2 => files = References
        /\ UNCHANGED <<stamps, sets, marker, drill, cut>>
    BY StandsStill DEF CopyFiles, Exported
  <1>2. /\ Quiet /\ runner.version \in Versions /\ runner.rows = References /\ runner.doomed = {}
        /\ References \subseteq objects \cup cut
    BY <1>1, QuietRows DEF RunnerInv
  <1>3. files \in SUBSET Names
    BY DEF UploadInv, UploadTypeOK, StoreTypeOK
  <1>4. References \subseteq files \cup (IF runner.version = 1 THEN cut ELSE {})
    BY <1>1, <1>2 DEF Versions
  <1>5. runner' = [runner EXCEPT !.phase = "copied", !.files = files]
    BY DEF CopyFiles
  <1> HIDE DEF files
  <1>6. /\ runner' \in Runner /\ runner'.phase = "copied" /\ runner'.version = runner.version
        /\ runner'.rows = runner.rows /\ runner'.files = files /\ runner'.doomed = runner.doomed
    BY <1>3, <1>5 DEF BackupsTypeOK, Runner
  <1>7. RunnerInv'
    BY <1>1, <1>2, <1>4, <1>6, StandsStill, StoppedFits DEF RunnerInv
  <1> QED
    BY <1>1, <1>6, <1>7, SetsStay DEF BackupsTypeOK

LEMMA FailKeeps ==
    ASSUME BackupsInv, UNCHANGED <<storeVars, uploadVars, koboVars>>, FailRunner
    PROVE  BackupsInv'
  <1> USE DEF BackupsInv
  <1>1. runner' = Stopped /\ UNCHANGED <<stamps, sets, drill, cut>>
    BY StandsStill DEF FailRunner
  <1>2. RunnerInv'
    BY <1>1, StoppedFits DEF RunnerInv
  <1> QED
    BY <1>1, <1>2, SetsStay, StoppedFits DEF FailRunner, BackupsTypeOK

LEMMA PublishKeeps ==
    ASSUME BackupsInv, UNCHANGED <<storeVars, uploadVars, koboVars>>, Publish
    PROVE  BackupsInv'
  <1> USE DEF BackupsInv
  <1> DEFINE new == [version |-> runner.version, rows |-> runner.rows, files |-> runner.files,
                     whole |-> TRUE]
  <1>1. /\ runner.phase = "copied" /\ stamps < MaxSets /\ stamps' = stamps + 1
        /\ UNCHANGED <<marker, drill, cut>>
    BY StandsStill DEF Publish
  <1>2. stamps' \in Stamps /\ stamps' \in 0..MaxSets /\ stamps \in Nat
    BY <1>1, BackupsAssumption DEF BackupsTypeOK, Stamps
  <1>3. /\ runner \in Runner /\ runner.version \in Versions /\ runner.doomed = {}
        /\ runner.rows \subseteq runner.files \cup (IF runner.version = 1 THEN cut ELSE {})
    BY <1>1 DEF RunnerInv, BackupsTypeOK
  <1>4. /\ new \in Set /\ new # NoSet
        /\ new.version \in Versions
        /\ new.rows \subseteq new.files \cup (IF new.version = 1 THEN cut ELSE {})
    <2>1. new \in Set
      BY <1>3 DEF Set, Runner
    <2>2. new.version = runner.version /\ new.rows = runner.rows /\ new.files = runner.files
      OBVIOUS
    <2>3. runner.version # 0
      BY <1>3 DEF Versions
    <2> HIDE DEF new
    <2> QED
      BY <1>3, <2>1, <2>2, <2>3, StoppedFits
  <1>5. sets' = [sets EXCEPT ![stamps'] = new]
    BY DEF Publish
  <1>6. runner' = AtPhase(runner, "published")
    BY DEF Publish, AtPhase
  <1> HIDE DEF new
  <1>7. /\ runner' \in Runner /\ runner'.phase = "published" /\ runner'.doomed = {}
    BY <1>3, <1>6, AtPhaseRecord
  <1>8. /\ sets' \in [Stamps -> Set] /\ sets'[stamps'] = new
        /\ \A b \in Stamps : b # stamps' => sets'[b] = sets[b]
        /\ \A b \in Stamps : sets'[b] # NoSet \/ sets[b] = NoSet
    BY <1>2, <1>4, <1>5 DEF BackupsTypeOK
  <1>9. BackupsTypeOK'
    BY <1>1, <1>2, <1>7, <1>8 DEF BackupsTypeOK
  <1>10. RunnerInv'
    <2>1. ASSUME NEW b \in Stamps, sets'[b] # NoSet
          PROVE  b <= stamps' /\ sets'[b].version \in Versions
      <3>1. CASE b = stamps'
        BY <1>2, <1>4, <1>8, <3>1 DEF Stamps
      <3>2. CASE b # stamps'
        <4>1. b <= stamps /\ sets[b].version \in Versions
          BY <1>8, <2>1, <3>2 DEF RunnerInv
        <4> QED
          BY <1>1, <1>2, <1>8, <3>2, <4>1, BackupsAssumption DEF Stamps
      <3> QED
        BY <3>1, <3>2
    <2> QED
      BY <1>2, <1>4, <1>7, <1>8, <2>1, StoppedFits DEF RunnerInv
  <1>11. RetentionInv'
    BY <1>7 DEF RetentionInv
  <1>12. BackupsRestore'
    <2>1. ASSUME NEW b \in Stamps
          PROVE  sets'[b].rows \subseteq
                     sets'[b].files \cup (IF sets'[b].version = 1 THEN cut' ELSE {})
      BY <1>1, <1>4, <1>8 DEF BackupsRestore
    <2>2. marker'.status = "success" =>
              \E b \in Stamps : b >= marker'.stamp /\ sets'[b] # NoSet
      BY <1>1, <1>8 DEF BackupsRestore
    <2> QED
      BY <2>1, <2>2 DEF BackupsRestore
  <1> QED
    BY <1>9, <1>10, <1>11, <1>12

LEMMA VerifyKeeps ==
    ASSUME BackupsInv, UNCHANGED <<storeVars, uploadVars, koboVars>>, Verify
    PROVE  BackupsInv'
  <1> USE DEF BackupsInv
  <1>1. /\ runner.phase = "published" /\ runner' = AtPhase(runner, "verified")
        /\ UNCHANGED <<stamps, sets, marker, drill, cut>>
    BY StandsStill DEF Verify, AtPhase
  <1>2. runner' \in Runner /\ runner'.phase = "verified" /\ runner'.doomed = runner.doomed
    BY <1>1, AtPhaseRecord DEF BackupsTypeOK
  <1>3. RunnerInv'
    BY <1>1, <1>2, StoppedFits DEF RunnerInv
  <1> QED
    BY <1>1, <1>2, <1>3, SetsStay DEF BackupsTypeOK

LEMMA RetainKeeps ==
    ASSUME BackupsInv, UNCHANGED <<storeVars, uploadVars, koboVars>>, Retain
    PROVE  BackupsInv'
  <1> USE DEF BackupsInv
  <1>1. /\ runner.phase \in {"off", "verified"}
        /\ UNCHANGED <<stamps, sets, marker, drill, cut>>
    BY StandsStill DEF Retain
  <1>2. PICK old \in 0..stamps :
            runner' = [runner EXCEPT !.phase = IF @ = "off" THEN "pruning" ELSE "retaining",
                                     !.doomed = {b \in Whole : b <= old /\ ~Protected(b)}]
    BY DEF Retain
  <1> DEFINE doomed == {b \in Whole : b <= old /\ ~Protected(b)}
  <1>3. /\ doomed \in SUBSET Whole /\ Whole \in SUBSET Stamps
        /\ \A b \in doomed : ~(Cardinality(Newer(b, Whole)) < KeepCount)
    BY DEF Protected, Whole
  <1> HIDE DEF doomed
  <1>4. /\ runner' \in Runner /\ runner'.doomed = doomed
        /\ runner'.phase = IF runner.phase = "off" THEN "pruning" ELSE "retaining"
    <2>1. runner' = [runner EXCEPT !.phase = IF @ = "off" THEN "pruning" ELSE "retaining",
                                   !.doomed = doomed]
      BY <1>2 DEF doomed
    <2>2. doomed \in SUBSET Stamps
      BY <1>3
    <2> QED
      BY <1>1, <2>1, <2>2 DEF BackupsTypeOK, Runner
  <1>5. Whole' = Whole
    BY <1>1 DEF Whole
  <1>6. BackupsTypeOK'
    BY <1>1, <1>4 DEF BackupsTypeOK
  <1>7. RunnerInv'
    BY <1>1, <1>4, StoppedFits DEF RunnerInv
  <1>8. RetentionInv'
    <2>1. ASSUME NEW b \in doomed
          PROVE  Cardinality(Newer(b, Whole \ doomed)) >= KeepCount
      BY <1>3, RetentionSpares
    <2> QED
      BY <1>3, <1>4, <1>5, <2>1 DEF RetentionInv, Newer
  <1>9. BackupsRestore'
    BY <1>1 DEF BackupsRestore
  <1> QED
    BY <1>6, <1>7, <1>8, <1>9

LEMMA DeleteSetKeeps ==
    ASSUME BackupsInv, UNCHANGED <<storeVars, uploadVars, koboVars>>, DeleteSet
    PROVE  BackupsInv'
  <1> USE DEF BackupsInv
  <1>1. PICK b \in runner.doomed :
            /\ sets' = [sets EXCEPT ![b] = NoSet]
            /\ runner' = [runner EXCEPT !.doomed = @ \ {b}]
    BY DEF DeleteSet
  <1>2. UNCHANGED <<stamps, marker, drill, cut>>
    BY StandsStill DEF DeleteSet
  <1>3. /\ b \in Stamps /\ runner.doomed \subseteq Whole /\ runner \in Runner
        /\ runner.phase \in {"retaining", "pruning"}
    BY DEF BackupsTypeOK, Runner, RunnerInv, RetentionInv
  <1>4. /\ runner' \in Runner /\ runner'.phase = runner.phase
        /\ runner'.doomed = runner.doomed \ {b}
    BY <1>1, <1>3 DEF Runner
  <1>5. /\ sets' \in [Stamps -> Set]
        /\ \A c \in Stamps : sets'[c] = IF c = b THEN NoSet ELSE sets[c]
    BY <1>1, <1>3, StoppedFits DEF BackupsTypeOK
  <1>6. /\ Whole' = Whole \ {b}
        /\ Whole' \ runner'.doomed = Whole \ runner.doomed
    BY <1>4, <1>5, StoppedFits DEF Whole
  <1>7. PICK c \in Whole \ runner.doomed : c > b
    BY NewerSpared
  <1>8. /\ c \in Stamps /\ sets[c] # NoSet /\ c # b
    BY <1>7, StoppedFits DEF Whole
  <1>9. BackupsTypeOK'
    BY <1>2, <1>4, <1>5 DEF BackupsTypeOK
  <1>10. RunnerInv'
    <2>1. stamps \in Stamps /\ sets[stamps] # NoSet => stamps # b
      <3>1. c <= stamps
        BY <1>8 DEF RunnerInv
      <3> QED
        BY <1>3, <1>7, <1>8, <3>1, BackupsAssumption DEF Stamps
    <2> QED
      BY <1>2, <1>3, <1>4, <1>5, <2>1, StoppedFits DEF RunnerInv
  <1>11. RetentionInv'
    BY <1>3, <1>4, <1>6 DEF RetentionInv, Newer
  <1>12. BackupsRestore'
    <2>1. ASSUME NEW d \in Stamps
          PROVE  sets'[d].rows \subseteq
                     sets'[d].files \cup (IF sets'[d].version = 1 THEN cut' ELSE {})
      BY <1>2, <1>5, StoppedFits DEF BackupsRestore
    <2>2. ASSUME marker'.status = "success"
          PROVE  \E d \in Stamps : d >= marker'.stamp /\ sets'[d] # NoSet
      <3>1. PICK d \in Stamps : d >= marker.stamp /\ sets[d] # NoSet
        BY <1>2, <2>2 DEF BackupsRestore
      <3>2. CASE d # b
        BY <1>2, <1>5, <3>1, <3>2
      <3>3. CASE d = b
        <4>1. c >= marker.stamp
          BY <1>3, <1>7, <1>8, <3>1, <3>3, BackupsAssumption DEF Stamps, BackupsTypeOK
        <4> QED
          BY <1>2, <1>5, <1>8, <4>1
      <3> QED
        BY <3>2, <3>3
    <2> QED
      BY <2>1, <2>2 DEF BackupsRestore
  <1> QED
    BY <1>9, <1>10, <1>11, <1>12

LEMMA SucceedKeeps ==
    ASSUME BackupsInv, UNCHANGED <<storeVars, uploadVars, koboVars>>, Succeed
    PROVE  BackupsInv'
  <1> USE DEF BackupsInv
  <1>1. /\ runner.phase = "retaining" /\ runner' = Stopped
        /\ marker' = [status |-> "success", stamp |-> stamps]
        /\ UNCHANGED <<stamps, sets, drill, cut>>
    BY StandsStill DEF Succeed
  <1>2. stamps \in Stamps /\ sets[stamps] # NoSet
    BY <1>1 DEF RunnerInv
  <1>3. BackupsTypeOK'
    BY <1>1, StoppedFits DEF BackupsTypeOK
  <1>4. RunnerInv'
    BY <1>1, StoppedFits DEF RunnerInv
  <1>5. RetentionInv'
    BY <1>1, StoppedFits DEF RetentionInv
  <1>6. BackupsRestore'
    <2>1. \E b \in Stamps : b >= marker'.stamp /\ sets'[b] # NoSet
      BY <1>1, <1>2, BackupsAssumption DEF Stamps
    <2> QED
      BY <1>1, <2>1 DEF BackupsRestore
  <1> QED
    BY <1>3, <1>4, <1>5, <1>6

LEMMA EndPruningKeeps ==
    ASSUME BackupsInv, UNCHANGED <<storeVars, uploadVars, koboVars>>, EndPruning
    PROVE  BackupsInv'
  <1> USE DEF BackupsInv
  <1>1. runner' = Stopped /\ UNCHANGED <<stamps, sets, marker, drill, cut>>
    BY StandsStill DEF EndPruning
  <1>2. RunnerInv'
    BY <1>1, StoppedFits DEF RunnerInv
  <1> QED
    BY <1>1, <1>2, SetsStay, StoppedFits DEF BackupsTypeOK

Broken(s) == [s EXCEPT !.whole = FALSE]

\* A set that was deleted in part, or decayed, is still a set.
LEMMA BreakKeeps ==
    ASSUME BackupsInv, UNCHANGED <<stamps, marker, drill, cut>>, runner' = Stopped,
           NEW b \in Stamps, sets[b].whole, sets' = [sets EXCEPT ![b] = Broken(sets[b])]
    PROVE  BackupsInv'
  <1> USE DEF BackupsInv
  <1>1. sets \in [Stamps -> Set] /\ sets[b] # NoSet
    BY StoppedFits DEF BackupsTypeOK
  <1>2. sets[b].version \in Versions
    BY <1>1 DEF RunnerInv
  <1> DEFINE new == Broken(sets[b])
  <1>3. /\ new \in Set /\ new.version = sets[b].version
        /\ new.rows = sets[b].rows /\ new.files = sets[b].files
    BY <1>1 DEF Broken, Set
  <1> HIDE DEF new
  <1>4. new # NoSet
    BY <1>2, <1>3, StoppedFits DEF Versions
  <1>5. /\ sets' \in [Stamps -> Set]
        /\ \A c \in Stamps : sets'[c] = IF c = b THEN new ELSE sets[c]
    BY <1>1, <1>3 DEF new
  <1>6. BackupsTypeOK'
    BY <1>5, StoppedFits DEF BackupsTypeOK
  <1>7. RunnerInv'
    BY <1>1, <1>2, <1>3, <1>5, StoppedFits DEF RunnerInv
  <1>8. RetentionInv'
    BY StoppedFits DEF RetentionInv
  <1>9. BackupsRestore'
    <2>1. ASSUME NEW c \in Stamps
          PROVE  sets'[c].rows \subseteq
                     sets'[c].files \cup (IF sets'[c].version = 1 THEN cut' ELSE {})
      BY <1>3, <1>5 DEF BackupsRestore
    <2>2. marker'.status = "success" =>
              \E c \in Stamps : c >= marker'.stamp /\ sets'[c] # NoSet
      BY <1>4, <1>5 DEF BackupsRestore
    <2> QED
      BY <2>1, <2>2 DEF BackupsRestore
  <1> QED
    BY <1>6, <1>7, <1>8, <1>9

LEMMA KillKeeps ==
    ASSUME BackupsInv, UNCHANGED <<storeVars, uploadVars, koboVars>>, Kill
    PROVE  BackupsInv'
  <1> USE DEF BackupsInv
  <1>1. runner' = Stopped /\ UNCHANGED <<stamps, marker, drill, cut>>
    BY StandsStill DEF Kill
  <1>2. CASE UNCHANGED sets
    <2>1. RunnerInv'
      BY <1>1, <1>2, StoppedFits DEF RunnerInv
    <2> QED
      BY <1>1, <1>2, <2>1, SetsStay, StoppedFits DEF BackupsTypeOK
  <1>3. ASSUME NEW b \in runner.doomed, sets' = [sets EXCEPT ![b].whole = FALSE]
        PROVE  BackupsInv'
    <2>1. b \in Stamps /\ sets[b].whole
      BY DEF RetentionInv, Whole
    <2>2. sets' = [sets EXCEPT ![b] = Broken(sets[b])]
      BY <1>3, Zenon DEF Broken
    <2> QED
      BY <1>1, <2>1, <2>2, BreakKeeps
  <1> QED
    BY <1>2, <1>3 DEF Kill

LEMMA DecayKeeps ==
    ASSUME BackupsInv, UNCHANGED <<storeVars, uploadVars, koboVars>>, NEW b \in Stamps, Decay(b)
    PROVE  BackupsInv'
  <1>1. /\ runner' = Stopped /\ UNCHANGED <<stamps, marker, drill, cut>>
        /\ sets[b].whole
    BY StandsStill DEF Decay
  <1>2. sets' = [sets EXCEPT ![b] = Broken(sets[b])]
    BY Zenon DEF Decay, Broken
  <1> QED
    BY <1>1, <1>2, BreakKeeps

LEMMA DrillKeeps ==
    ASSUME BackupsInv, UNCHANGED <<storeVars, uploadVars, koboVars>>,
           Restore \/ EndDrill \/ FailDrill
    PROVE  BackupsInv'
  <1> USE DEF BackupsInv
  <1>1. UNCHANGED <<stamps, sets, runner, marker, cut>>
    BY StandsStill DEF Restore, EndDrill, FailDrill
  <1>2. RunnerInv'
    BY <1>1, StandsStill DEF RunnerInv
  <1>3. drill' \in Drill
    <2>1. CASE Restore
      <3>1. PICK b \in Whole :
                drill' = [phase |-> "restored", rows |-> sets[b].rows, files |-> sets[b].files,
                          status |-> drill.status]
        BY <2>1 DEF Restore
      <3>2. sets[b] \in Set
        BY DEF Whole, BackupsTypeOK
      <3> QED
        BY <3>1, <3>2 DEF BackupsTypeOK, Drill, Set
    <2>2. CASE EndDrill
      <3>1. drill' = [drill EXCEPT !.phase = "off", !.status = "success"]
        BY <2>2 DEF EndDrill, ChainSucceeds
      <3> QED
        BY <3>1 DEF BackupsTypeOK, Drill
    <2>3. CASE FailDrill
      <3>1. drill' = [NoDrill EXCEPT !.status = "failure"]
        BY <2>3 DEF FailDrill
      <3> QED
        BY <3>1, StoppedFits DEF Drill
    <2> QED
      BY <2>1, <2>2, <2>3
  <1> QED
    BY <1>1, <1>2, <1>3, SetsStay DEF BackupsTypeOK

LEMMA BackupsKeep ==
    ASSUME BackupsInv, UploadInv, KoboInv, BackupStep, UNCHANGED <<storeVars, uploadVars, koboVars>>
    PROVE  BackupsInv'
  BY StartKeeps, LoseLockKeeps, DumpKeeps, CopyKeeps, FailKeeps, PublishKeeps, VerifyKeeps,
     RetainKeeps, DeleteSetKeeps, SucceedKeeps, EndPruningKeeps, KillKeeps, DecayKeeps, DrillKeeps
     DEF BackupStep

-------------------------------------------------------------------------------
(* The theorems.                                                           *)

LEMMA InitFits == Init => FilesInv
  <1> SUFFICES ASSUME Init PROVE FilesInv
    OBVIOUS
  <1> USE DEF Init
  <1>1. UploadInv
    <2>1. /\ \A w \in Clerks : job[w] = Idle
          /\ \A n \in DocumentNames : document[n] = None
          /\ \A a \in Attachments : attachment[a] = NoAttachment
          /\ objects = {} /\ cut = {}
      BY DEF UploadInit, StoreInit
    <2>2. UploadTypeOK
      BY IdleFits DEF UploadInit, StoreInit, UploadTypeOK, StoreTypeOK, ExpenseStatus,
                      RequestStatus, AttachmentRow, NoAttachment
    <2>3. CallsFit /\ NamesHeld /\ DeletionsKnow /\ DetachesKnow /\ OneLockHolder
      BY <2>1, IdleFits DEF CallsFit, UploadCalls, NamesHeld, DeletionsKnow, DetachesKnow,
                            OneLockHolder, Locking
    <2>4. DocumentsHaveObjects /\ AttachmentsFit /\ AttachmentsHaveObjects /\ CutsAreAttachments
      BY <2>1 DEF DocumentsHaveObjects, AttachmentsFit, AttachmentsHaveObjects, Attached,
                  CutsAreAttachments
    <2> QED
      BY <2>2, <2>3, <2>4 DEF UploadInv
  <1>2. KoboInv
    <2>1. KoboTypeOK
      BY NoDownloadFits DEF KoboInit, KoboTypeOK, EvidenceRow, EvidenceStatus
    <2>2. ClaimsFit /\ EvidenceHasObjects
      BY NoDownloadFits DEF KoboInit, ClaimsFit, EvidenceHasObjects
    <2> QED
      BY <2>1, <2>2 DEF KoboInv
  <1>3. BackupsInv
    <2>1. BackupsTypeOK
      BY StoppedFits, BackupsAssumption DEF BackupsTypeOK
    <2>2. RunnerInv /\ RetentionInv
      BY StoppedFits DEF RunnerInv, RetentionInv
    <2>3. BackupsRestore
      BY StoppedFits DEF BackupsRestore
    <2> QED
      BY <2>1, <2>2, <2>3 DEF BackupsInv
  <1>4. ExpenseKeepsDocument
    BY DEF UploadInit, ExpenseKeepsDocument
  <1> QED
    BY <1>1, <1>2, <1>3, <1>4 DEF FilesInv

LEMMA FilesKeep == FilesInv /\ [Next]_vars => FilesInv'
  <1> SUFFICES ASSUME FilesInv, [Next]_vars PROVE FilesInv'
    OBVIOUS
  <1> USE DEF FilesInv
  <1>1. CASE runner = Stopped /\ UploadStep /\ UNCHANGED <<koboVars, backupVars>>
    <2>1. UploadInv' /\ ExpenseKeepsDocument'
      BY <1>1, UploadKeeps, DocumentsStay
    <2>2. /\ \A t \in Tokens : t \in objects' <=> t \in objects
          /\ cut \subseteq cut' /\ UNCHANGED <<evidence, download>>
      BY <1>1, UploadLeavesTokens DEF koboVars
    <2>3. KoboTypeOK'
      BY <2>2 DEF KoboInv, KoboTypeOK
    <2>4. ClaimsFit'
      <3>1. \A v \in Downloaders : download[v].stored => download[v].token \in Tokens
        BY ClaimHasToken
      <3> QED
        BY <2>2, <3>1 DEF KoboInv, ClaimsFit
    <2>5. EvidenceHasObjects'
      <3>1. \A a \in Evidence : evidence[a].file # None => evidence[a].file \in Tokens
        BY DEF KoboInv, KoboTypeOK, EvidenceRow
      <3> QED
        BY <2>2, <3>1 DEF KoboInv, EvidenceHasObjects
    <2>6. BackupsInv'
      BY <1>1, <2>2, RunnerFrame
    <2> QED
      BY <2>1, <2>3, <2>4, <2>5, <2>6 DEF KoboInv
  <1>2. CASE runner = Stopped /\ KoboStep /\ UNCHANGED <<uploadVars, backupVars>>
    <2>1. KoboInv'
      BY <1>2, KoboKeeps
    <2>2. UNCHANGED <<expense, request, document, attachment, job, cut>>
      BY <1>2, KoboLeavesUploads DEF uploadVars
    <2>3. UploadInv'
      <3>1. /\ objects \subseteq Names
            /\ expense \in [Expenses -> ExpenseStatus] /\ request \in [Requests -> RequestStatus]
        BY DEF UploadInv, UploadTypeOK, StoreTypeOK
      <3> QED
        BY <1>2, <2>2, <3>1, KoboLeavesUploads, UploadFrame
    <2>4. ExpenseKeepsDocument'
      BY <2>2 DEF ExpenseKeepsDocument, DocumentsOf
    <2>5. BackupsInv'
      BY <1>2, <2>2, RunnerFrame
    <2> QED
      BY <2>1, <2>3, <2>4, <2>5
  <1>3. ASSUME UNCHANGED <<storeVars, uploadVars, koboVars>>
        PROVE  UploadInv' /\ KoboInv' /\ ExpenseKeepsDocument'
    <2>1. UNCHANGED <<objects, cut, expense, request, document, attachment, job,
                      evidence, download>>
      BY <1>3 DEF storeVars, uploadVars, koboVars
    <2>2. UploadInv'
      BY <2>1, UploadFrame DEF UploadInv, UploadTypeOK, StoreTypeOK
    <2>3. KoboInv'
      BY <2>1 DEF KoboInv, KoboTypeOK, ClaimsFit, EvidenceHasObjects
    <2>4. ExpenseKeepsDocument'
      BY <2>1 DEF ExpenseKeepsDocument, DocumentsOf
    <2> QED
      BY <2>2, <2>3, <2>4
  <1>4. CASE BackupStep /\ UNCHANGED <<storeVars, uploadVars, koboVars>>
    BY <1>3, <1>4, BackupsKeep
  <1>5. CASE UNCHANGED vars
    <2>1. UNCHANGED <<storeVars, uploadVars, koboVars>>
      BY <1>5 DEF vars
    <2>2. UNCHANGED <<stamps, sets, runner, marker, drill, cut>>
      BY <1>5 DEF vars, backupVars, storeVars
    <2>3. RunnerInv'
      BY <2>1, <2>2, StandsStill DEF BackupsInv, RunnerInv
    <2>4. BackupsInv'
      BY <2>2, <2>3, SetsStay DEF BackupsInv, BackupsTypeOK
    <2> QED
      BY <1>3, <2>1, <2>4
  <1> QED
    BY <1>1, <1>2, <1>4, <1>5 DEF Next

LEMMA AlwaysFiles == Spec => []FilesInv
  BY InitFits, FilesKeep, PTL DEF Spec

\* Every variable of the store, of the rows and of the backups keeps its type: names
\* of the right directory, statuses, the phases of calls, claims, runner and drill.
THEOREM FilesTypeCorrect == Spec => []FilesTypeOK
  <1>1. FilesInv => FilesTypeOK
    BY DEF FilesInv, UploadInv, KoboInv, BackupsInv, BackupsTypeOK, FilesTypeOK
  <1> QED
    BY <1>1, AlwaysFiles, PTL

\* delete_supporting_document, update_expense, create_supporting_document and the
\* executions: in every interleaving, with any number of processes, each expense
\* keeps a document.
THEOREM DocumentKept == Spec => []ExpenseKeepsDocument
  <1>1. FilesInv => ExpenseKeepsDocument
    BY DEF FilesInv
  <1> QED
    BY <1>1, AlwaysFiles, PTL

\* _stored_upload, _compensate_stored_upload, delete_expense_request_attachment and
\* the claims of attachments.py: no row loses its object or shares it, except for the
\* attachments whose object went before their deletion committed.
THEOREM ObjectsKept == Spec => []RowsHaveTheirObject
  <1>1. FilesInv => RowsHaveTheirObject
    BY RowsHold DEF FilesInv
  <1> QED
    BY <1>1, AlwaysFiles, PTL

\* deploy/backups: whatever fails or is killed, a published set has the file of each
\* of its rows, and the set that the last success names, or a newer one, is there.
THEOREM SetsRestore == Spec => []BackupsRestore
  <1>1. FilesInv => BackupsRestore
    BY DEF FilesInv, BackupsInv
  <1> QED
    BY <1>1, AlwaysFiles, PTL

\* _owns_processing_claim: a row that is downloaded or invalid stays as it is, however
\* late a worker comes whose claim was taken over.
THEOREM DownloadsStay == Spec => DownloadsAreFinal
  <1>1. ASSUME FilesInv, [Next]_vars
        PROVE  [\A a \in Evidence :
                    evidence[a].status \in {"downloaded", "invalid"}
                        => evidence'[a] = evidence[a]]_evidence
    <2> SUFFICES ASSUME NEW a \in Evidence, evidence[a].status \in {"downloaded", "invalid"}
                 PROVE  evidence'[a] = evidence[a]
      OBVIOUS
    <2>1. ASSUME NEW v \in Downloaders, NEW b \in Evidence, Claim(v, b)
          PROVE  evidence'[a] = evidence[a]
      <3>1. /\ evidence[b].status \notin {"downloaded", "invalid"}
            /\ \E t \in Tokens :
                   evidence' = [evidence EXCEPT ![b].status = "processing", ![b].token = t]
        BY <2>1 DEF Claim
      <3>2. a # b
        BY <3>1
      <3> QED
        BY <1>1, <3>1, <3>2 DEF FilesInv, KoboInv, KoboTypeOK
    <2>2. ASSUME NEW v \in Downloaders, NEW status \in EvidenceStatus, SettleFailure(v, status)
          PROVE  evidence'[a] = evidence[a]
      <3>1. CASE Owns(v)
        <4>1. a # download[v].row
          BY <3>1 DEF Owns
        <4> QED
          BY <1>1, <2>2, <4>1 DEF SettleFailure, FilesInv, KoboInv, KoboTypeOK
      <3> QED
        BY <2>2, <3>1 DEF SettleFailure
    <2>3. ASSUME NEW v \in Downloaders, ConfirmDownload(v)
          PROVE  evidence'[a] = evidence[a]
      <3>1. a # download[v].row
        BY <2>3 DEF Owns, ConfirmDownload
      <3> QED
        BY <1>1, <2>3, <3>1 DEF ConfirmDownload, FilesInv, KoboInv, KoboTypeOK
    <2>4. ASSUME KoboStep PROVE evidence'[a] = evidence[a]
      BY <2>1, <2>2, <2>3, <2>4
         DEF KoboStep, EvidenceStatus, StoreDownload, CompensateDownload, DieDownloading
    <2> QED
      BY <1>1, <2>4 DEF Next, vars, koboVars
  <1> QED
    BY <1>1, AlwaysFiles, PTL DEF Spec, DownloadsAreFinal

\* apply_retention.sh: whenever a set disappears from the disk, KEEP_COUNT newer ones
\* verify; also when a kill or a decay came between two deletions.
THEOREM RetentionSafe == Spec => RetentionKeepsGood
  <1>1. ASSUME FilesInv, [Next]_vars
        PROVE  [\A b \in Stamps :
                    sets[b] # NoSet /\ sets'[b] = NoSet
                        => Cardinality(Newer(b, Whole)) >= KeepCount]_backupVars
    <2> SUFFICES ASSUME NEW b \in Stamps, sets[b] # NoSet, sets'[b] = NoSet
                 PROVE  Cardinality(Newer(b, Whole)) >= KeepCount
      OBVIOUS
    <2> USE DEF FilesInv, BackupsInv
    <2>1. sets \in [Stamps -> Set] /\ (b \in Stamps => sets[b].version \in Versions)
      BY <1>1 DEF BackupsTypeOK, RunnerInv
    <2>2. ASSUME DeleteSet PROVE b \in runner.doomed
      BY <1>1, <2>1, <2>2 DEF DeleteSet
    <2>3. CASE b \in runner.doomed
      <3>1. /\ Newer(b, Whole \ runner.doomed) \subseteq Newer(b, Whole)
            /\ Newer(b, Whole) \in SUBSET Stamps
        BY DEF Newer, Whole
      <3>2. Cardinality(Newer(b, Whole \ runner.doomed)) >= KeepCount
        BY <1>1, <2>3 DEF RetentionInv
      <3>3. Cardinality(Newer(b, Whole \ runner.doomed)) <= Cardinality(Newer(b, Whole))
        BY <3>1, StampsAreFinite, FS_Subset
      <3>4. /\ Cardinality(Newer(b, Whole \ runner.doomed)) \in Nat
            /\ Cardinality(Newer(b, Whole)) \in Nat
        BY <3>1, StampsAreFinite
      <3> QED
        BY <3>2, <3>3, <3>4, BackupsAssumption
    <2>4. ASSUME Publish PROVE FALSE
      <3>1. sets'[b] = sets[b] \/ sets'[b].version = runner.version
        BY <2>1, <2>4 DEF Publish
      <3>2. runner.version \in Versions
        BY <1>1, <2>4 DEF Publish, RunnerInv
      <3> QED
        BY <3>1, <3>2, StoppedFits DEF Versions
    <2>5. ASSUME NEW c \in Stamps, sets' = [sets EXCEPT ![c].whole = FALSE] PROVE FALSE
      <3>1. sets' = [sets EXCEPT ![c] = Broken(sets[c])]
        BY <2>5, Zenon DEF Broken
      <3>2. sets[b] \in Set /\ Broken(sets[b]).version = sets[b].version
        BY <2>1 DEF Broken, Set
      <3>3. sets'[b] = sets[b] \/ sets'[b] = Broken(sets[b])
        BY <2>1, <3>1
      <3> QED
        BY <2>1, <3>2, <3>3, StoppedFits DEF Versions
    <2>6. ASSUME Kill PROVE FALSE
      BY <1>1, <2>5, <2>6 DEF Kill, RetentionInv, Whole
    <2>7. ASSUME NEW c \in Stamps, Decay(c) PROVE FALSE
      BY <2>5, <2>7 DEF Decay
    <2>8. ASSUME ~DeleteSet, BackupStep PROVE FALSE
      BY <2>4, <2>6, <2>7, <2>8
         DEF BackupStep, StartRunner, LoseLock, Dump, CopyFiles, FailRunner, Verify, Retain,
             Succeed, EndPruning, Restore, EndDrill, FailDrill
    <2> QED
      BY <1>1, <2>2, <2>3, <2>8 DEF Next, vars, backupVars
  <1> QED
    BY <1>1, AlwaysFiles, PTL DEF Spec, RetentionKeepsGood

==============================================================================
