-------------------------------- MODULE Backups --------------------------------
(***************************************************************************)
(* Backup sets of the database and of the private storage                  *)
(* (deploy/backups).  The runner takes the lock of the deployment, dumps   *)
(* the database, copies the files, publishes the set under its time stamp, *)
(* verifies it, applies the retention and writes a marker; it may be       *)
(* killed at any point.  A drill restores a set into a place of its own.   *)
(*                                                                         *)
(* The operator stops all writers before (SIGEDON_MAINTENANCE_CONFIRMED).  *)
(***************************************************************************)
EXTENDS UploadedFiles, KoboFiles

CONSTANTS
    MaxSets,        \* bound: sets that are ever published
    KeepCount       \* SIGEDON_BACKUP_KEEP_COUNT

ASSUME BackupsAssumption == MaxSets \in Nat /\ KeepCount \in Nat \ {0}

\* upload_to of KoboAttachment: a directory of its own.
ASSUME StorageAssumption == Tokens \cap (DocumentNames \cup AttachmentNames) = {}

VARIABLES
    stamps,         \* how many sets were published so far
    sets,           \* the sets on the disk, by time stamp
    runner,         \* the runner and what it holds
    marker,         \* .sigedon-backup-status.json
    drill           \* the last drill and its marker

backupVars == <<stamps, sets, runner, marker, drill>>

vars == <<storeVars, uploadVars, koboVars, backupVars>>

Stamps == 1..MaxSets

\* format_version of the manifest: 1 holds the whole MEDIA_ROOT (filesystem),
\* 2 the objects that rows refer to (SIGEDON_PRIVATE_STORAGE=r2); 0 is no set.
Versions == {1, 2}

\* whole: verify_backup.sh accepts it.
NoSet == [version |-> 0, rows |-> {}, files |-> {}, whole |-> FALSE]

Set == [version : {0} \cup Versions, rows : SUBSET Names, files : SUBSET Names, whole : BOOLEAN]

Stopped == [phase |-> "off", version |-> 0, rows |-> {}, files |-> {}, doomed |-> {}]

Runner == [phase : {"off", "locked", "dumped", "copied", "published", "verified", "retaining", "pruning"},
           version : {0} \cup Versions, rows : SUBSET Names, files : SUBSET Names, doomed : SUBSET Stamps]

NoDrill == [phase |-> "off", rows |-> {}, files |-> {}, status |-> "none"]

Drill == [phase : {"off", "restored"}, rows : SUBSET Names, files : SUBSET Names,
          status : {"none", "success", "failure"}]

Init ==
    /\ StoreInit /\ UploadInit /\ KoboInit
    /\ stamps = 0
    /\ sets   = [b \in Stamps |-> NoSet]
    /\ runner = Stopped
    /\ marker = [status |-> "none", stamp |-> 0]
    /\ drill  = NoDrill

\* iter_referenced_storage_names: the names all FileFields refer to.
References ==
    {n \in DocumentNames : document[n] # None}
        \cup ({attachment[a].name : a \in Attachments} \ {None})
        \cup ({evidence[a].file : a \in Evidence} \ {None})

Quiet == (\A w \in Clerks : job[w] = Idle) /\ (\A v \in Downloaders : download[v] = NoDownload)

Whole == {b \in Stamps : sets[b].whole}

Newer(b, bs) == {c \in bs : c > b}

-------------------------------------------------------------------------------
(* run_scheduled_backup.sh                                                 *)

StartRunner ==
    /\ runner = Stopped /\ Quiet
    /\ \E version \in Versions :
           runner' = [runner EXCEPT !.phase = "locked", !.version = version]
    /\ UNCHANGED <<stamps, sets, marker, drill>>

\* flock -n fails with status 8: the second runner says so in the marker.
LoseLock ==
    /\ runner # Stopped
    /\ marker' = [status |-> "failure", stamp |-> 0]
    /\ UNCHANGED <<stamps, sets, runner, drill>>

\* pg_dump
Dump ==
    /\ runner.phase = "locked"
    /\ runner' = [runner EXCEPT !.phase = "dumped", !.rows = References]
    /\ UNCHANGED <<stamps, sets, marker, drill>>

\* Mutant of Exported: what is missing is reported and left out.
ExportedAnyway(files) == TRUE

\* export_private_objects fails unless every referenced object was copied.
Exported(files) == files = References

\* tar of the whole MEDIA_ROOT, or export_private_objects.
CopyFiles ==
    LET files == IF runner.version = 2 THEN References \cap objects ELSE objects IN
    /\ runner.phase = "dumped"
    /\ runner.version = 2 => Exported(files)
    /\ runner' = [runner EXCEPT !.phase = "copied", !.files = files]
    /\ UNCHANGED <<stamps, sets, marker, drill>>

\* Any stage fails; nothing is published before its mv.
FailRunner ==
    /\ runner.phase \in {"locked", "dumped", "copied", "published", "verified", "retaining"}
    /\ runner' = Stopped
    /\ marker' = [status |-> "failure", stamp |-> 0]
    /\ UNCHANGED <<stamps, sets, drill>>

\* mv of the stage directory
Publish ==
    /\ runner.phase = "copied"
    /\ stamps < MaxSets
    /\ stamps' = stamps + 1
    /\ sets' = [sets EXCEPT ![stamps'] = [version |-> runner.version, rows |-> runner.rows,
                                          files |-> runner.files, whole |-> TRUE]]
    /\ runner' = [runner EXCEPT !.phase = "published"]
    /\ UNCHANGED <<marker, drill>>

Verify ==
    /\ runner.phase = "published"
    /\ sets[stamps].whole
    /\ runner' = [runner EXCEPT !.phase = "verified"]
    /\ UNCHANGED <<stamps, sets, marker, drill>>

\* Mutant of Protected: sets that do not verify count as well.
ProtectedOfAll(b) == Cardinality(Newer(b, {c \in Stamps : sets[c] # NoSet})) < KeepCount

\* apply_retention.sh: among the KeepCount newest sets that verify.
Protected(b) == Cardinality(Newer(b, Whole)) < KeepCount

\* apply_retention.sh, by the runner or by hand.  SIGEDON_BACKUP_KEEP_DAYS protects
\* all that are younger than "old"; without it old is the time of the last set.
Retain ==
    /\ runner.phase \in {"off", "verified"}
    /\ \E old \in 0..stamps :
           runner' = [runner EXCEPT !.phase = IF @ = "off" THEN "pruning" ELSE "retaining",
                                    !.doomed = {b \in Whole : b <= old /\ ~Protected(b)}]
    /\ UNCHANGED <<stamps, sets, marker, drill>>

\* rm -rf of one set
DeleteSet ==
    /\ \E b \in runner.doomed :
           /\ sets' = [sets EXCEPT ![b] = NoSet]
           /\ runner' = [runner EXCEPT !.doomed = @ \ {b}]
    /\ UNCHANGED <<stamps, marker, drill>>

Succeed ==
    /\ runner.phase = "retaining" /\ runner.doomed = {}
    /\ runner' = Stopped
    /\ marker' = [status |-> "success", stamp |-> stamps]
    /\ UNCHANGED <<stamps, sets, drill>>

\* A retention by hand writes no marker.
EndPruning ==
    /\ runner.phase = "pruning" /\ runner.doomed = {}
    /\ runner' = Stopped
    /\ UNCHANGED <<stamps, sets, marker, drill>>

\* SIGKILL or a power cut: no trap runs and no marker is written.  A set that was
\* being deleted is left in part.
Kill ==
    /\ runner # Stopped
    /\ runner' = Stopped
    /\ \/ UNCHANGED sets
       \/ \E b \in runner.doomed : sets' = [sets EXCEPT ![b].whole = FALSE]
    /\ UNCHANGED <<stamps, marker, drill>>

\* A set decays on the disk.
Decay(b) ==
    /\ runner = Stopped
    /\ sets[b].whole
    /\ sets' = [sets EXCEPT ![b].whole = FALSE]
    /\ UNCHANGED <<stamps, runner, marker, drill>>

-------------------------------------------------------------------------------
(* run_restore_drill.sh, which takes no lock                               *)

\* The newest set that verifies is restored into an empty place.
Restore ==
    /\ drill.phase = "off"
    /\ \E b \in Whole :
           /\ Newer(b, Whole) = {}
           /\ drill' = [phase |-> "restored", rows |-> sets[b].rows, files |-> sets[b].files,
                        status |-> drill.status]
    /\ UNCHANGED <<stamps, sets, runner, marker>>

\* verify_restored_data
Consistent(rows, files) == rows \subseteq files

\* The exit status of the commands in ( ... ) || { ... }: errexit has no effect
\* there, so that only the last one counts, which looks at the configuration.
ChainSucceeds(rows, files) == TRUE

\* The verification of Django, which the operator may leave out.
EndDrill ==
    /\ drill.phase = "restored"
    /\ drill' = [drill EXCEPT !.phase = "off",
                    !.status = IF ChainSucceeds(drill.rows, drill.files) THEN "success" ELSE "failure"]
    /\ UNCHANGED <<stamps, sets, runner, marker>>

\* Nothing verifies, the set disappears while it is restored, or a command fails.
FailDrill ==
    /\ drill' = [NoDrill EXCEPT !.status = "failure"]
    /\ UNCHANGED <<stamps, sets, runner, marker>>

BackupStep ==
    \/ StartRunner \/ LoseLock \/ Dump \/ CopyFiles \/ FailRunner \/ Publish \/ Verify
    \/ Retain \/ DeleteSet \/ Succeed \/ EndPruning \/ Kill
    \/ \E b \in Stamps : Decay(b)
    \/ Restore \/ EndDrill \/ FailDrill

-------------------------------------------------------------------------------

Next ==
    \/ runner = Stopped /\ UploadStep /\ UNCHANGED <<koboVars, backupVars>>
    \/ runner = Stopped /\ KoboStep /\ UNCHANGED <<uploadVars, backupVars>>
    \/ BackupStep /\ UNCHANGED <<storeVars, uploadVars, koboVars>>

Spec == Init /\ [][Next]_vars

-------------------------------------------------------------------------------

FilesTypeOK ==
    /\ UploadTypeOK /\ KoboTypeOK
    /\ stamps \in 0..MaxSets
    /\ sets \in [Stamps -> Set]
    /\ runner \in Runner
    /\ marker \in [status : {"none", "success", "failure"}, stamp : 0..MaxSets]
    /\ drill \in Drill

\* The names that may be freed by a deletion that is not committed yet.
BeingFreed == {attachment[job[w].row].name : w \in {x \in Clerks : job[x].phase = "freed"}}

\* No upload, failure, compensation, expiry or death leaves a row without its
\* object, or two rows with the same one; except for the attachments of requests,
\* whose object is deleted before the transaction commits: their names, and only
\* theirs, may lose it, and may be taken by another upload then.
RowsHaveTheirObject ==
    /\ References \subseteq objects \cup cut \cup BeingFreed
    /\ \A a, b \in Attachments :
           attachment[a].name = attachment[b].name /\ a # b
               => attachment[a].name \in cut \cup BeingFreed \cup {None}
    /\ cut \subseteq AttachmentNames

\* A set that was published gives back a database all of whose rows find their
\* file, whatever failed or was killed before; of version 1 except for the
\* rows that had lost it already.  And the set the last success names is there, or
\* a newer one.
BackupsRestore ==
    /\ \A b \in Stamps :
           sets[b].rows \subseteq sets[b].files \cup (IF sets[b].version = 1 THEN cut ELSE {})
    /\ marker.status = "success" => \E b \in Stamps : b >= marker.stamp /\ sets[b] # NoSet

\* A set is deleted only while KeepCount newer ones can be restored.
RetentionKeepsGood ==
    [][\A b \in Stamps :
           sets[b] # NoSet /\ sets'[b] = NoSet => Cardinality(Newer(b, Whole)) >= KeepCount]_backupVars

\* run_restore_drill.sh: "exit non-zero on any failed stage".  A drill that is
\* reported as a success left a database all of whose files are there.
DrillSuccessMeansConsistent ==
    drill.status = "success" /\ drill.phase = "off" => Consistent(drill.rows, drill.files)

==============================================================================
