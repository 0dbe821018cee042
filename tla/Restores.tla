------------------------------- MODULE Restores -------------------------------
(***************************************************************************)
(* Restores and point-in-time recovery: SyncRestore with the resolution of *)
(* its source, CleanupRestore, and the recovery window that                *)
(* BackupStorageStatuses publishes (internal/provider/backup.go and        *)
(* backup_status.go).                                                      *)
(*                                                                         *)
(* One stream: the backups of one Instance on one storage.  Each has an    *)
(* operator backup, which the operator dates when it completes, and a      *)
(* Backup CR, which SyncBackup dates when it sees that.  One Restore at a  *)
(* time names a Backup, or the stream and a recovery target.  SyncRestore  *)
(* resolves the source anew in every pass, and writes it into the          *)
(* operator's PerconaServerMongoDBRestore in a later step.  Backups of     *)
(* origin External are imported (BackupImports) or created by hand.        *)
(*                                                                         *)
(* As in Backups, the runtime leaves a Restore in a terminal state alone   *)
(* until it is deleted.                                                    *)
(***************************************************************************)
EXTENDS Integers, FiniteSets, FiniteSetsExt, BackupImports

CONSTANTS
    Backups,        \* the backups
    NoBackup,       \* none of them
    CrossCluster,   \* the Restore is into an Instance other than the stream's
    MaxTime,        \* bound on time, in seconds
    MaxRestores     \* bound on the Restores

ASSUME BackupsAssumption == NoBackup \notin Backups /\ External \subseteq Backups /\ IsFiniteSet(Backups)
ASSUME CrossClusterAssumption == CrossCluster \in BOOLEAN
ASSUME TimeAssumption == MaxTime \in Nat /\ MaxRestores \in Nat

VARIABLES
    clock,
    op,         \* op[n]: the operator backup: none, new, running, ready or error
    opDone,     \* opDone[n]: its completedAt, kept when it is gone
    latest,     \* latest[n]: its latestRestorableTime, Unset until stamped
    backup,     \* backup[n]: status.state of the Backup, none before it, gone after
    done,       \* done[n]: its status.completedAt
    deleting,   \* Backups being deleted
    storage,    \* the BackupStorage of the external backups: absent, s3, other
    restore,    \* status.state of the Restore, none without one
    ending,     \* the Restore is being deleted
    target,     \* its dataSource
    asked,      \* when it was created, for the properties
    pc,         \* idle or write: where the pass on the Restore is
    chosen,     \* the source the pass resolved
    opRestore,  \* the operator restore: none, new, running, ready or error
    source,     \* the backup its spec names
    restores    \* Restores so far

backupVars == <<op, opDone, latest, backup, done, deleting, storage>>
crVars == <<restore, ending, target, asked, restores>>
opVars == <<opRestore, source>>
passVars == <<pc, chosen>>

vars == <<clock, backupVars, crVars, opVars, passVars, importVars>>

Unset == -1
Latest == -2
Times == 0..MaxTime
Targets ==
    [type : {"Backup"}, name : Backups]
        \cup [type : {"PointInTime"}, date : Times \cup {Latest}]
NoTarget == [type |-> "PointInTime", date |-> Latest]
Terminal == {"Succeeded", "Failed"}

TypeOK ==
    /\ clock \in Times
    /\ op \in [Backups -> {"none", "new", "running", "ready", "error"}]
    /\ opDone \in [Backups -> Times]
    /\ latest \in [Backups -> Times \cup {Unset}]
    /\ backup \in [Backups -> {"none", "Pending", "Succeeded", "Failed", "gone"}]
    /\ done \in [Backups -> Times]
    /\ deleting \subseteq Backups
    /\ storage \in {"absent", "s3", "other"}
    /\ restore \in {"none", "Pending", "Running", "Succeeded", "Failed"}
    /\ ending \in BOOLEAN
    /\ target \in Targets
    /\ asked \in Times
    /\ pc \in {"idle", "write"}
    /\ chosen \in Backups \cup {NoBackup}
    /\ opRestore \in {"none", "new", "running", "ready", "error"}
    /\ source \in Backups \cup {NoBackup}
    /\ restores \in 0..MaxRestores
    /\ ImportTypeOK

Init ==
    /\ clock = 0
    /\ op = [n \in Backups |-> "none"]
    /\ opDone = [n \in Backups |-> 0]
    /\ latest = [n \in Backups |-> Unset]
    /\ backup = [n \in Backups |-> "none"]
    /\ done = [n \in Backups |-> 0]
    /\ deleting = {}
    /\ storage \in IF External = {} THEN {"s3"} ELSE {"absent", "s3", "other"}
    /\ restore = "none"
    /\ ending = FALSE
    /\ target = NoTarget
    /\ asked = 0
    /\ pc = "idle"
    /\ chosen = NoBackup
    /\ opRestore = "none"
    /\ source = NoBackup
    /\ restores = 0
    /\ ImportInit

-----------------------------------------------------------------------------
(***************************************************************************)
(* Resolution of the source.                                               *)
(***************************************************************************)

\* Faulty variant: a base that completed after the target will do.
selectPITRBaseBackupAny(date) ==
    LET Candidates == {n \in Backups \ External : backup[n] = "Succeeded"}
    IN  {n \in Candidates : \A m \in Candidates : done[m] <= done[n]}

\* Faulty variant: a base that completed in the second of the target is left out.
selectPITRBaseBackupStrict(date) ==
    LET Candidates == {n \in Backups \ External :
                           backup[n] = "Succeeded" /\ (date = Latest \/ done[n] < date)}
    IN  {n \in Candidates : \A m \in Candidates : done[m] <= done[n]}

\* The bases for a recovery target: the newest Succeeded Backup of the stream
\* that completed at or before it, several when they completed together.
selectPITRBaseBackup(date) ==
    LET Candidates == {n \in Backups \ External :
                           backup[n] = "Succeeded" /\ (date = Latest \/ done[n] <= date)}
    IN  {n \in Candidates : \A m \in Candidates : done[m] <= done[n]}

Wait == [state |-> "Pending"]
Fail == [state |-> "Failed"]
Use(n) == [state |-> "usable", backup |-> n]

resolveBackupSource(n) ==
    CASE backup[n] \in {"none", "gone"}         -> Wait
      [] backup[n] = "Failed"                   -> Fail
      [] backup[n] \in {"Pending", "Succeeded"} -> Use(n)

resolvePointInTimeSource(date) ==
    LET Bases == selectPITRBaseBackup(date)
    IN  IF Bases = {} THEN {Wait} ELSE {Use(n) : n \in Bases}

resolveRestoreSource ==
    IF target.type = "Backup"
        THEN {resolveBackupSource(target.name)}
        ELSE resolvePointInTimeSource(target.date)

\* The path of an external backup is never empty.
buildExternalBackupSource(n) ==
    CASE storage = "absent" -> Wait
      [] storage = "other"  -> Fail
      [] storage = "s3"     -> Use(n)

\* The operator backup of another cluster is copied: it must be there and have
\* a destination, which it has from the start of its run.
copyOperatorBackup(n) == IF op[n] \in {"running", "ready", "error"} THEN Use(n) ELSE Wait

\* What SyncRestore makes of the source: by origin, and by cluster.
operatorSource(r) ==
    IF r.state # "usable" THEN r
    ELSE IF r.backup \in External THEN buildExternalBackupSource(r.backup)
    ELSE IF CrossCluster THEN copyOperatorBackup(r.backup)
    ELSE r

-----------------------------------------------------------------------------
(***************************************************************************)
(* SyncRestore.                                                            *)
(***************************************************************************)
Served == restore \notin Terminal \cup {"none"} /\ ~ending

\* No usable source: the pass ends with the state that says so.
EndUnresolved ==
    /\ pc = "idle"
    /\ Served
    /\ \E r \in resolveRestoreSource :
          /\ operatorSource(r).state # "usable"
          /\ restore' = operatorSource(r).state
    /\ UNCHANGED <<clock, backupVars, opVars, passVars, ending, target, asked, restores, importVars>>

\* Faulty variant: the source is resolved once, as the Restore is created.
ResolveOnce ==
    /\ pc = "idle"
    /\ Served
    /\ \E r \in resolveRestoreSource :
          /\ opRestore = "none"
          /\ operatorSource(r).state = "usable"
          /\ chosen' = r.backup
    /\ pc' = "write"
    /\ UNCHANGED <<clock, backupVars, crVars, opVars, importVars>>

Resolve ==
    /\ pc = "idle"
    /\ Served
    /\ \E r \in resolveRestoreSource :
          /\ operatorSource(r).state = "usable"
          /\ chosen' = r.backup
    /\ pc' = "write"
    /\ UNCHANGED <<clock, backupVars, crVars, opVars, importVars>>

\* What the state of the operator restore makes of the state of the Restore.
StateOf(r) ==
    CASE r = "new"     -> "Pending"
      [] r = "running" -> "Running"
      [] r = "ready"   -> "Succeeded"
      [] r = "error"   -> "Failed"

\* CreateOrUpdate, and the state.
Write ==
    /\ pc = "write"
    /\ opRestore' = IF opRestore = "none" THEN "new" ELSE opRestore
    /\ source' = chosen
    /\ restore' = StateOf(opRestore')
    /\ pc' = "idle"
    /\ chosen' = NoBackup
    /\ UNCHANGED <<clock, backupVars, ending, target, asked, restores, importVars>>

SyncRestore == EndUnresolved \/ Resolve \/ Write

-----------------------------------------------------------------------------
(***************************************************************************)
(* CleanupRestore deletes the operator restore, which has no finalizer,    *)
(* and is done when it finds none.                                         *)
(***************************************************************************)
CleanupRestore ==
    /\ pc = "idle"
    /\ ending
    /\ \/ /\ opRestore # "none"
          /\ opRestore' = "none"
          /\ source' = NoBackup
          /\ UNCHANGED <<restore, ending, target>>
       \/ /\ opRestore = "none"
          /\ restore' = "none"
          /\ ending' = FALSE
          /\ target' = NoTarget
          /\ UNCHANGED <<opRestore, source>>
    /\ UNCHANGED <<clock, backupVars, passVars, asked, restores, importVars>>

-----------------------------------------------------------------------------
(***************************************************************************)
(* BackupStorageStatuses.                                                  *)
(***************************************************************************)
collectStorageBackups == {n \in Backups : op[n] = "ready"}

\* The dates the window offers, none while it is unavailable.
pitrWindow ==
    LET Stamps == {latest[n] : n \in collectStorageBackups} \ {Unset}
    IN  IF Stamps = {} THEN {}
        ELSE Min({opDone[n] : n \in collectStorageBackups}) .. Max(Stamps)

\* An Instance reports Restoring while a Restore into it is not terminal.
hasActiveRestoreForInstance == Served

-----------------------------------------------------------------------------
(***************************************************************************)
(* Backups, as Backups.tla has them in more detail.                        *)
(***************************************************************************)

\* The runtime creates the Backups that ImportBackups returned and that are
\* not there.
CreateImported ==
    /\ storage = "s3"
    /\ Finish
    /\ LET new == {n \in found : backup[n] \in {"none", "gone"}} IN
       /\ backup' = [n \in Backups |-> IF n \in new THEN "Succeeded" ELSE backup[n]]
       /\ done' = [n \in Backups |-> IF n \in new THEN clock ELSE done[n]]
    /\ UNCHANGED <<clock, op, opDone, latest, deleting, storage, crVars, opVars, passVars>>

\* ImportBackups needs the client of an S3 storage.
ImportBackups ==
    \/ /\ storage = "s3"
       /\ Scan
       /\ UNCHANGED <<clock, backupVars, crVars, opVars, passVars>>
    \/ CreateImported

Outside ==
    /\ CallFails \/ CreateImport \/ \E n \in External : WriteDocument(n)
    /\ UNCHANGED <<clock, backupVars, crVars, opVars, passVars>>

\* An operator backup is created for its Backup; a Backup of origin External is
\* created by hand and has succeeded from the start.
TakeBackup(n) ==
    /\ backup[n] = "none"
    /\ clock > 0
    /\ \/ /\ n \in External
          /\ backup' = [backup EXCEPT ![n] = "Succeeded"]
          /\ done' = [done EXCEPT ![n] = clock]
          /\ UNCHANGED op
       \/ /\ n \notin External
          /\ backup' = [backup EXCEPT ![n] = "Pending"]
          /\ op' = [op EXCEPT ![n] = "new"]
          /\ UNCHANGED done
    /\ UNCHANGED <<clock, opDone, latest, deleting, storage, crVars, opVars, passVars, importVars>>

\* Faulty variant: the time is one from before the operator backup completed.
ObserveBackupEarly(n) ==
    /\ backup[n] = "Pending"
    /\ n \notin deleting
    /\ op[n] = "ready"
    /\ backup' = [backup EXCEPT ![n] = "Succeeded"]
    /\ done' = [done EXCEPT ![n] = 0]
    /\ UNCHANGED <<clock, op, opDone, latest, deleting, storage, crVars, opVars, passVars, importVars>>

\* SyncBackup sees that the operator backup completed and takes the time.
ObserveBackup(n) ==
    /\ backup[n] = "Pending"
    /\ n \notin deleting
    /\ \/ /\ op[n] = "ready"
          /\ backup' = [backup EXCEPT ![n] = "Succeeded"]
          /\ done' = [done EXCEPT ![n] = clock]
       \/ /\ op[n] = "error"
          /\ backup' = [backup EXCEPT ![n] = "Failed"]
          /\ UNCHANGED done
    /\ UNCHANGED <<clock, op, opDone, latest, deleting, storage, crVars, opVars, passVars, importVars>>

DeleteBackup(n) ==
    /\ backup[n] \notin {"none", "gone"}
    /\ n \notin deleting
    /\ deleting' = deleting \cup {n}
    /\ UNCHANGED <<clock, op, opDone, latest, backup, done, storage, crVars, opVars, passVars, importVars>>

\* CleanupBackup: first the operator backup goes, then the Backup, for good.
CleanupBackup(n) ==
    /\ n \in deleting
    /\ \/ /\ op[n] # "none"
          /\ op' = [op EXCEPT ![n] = "none"]
          /\ latest' = [latest EXCEPT ![n] = Unset]
          /\ UNCHANGED <<backup, deleting>>
       \/ /\ op[n] = "none"
          /\ backup' = [backup EXCEPT ![n] = "gone"]
          /\ deleting' = deleting \ {n}
          /\ UNCHANGED <<op, latest>>
    /\ UNCHANGED <<clock, opDone, done, storage, crVars, opVars, passVars, importVars>>

-----------------------------------------------------------------------------
(***************************************************************************)
(* The user, time, and the operator with PBM.                              *)
(***************************************************************************)
CreateRestore ==
    /\ restore = "none"
    /\ restores < MaxRestores
    /\ restores' = restores + 1
    /\ restore' = "Pending"
    /\ asked' = clock
    /\ target' \in Targets
    /\ UNCHANGED <<clock, backupVars, ending, opVars, passVars, importVars>>

DeleteRestore ==
    /\ restore # "none"
    /\ ~ending
    /\ ending' = TRUE
    /\ UNCHANGED <<clock, backupVars, restore, target, asked, restores, opVars, passVars, importVars>>

CreateStorage ==
    /\ storage = "absent"
    /\ storage' \in {"s3", "other"}
    /\ UNCHANGED <<clock, op, opDone, latest, backup, done, deleting, crVars, opVars, passVars, importVars>>

Tick ==
    /\ clock < MaxTime
    /\ clock' = clock + 1
    /\ UNCHANGED <<backupVars, crVars, opVars, passVars, importVars>>

StartBackup(n) ==
    /\ op[n] = "new"
    /\ op' = [op EXCEPT ![n] = "running"]
    /\ UNCHANGED <<clock, opDone, latest, backup, done, deleting, storage, crVars, opVars, passVars, importVars>>

CompleteBackup(n) ==
    /\ op[n] = "running"
    /\ \/ /\ op' = [op EXCEPT ![n] = "ready"]
          /\ opDone' = [opDone EXCEPT ![n] = clock]
       \/ /\ op' = [op EXCEPT ![n] = "error"]
          /\ UNCHANGED opDone
    /\ UNCHANGED <<clock, latest, backup, done, deleting, storage, crVars, opVars, passVars, importVars>>

\* PBM refreshes the newest backup with the end of the oplog it has stored.
StampLatest(n) ==
    /\ op[n] = "ready"
    /\ \A m \in Backups : op[m] = "ready" => opDone[m] <= opDone[n]
    /\ latest[n] < clock
    /\ latest' = [latest EXCEPT ![n] = clock]
    /\ UNCHANGED <<clock, op, opDone, backup, done, deleting, storage, crVars, opVars, passVars, importVars>>

\* A restore by name needs the operator backup; a copied source does not.
RunRestore ==
    /\ opRestore = "new"
    /\ opRestore' = IF ~CrossCluster /\ source \notin External /\ op[source] = "none"
                        THEN "error" ELSE "running"
    /\ UNCHANGED <<clock, backupVars, crVars, passVars, source, importVars>>

EndRestore ==
    /\ opRestore = "running"
    /\ opRestore' \in {"ready", "error"}
    /\ UNCHANGED <<clock, backupVars, crVars, passVars, source, importVars>>

-----------------------------------------------------------------------------
Next ==
    \/ SyncRestore
    \/ CleanupRestore
    \/ CreateRestore
    \/ DeleteRestore
    \/ CreateStorage
    \/ Tick
    \/ RunRestore
    \/ EndRestore
    \/ ImportBackups
    \/ Outside
    \/ \E n \in Backups :
          \/ TakeBackup(n)
          \/ ObserveBackup(n)
          \/ DeleteBackup(n)
          \/ CleanupBackup(n)
          \/ StartBackup(n)
          \/ CompleteBackup(n)
          \/ StampLatest(n)

Spec == Init /\ [][Next]_vars

(***************************************************************************)
(* The runtime serves the Restore while it has work, and the operator      *)
(* finishes what it starts.                                                *)
(***************************************************************************)
Fairness ==
    /\ WF_vars(SyncRestore)
    /\ WF_vars(CleanupRestore)
    /\ WF_vars(RunRestore)
    /\ WF_vars(EndRestore)
    /\ WF_vars(ImportBackups)

FairSpec == Spec /\ Fairness

-----------------------------------------------------------------------------
(***************************************************************************)
(* Properties.                                                             *)
(***************************************************************************)

\* selectPITRBaseBackup: the oplog is replayed forward from the base, so the
\* operator's backup must have completed at or before the date asked for,
\* though the code compares the date with the time SyncBackup took.
BaseBeforeTarget ==
    opRestore # "none" /\ target.type = "PointInTime" /\ target.date # Latest
        => opDone[source] <= target.date

\* SyncRestore rewrites its operator restore in every pass: once written, a
\* restore to a date in the past keeps its base, even while it runs, unless
\* the Backup of that base goes.  Of Backups completed in the same second
\* either may be the base.
PastDateSettled ==
    [][ (/\ opRestore # "none" /\ opRestore' # "none"
         /\ target.type = "PointInTime" /\ target.date # Latest /\ target.date < asked
         /\ source' # source)
            => backup'[source] = "gone" \/ done[source'] = done[source] ]_vars

\* BackupStorageStatuses: each date in the window it publishes has a base, when
\* every backup behind the window was observed in the second it completed.
WindowHasBase ==
    (\A n \in collectStorageBackups : backup[n] = "Succeeded" /\ done[n] = opDone[n])
        => \A d \in pitrWindow : selectPITRBaseBackup(d) # {}

Usable == \E r \in resolveRestoreSource : operatorSource(r).state = "usable"

\* SyncRestore: a Restore with a usable source reaches a terminal state,
\* unless it is deleted or its source ceases to be usable.
RestoreEnds == (Served /\ Usable) ~> (~Served \/ ~Usable)

\* ImportBackups: a document that is done before the listing comes to it, and
\* stays, becomes a Backup, though calls fail and other documents come and go.
ImportFinds ==
    \A n \in External :
        (import = "Pending" /\ storage = "s3" /\ n \in ahead /\ document[n] = "done")
            ~> (backup[n] = "Succeeded" \/ document[n] # "done")

\* The documents that are done and that the listing has ahead of it, or found.
Due == {n \in External : document[n] = "done" /\ n \in ahead \cup page \cup found}

WithBackup == {n \in External : backup[n] \notin {"none", "gone"}}

Contract == INSTANCE ImportContract
    WITH Documents <- External, content <- document, status <- import, due <- Due,
         held <- WithBackup

\* ImportBackups implements ImportContract: what was done when an import began
\* and is there as it ends has its Backup then, though calls fail, pages change
\* under the listing and the whole is read again.
ImportKept == Contract!Spec

\* provider.go says that the Restore reaching a terminal state ends the
\* restore: once the operator's restore is over, the Restore should say so,
\* and the Instance leave Restoring.
FinishedReported == (opRestore \in {"ready", "error"}) ~> ~hasActiveRestoreForInstance
=============================================================================
