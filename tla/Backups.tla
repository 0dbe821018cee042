------------------------------- MODULE Backups -------------------------------
(***************************************************************************)
(* Backups from creation to deletion: SyncBackup, CleanupBackup and Mirror *)
(* (internal/provider/backup.go).                                          *)
(*                                                                         *)
(* A Backup CR and the operator's PerconaServerMongoDBBackup share a name. *)
(* The user creates the Backup of an on-demand run and SyncBackup its      *)
(* operator backup; the operator creates the operator backup of a          *)
(* scheduled run and Mirror its Backup.  What is stored outlives both: the *)
(* operator purges it when it deletes an operator backup that carries the  *)
(* delete-backup finalizer.                                                *)
(*                                                                         *)
(* The runtime serves one name at a time, so SyncBackup and CleanupBackup  *)
(* of a name never overlap.  It leaves a Backup that has reached a         *)
(* terminal state alone until it is deleted, and a Backup stays, with its  *)
(* DeletionTimestamp, until CleanupBackup reports that it is done.  Writes *)
(* of an object that changed since it was read fail and are retried, so a  *)
(* read and the write that follows it are one step.                        *)
(***************************************************************************)
EXTENDS Integers, BackupConfig

CONSTANTS
    Names,          \* names of backups
    Storage,        \* the BackupStorage they go to
    Storages, S3,   \* the BackupStorages of the Instance, and those that are S3
    Configs,        \* backup sections an Instance may have
    MaxFailures     \* bound on the API calls that fail

ASSUME FailuresAssumption == MaxFailures \in Nat
ASSUME StoragesAssumption == Storage \in S3 /\ S3 \subseteq Storages /\ "" \notin Storages
ASSUME ConfigsAssumption ==
    \A c \in Configs : /\ c.enabled \in BOOLEAN /\ c.class \in BOOLEAN
                       /\ c.storages \in Seq(Entries(Storages))

VARIABLES
    backup,     \* backup[n]: the Backup CR: none, live or deleting
    policy,     \* policy[n]: its deletionPolicy
    state,      \* state[n]: its status.state
    opBackup,   \* opBackup[n]: the operator backup: none, live or deleting
    run,        \* run[n]: its status.state: new, running, ready or error
    finalizer,  \* operator backups with the delete-backup finalizer
    scheduled,  \* operator backups with the label of a schedule
    owned,      \* operator backups with a controller reference to the Backup
    stored,     \* stored[n]: the backup in the storage: none, stored or purged
    config,     \* the backup section of the Instance
    present,    \* the BackupStorages that exist
    crBackup,   \* the backup section of the engine CR
    pc,         \* pc[n]: where the pass on n is
    want,       \* want[n]: the deletionPolicy in the Backup the pass works on
    mirrored,   \* names Mirror returned a Backup for that is yet to be created
    cascading,  \* names whose Backup was last deleted in the foreground
    kept,       \* Backups deleted with Retain and not pruned, for the properties
    failures

backupVars == <<backup, policy, state, cascading, kept>>
opVars == <<opBackup, run, finalizer, scheduled, owned, stored>>
passVars == <<pc, want>>
clusterVars == <<config, present, crBackup>>

vars == <<backupVars, opVars, passVars, clusterVars, mirrored, failures>>

Objects == {"none", "live", "deleting"}
Policies == {"Delete", "Retain"}
States == {"Pending", "Running", "Succeeded", "Failed"}
Terminal == {"Succeeded", "Failed"}

CRTyped == crBackup.storages \subseteq Storages /\ crBackup.main \in Storages \cup {""}

TypeOK ==
    /\ backup \in [Names -> Objects]
    /\ policy \in [Names -> Policies]
    /\ state \in [Names -> States]
    /\ opBackup \in [Names -> Objects]
    /\ run \in [Names -> {"new", "running", "ready", "error"}]
    /\ finalizer \subseteq Names
    /\ scheduled \subseteq Names
    /\ owned \subseteq Names
    /\ stored \in [Names -> {"none", "stored", "purged"}]
    /\ config \in Configs
    /\ present \subseteq Storages
    /\ CRTyped
    /\ pc \in [Names -> {"idle", "sync", "cleanup", "delete"}]
    /\ want \in [Names -> Policies]
    /\ mirrored \subseteq Names
    /\ cascading \subseteq Names
    /\ kept \subseteq Names
    /\ failures \in 0..MaxFailures

Init ==
    /\ backup = [n \in Names |-> "none"]
    /\ policy = [n \in Names |-> "Delete"]
    /\ state = [n \in Names |-> "Pending"]
    /\ opBackup = [n \in Names |-> "none"]
    /\ run = [n \in Names |-> "new"]
    /\ finalizer = {}
    /\ scheduled = {}
    /\ owned = {}
    /\ stored = [n \in Names |-> "none"]
    /\ config \in Configs
    /\ present \in {Storages, Storages \ {Storage}}
    /\ crBackup = NoBackups
    /\ pc = [n \in Names |-> "idle"]
    /\ want = [n \in Names |-> "Delete"]
    /\ mirrored = {}
    /\ cascading = {}
    /\ kept = {}
    /\ failures = 0

-----------------------------------------------------------------------------
(***************************************************************************)
(* Operator backups.                                                       *)
(***************************************************************************)

\* The operator backup is gone, with everything it carried.
Vanish(n) ==
    /\ opBackup' = [opBackup EXCEPT ![n] = "none"]
    /\ run' = [run EXCEPT ![n] = "new"]
    /\ finalizer' = finalizer \ {n}
    /\ scheduled' = scheduled \ {n}
    /\ owned' = owned \ {n}

\* A delete of the operator backup: with a finalizer it stays for now.
DeleteOpBackup(n) ==
    \/ /\ n \in finalizer
       /\ opBackup' = [opBackup EXCEPT ![n] = "deleting"]
       /\ UNCHANGED <<run, finalizer, scheduled, owned>>
    \/ /\ n \notin finalizer
       /\ Vanish(n)

-----------------------------------------------------------------------------
(***************************************************************************)
(* SyncPSMDB, as far as backups go: it resolves the storages and applies   *)
(* the CR later in the same pass.  What is edited in between is for the    *)
(* next pass, so the two are one step.                                     *)
(***************************************************************************)
SyncPSMDB ==
    /\ Buildable(config, present)
    /\ crBackup' = buildBackupSpec(config, S3)
    /\ UNCHANGED <<backupVars, opVars, passVars, config, present, mirrored, failures>>

registered == Storage \in crBackup.storages

-----------------------------------------------------------------------------
(***************************************************************************)
(* SyncBackup.                                                             *)
(***************************************************************************)
BeginSync(n) ==
    /\ pc[n] = "idle"
    /\ backup[n] = "live"
    /\ state[n] \notin Terminal
    /\ pc' = [pc EXCEPT ![n] = "sync"]
    /\ UNCHANGED <<backupVars, opVars, want, clusterVars, mirrored, failures>>

\* Faulty variant: an operator backup that has left the queue counts as done.
StateOfEarly(r) ==
    CASE r = "new"     -> "Pending"
      [] r \in {"running", "ready"} -> "Succeeded"
      [] r = "error"   -> "Failed"

\* What the state of the operator backup makes of the state of the Backup.
StateOf(r) ==
    CASE r = "new"     -> "Pending"
      [] r = "running" -> "Running"
      [] r = "ready"   -> "Succeeded"
      [] r = "error"   -> "Failed"

\* The storage is not registered (or there is no cluster), or CreateOrUpdate
\* creates the operator backup, or adopts the one that is there.
SyncBackup(n) ==
    /\ pc[n] = "sync"
    /\ pc' = [pc EXCEPT ![n] = "idle"]
    /\ \/ /\ ~registered
          /\ state' = [state EXCEPT ![n] = "Pending"]
          /\ UNCHANGED <<opBackup, finalizer, owned>>
       \/ /\ registered
          /\ state' = [state EXCEPT ![n] = StateOf(run[n])]
          /\ opBackup' = IF opBackup[n] = "none" THEN [opBackup EXCEPT ![n] = "live"] ELSE opBackup
          /\ finalizer' = finalizer \cup {n}
          /\ owned' = owned \cup {n}
    /\ UNCHANGED <<backup, policy, cascading, kept, run, scheduled, stored, want, clusterVars,
                   mirrored, failures>>

-----------------------------------------------------------------------------
(***************************************************************************)
(* CleanupBackup: reads the operator backup, strips the finalizer when the *)
(* policy is Retain, and deletes what is not being deleted yet.  It is     *)
(* called again until it finds no operator backup.                         *)
(***************************************************************************)
BeginCleanup(n) ==
    /\ pc[n] = "idle"
    /\ backup[n] = "deleting"
    /\ pc' = [pc EXCEPT ![n] = "cleanup"]
    /\ want' = [want EXCEPT ![n] = policy[n]]
    /\ UNCHANGED <<backupVars, opVars, clusterVars, mirrored, failures>>

\* Faulty variant: the delete of the operator backup is enough to be done.
CleanupDoneEarly(n) ==
    /\ pc[n] = "cleanup"
    /\ opBackup[n] # "live"
    /\ backup' = [backup EXCEPT ![n] = "none"]
    /\ pc' = [pc EXCEPT ![n] = "idle"]
    /\ UNCHANGED <<opVars, policy, state, cascading, kept, want, clusterVars, mirrored, failures>>

\* The runtime removes its finalizer and the Backup goes.
CleanupDone(n) ==
    /\ pc[n] = "cleanup"
    /\ opBackup[n] = "none"
    /\ backup' = [backup EXCEPT ![n] = "none"]
    /\ pc' = [pc EXCEPT ![n] = "idle"]
    /\ UNCHANGED <<opVars, policy, state, cascading, kept, want, clusterVars, mirrored, failures>>

\* Faulty variant: the finalizer stays until the delete has been sent.
StripFinalizerLate(n) ==
    /\ pc[n] = "cleanup"
    /\ want[n] = "Retain" /\ n \in finalizer
    /\ \/ /\ opBackup[n] = "live"
          /\ pc' = [pc EXCEPT ![n] = "delete"]
          /\ UNCHANGED <<opBackup, run, finalizer, scheduled, owned>>
       \/ /\ opBackup[n] = "deleting"
          /\ Vanish(n)
          /\ pc' = [pc EXCEPT ![n] = "idle"]
    /\ UNCHANGED <<backupVars, stored, want, clusterVars, mirrored, failures>>

\* Faulty variant: the finalizer goes whatever the policy says.
StripFinalizerAlways(n) ==
    /\ pc[n] = "cleanup"
    /\ n \in finalizer
    /\ opBackup[n] = "live"
    /\ finalizer' = finalizer \ {n}
    /\ pc' = [pc EXCEPT ![n] = "delete"]
    /\ UNCHANGED <<opBackup, run, scheduled, owned, backupVars, stored, want, clusterVars,
                   mirrored, failures>>

\* An operator backup that is already being deleted goes with its finalizer.
StripFinalizer(n) ==
    /\ pc[n] = "cleanup"
    /\ opBackup[n] # "none"
    /\ want[n] = "Retain" /\ n \in finalizer
    /\ \/ /\ opBackup[n] = "live"
          /\ finalizer' = finalizer \ {n}
          /\ pc' = [pc EXCEPT ![n] = "delete"]
          /\ UNCHANGED <<opBackup, run, scheduled, owned>>
       \/ /\ opBackup[n] = "deleting"
          /\ Vanish(n)
          /\ pc' = [pc EXCEPT ![n] = "idle"]
    /\ UNCHANGED <<backupVars, stored, want, clusterVars, mirrored, failures>>

\* Faulty variant: what carries a finalizer is left to the operator.
KeepFinalizerAndLeave(n) ==
    /\ pc[n] = "cleanup"
    /\ opBackup[n] # "none"
    /\ want[n] = "Delete" \/ n \notin finalizer
    /\ pc' = [pc EXCEPT ![n] = IF n \in finalizer THEN "idle" ELSE "delete"]
    /\ UNCHANGED <<backupVars, opVars, want, clusterVars, mirrored, failures>>

KeepFinalizer(n) ==
    /\ pc[n] = "cleanup"
    /\ opBackup[n] # "none"
    /\ want[n] = "Delete" \/ n \notin finalizer
    /\ pc' = [pc EXCEPT ![n] = IF opBackup[n] = "live" THEN "delete" ELSE "idle"]
    /\ UNCHANGED <<backupVars, opVars, want, clusterVars, mirrored, failures>>

\* By now somebody else may have deleted it.
CleanupDelete(n) ==
    /\ pc[n] = "delete"
    /\ pc' = [pc EXCEPT ![n] = "idle"]
    /\ \/ opBackup[n] # "none" /\ DeleteOpBackup(n)
       \/ opBackup[n] = "none" /\ UNCHANGED <<opBackup, run, finalizer, scheduled, owned>>
    /\ UNCHANGED <<backupVars, stored, want, clusterVars, mirrored, failures>>

CleanupBackup(n) == CleanupDone(n) \/ StripFinalizer(n) \/ KeepFinalizer(n) \/ CleanupDelete(n)

\* A call fails: the handler returns the error and is called again.
PassFails(n) ==
    /\ pc[n] # "idle"
    /\ failures < MaxFailures
    /\ failures' = failures + 1
    /\ pc' = [pc EXCEPT ![n] = "idle"]
    /\ UNCHANGED <<backupVars, opVars, want, clusterVars, mirrored>>

-----------------------------------------------------------------------------
(***************************************************************************)
(* Mirror, on an event of the operator backup of a schedule.  The runtime  *)
(* creates the Backup it returns unless there is one of that name.         *)
(***************************************************************************)
NewBackup(n, p) ==
    /\ backup' = [backup EXCEPT ![n] = "live"]
    /\ policy' = [policy EXCEPT ![n] = p]
    /\ state' = [state EXCEPT ![n] = "Pending"]
    /\ kept' = kept \ {n}
    /\ cascading' = cascading \ {n}

\* Faulty variant: only a backup that is ready gets a Backup.
MirrorReady(n) ==
    /\ opBackup[n] # "none"
    /\ n \in scheduled
    /\ config.class
    /\ run[n] = "ready"
    /\ n \notin mirrored
    /\ mirrored' = mirrored \cup {n}
    /\ UNCHANGED <<backupVars, opVars, passVars, clusterVars, failures>>

\* The Instance stays.
Mirror(n) ==
    /\ opBackup[n] # "none"
    /\ n \in scheduled
    /\ config.class
    /\ n \notin mirrored
    /\ mirrored' = mirrored \cup {n}
    /\ UNCHANGED <<backupVars, opVars, passVars, clusterVars, failures>>

CreateMirror(n) ==
    /\ n \in mirrored
    /\ mirrored' = mirrored \ {n}
    /\ \/ backup[n] = "none" /\ NewBackup(n, "Delete")
       \/ backup[n] # "none" /\ UNCHANGED backupVars
    /\ UNCHANGED <<opVars, passVars, clusterVars, failures>>

-----------------------------------------------------------------------------
(***************************************************************************)
(* The user.                                                               *)
(***************************************************************************)
CreateBackup(n) ==
    /\ backup[n] = "none"
    /\ opBackup[n] = "none"
    /\ stored[n] = "none"
    /\ \E p \in Policies : NewBackup(n, p)
    /\ UNCHANGED <<opVars, passVars, clusterVars, mirrored, failures>>

EditPolicy(n) ==
    /\ backup[n] = "live"
    /\ \E p \in Policies \ {policy[n]} : policy' = [policy EXCEPT ![n] = p]
    /\ UNCHANGED <<opVars, passVars, clusterVars, mirrored, backup, state, cascading, kept, failures>>

\* In the foreground the garbage collector deletes what the Backup owns first.
DeleteBackup(n) ==
    /\ backup[n] = "live"
    /\ backup' = [backup EXCEPT ![n] = "deleting"]
    /\ kept' = IF policy[n] = "Retain" /\ opBackup[n] # "deleting" /\ stored[n] # "purged"
                  THEN kept \cup {n} ELSE kept
    /\ cascading' \in {cascading, cascading \cup {n}}
    /\ UNCHANGED <<opVars, passVars, clusterVars, mirrored, policy, state, failures>>

EditConfig ==
    /\ config' \in Configs \ {config}
    /\ UNCHANGED <<backupVars, opVars, passVars, present, crBackup, mirrored, failures>>

EditStorages ==
    /\ present' = IF Storage \in present THEN present \ {Storage} ELSE present \cup {Storage}
    /\ UNCHANGED <<backupVars, opVars, passVars, config, crBackup, mirrored, failures>>

-----------------------------------------------------------------------------
(***************************************************************************)
(* The cluster, which is not this repository's code: the operator with its *)
(* schedules and their retention, PBM, and the garbage collector.          *)
(***************************************************************************)

\* Retention deletes from the storage, so the backups of a schedule that has
\* it carry the finalizer from the start.  A scheduled name is used once.
Schedule(n) ==
    /\ registered
    /\ opBackup[n] = "none" /\ backup[n] = "none" /\ stored[n] = "none" /\ n \notin mirrored
    /\ \E t \in crBackup.tasks :
          /\ t.storage = Storage
          /\ finalizer' = IF t.retention THEN finalizer \cup {n} ELSE finalizer
    /\ opBackup' = [opBackup EXCEPT ![n] = "live"]
    /\ scheduled' = scheduled \cup {n}
    /\ UNCHANGED <<backupVars, passVars, clusterVars, mirrored, failures, run, owned, stored>>

StartRun(n) ==
    /\ opBackup[n] = "live"
    /\ run[n] = "new"
    /\ run' = [run EXCEPT ![n] = "running"]
    /\ UNCHANGED <<backupVars, passVars, clusterVars, mirrored, failures, opBackup, finalizer,
                   scheduled, owned, stored>>

EndRun(n) ==
    /\ opBackup[n] = "live"
    /\ run[n] = "running"
    /\ \/ /\ run' = [run EXCEPT ![n] = "ready"]
          /\ stored' = [stored EXCEPT ![n] = "stored"]
       \/ /\ run' = [run EXCEPT ![n] = "error"]
          /\ UNCHANGED stored
    /\ UNCHANGED <<backupVars, passVars, clusterVars, mirrored, failures, opBackup, finalizer,
                   scheduled, owned>>

\* Retention prunes a scheduled backup, whatever the policy of its Backup.
Prune(n) ==
    /\ opBackup[n] = "live"
    /\ n \in scheduled
    /\ run[n] = "ready"
    /\ \E t \in crBackup.tasks : t.storage = Storage /\ t.retention
    /\ DeleteOpBackup(n)
    /\ kept' = kept \ {n}
    /\ UNCHANGED <<backup, policy, state, cascading, passVars, clusterVars, mirrored, failures, stored>>

\* The delete-backup finalizer of the operator.
Purge(n) ==
    /\ opBackup[n] = "deleting"
    /\ stored' = [stored EXCEPT ![n] = IF @ = "stored" THEN "purged" ELSE @]
    /\ Vanish(n)
    /\ UNCHANGED <<backupVars, passVars, clusterVars, mirrored, failures>>

CollectDependents(n) ==
    /\ n \in cascading
    /\ n \in owned
    /\ opBackup[n] = "live"
    /\ DeleteOpBackup(n)
    /\ UNCHANGED <<backupVars, passVars, clusterVars, mirrored, failures, stored>>

-----------------------------------------------------------------------------
Runtime(n) ==
    \/ BeginSync(n)
    \/ SyncBackup(n)
    \/ BeginCleanup(n)
    \/ CleanupBackup(n)
    \/ CreateMirror(n)

Cluster(n) == StartRun(n) \/ EndRun(n) \/ Purge(n) \/ CollectDependents(n)

Next ==
    \/ SyncPSMDB
    \/ EditConfig
    \/ EditStorages
    \/ \E n \in Names :
          \/ Runtime(n)
          \/ PassFails(n)
          \/ Mirror(n)
          \/ CreateBackup(n)
          \/ EditPolicy(n)
          \/ DeleteBackup(n)
          \/ Schedule(n)
          \/ Prune(n)
          \/ Cluster(n)

Spec == Init /\ [][Next]_vars

(***************************************************************************)
(* The runtime serves what waits for it and delivers the events of         *)
(* operator backups, and the operator finishes runs and deletions.  Users, *)
(* schedules, retention and failures are owed nothing.                     *)
(***************************************************************************)
Fairness ==
    /\ WF_vars(SyncPSMDB)
    /\ \A n \in Names :
        /\ WF_vars(BeginSync(n) \/ SyncBackup(n) \/ BeginCleanup(n) \/ CleanupBackup(n))
        /\ WF_vars(Mirror(n))
        /\ WF_vars(CreateMirror(n))
        /\ WF_vars(StartRun(n) \/ EndRun(n))
        /\ WF_vars(Purge(n))

FairSpec == Spec /\ Fairness

-----------------------------------------------------------------------------
(***************************************************************************)
(* Properties.                                                             *)
(***************************************************************************)

\* CleanupBackup: deleting a Backup whose deletionPolicy is Retain leaves what
\* it stored in the storage.  Retention of a schedule may still prune it, and
\* a deletion in the foreground races with the garbage collector.
RetainKeepsObject == \A n \in kept \ cascading : stored[n] # "purged"

\* CleanupBackup and SyncBackup: an operator backup made for a Backup never
\* outlives it, also when the Backup is deleted while SyncBackup creates it.
NoOrphans ==
    \A n \in Names : opBackup[n] # "none" /\ n \notin scheduled => backup[n] # "none"

\* CleanupBackup: a Backup that is deleted goes in the end, whatever its run
\* and its storage do meanwhile.
DeletionEnds == \A n \in Names : backup[n] = "deleting" ~> backup[n] = "none"

\* CleanupBackup: with the policy Delete the storage loses what the operator
\* backup stored, from the time that it carries the finalizer.
DeletePurges ==
    \A n \in Names :
        (/\ backup[n] = "deleting" /\ policy[n] = "Delete"
         /\ n \in finalizer /\ stored[n] = "stored")
            ~> stored[n] = "purged"

\* Mirror: the operator backup of a schedule gets a Backup, also when the run
\* fails, unless it goes before or the Instance loses its backup class.
ScheduledMirrored ==
    \A n \in Names :
        (n \in scheduled /\ opBackup[n] = "live") ~>
            (backup[n] # "none" \/ opBackup[n] = "none" \/ ~config.class)

\* selectMainStorageName: what PITR writes to is the main storage, in every CR
\* that a pass has applied for some configuration, whatever was edited since.
\* Only a storage that is not S3 is left without.
PITRWritesToMain ==
    crBackup.pitr =>
        \E c \in Configs :
            /\ Buildable(c, Storages) /\ crBackup = buildBackupSpec(c, S3)
            /\ \E e \in ToSet(c.storages) : e.pitr /\ (e.name \in S3 => crBackup.main = e.name)

Shown(n) ==
    CASE backup[n] = "none"     -> "absent"
      [] backup[n] = "live"     -> state[n]
      [] backup[n] = "deleting" -> "deleting"

Contract == INSTANCE BackupContract
    WITH shown <- [n \in Names |-> Shown(n)], data <- stored, retention <- scheduled

\* SyncBackup, CleanupBackup and Mirror implement the contract of BackupContract:
\* a Backup that has ended stays as it ended, Succeeded means that there is
\* something stored, and only retention or deletion loses it.
ContractKept == Contract!Spec

Runnable ==
    /\ config.enabled /\ Storage \in {e.name : e \in ToSet(config.storages)}
    /\ Buildable(config, present)

\* buildBackupSpec, SyncBackup: while the configuration names the storage and can
\* be built, a Backup that stays is run to its end.
PendingEnds ==
    \A n \in Names :
        (backup[n] = "live" /\ Runnable) ~>
            (state[n] \in Terminal \/ backup[n] # "live" \/ ~Runnable)
=============================================================================
