----------------------------- MODULE BackupConfig -----------------------------
(***************************************************************************)
(* How the backup section of an Instance becomes the backup section of the *)
(* engine CR: buildBackupSpec (internal/provider/backup.go).               *)
(*                                                                         *)
(* A configuration lists storages in order, each with the PITR flag and    *)
(* the retention of its schedule.  A BackupStorage is S3 or of a kind that *)
(* PSMDB does not support.                                                 *)
(***************************************************************************)
EXTENDS Naturals, FiniteSets, Sequences, SequencesExt

Retentions == {"noSchedule", "keepAll", "count", "time"}

Entries(Storages) == [name : Storages, pitr : BOOLEAN, schedule : Retentions]

NoBackups == [enabled |-> FALSE, storages |-> {}, main |-> "", pitr |-> FALSE, tasks |-> {}]

\* The positions of the entries with PITR.
WithPITR(storages) == {i \in DOMAIN storages : storages[i].pitr}

\* Faulty variant: the order of the storages decides alone.
selectMainStorageNameFirst(storages) == IF storages = <<>> THEN "" ELSE storages[1].name

\* PITR writes to the main storage, so its storage is the main one.
selectMainStorageName(storages) ==
    LET on == WithPITR(storages)
    IN  IF on # {} THEN storages[CHOOSE i \in on : \A j \in on : i <= j].name
        ELSE IF storages # <<>> THEN storages[1].name
        ELSE ""

\* Faulty variant: a storage that is not S3 ends the list.
buildPSMDBStoragesStop(storages, S3) ==
    {storages[i].name : i \in {k \in DOMAIN storages : \A j \in 1..k : storages[j].name \in S3}}

\* The storages buildPSMDBStorages registers; others than S3 are skipped.
buildPSMDBStorages(storages, S3) == {s.name : s \in ToSet(storages)} \cap S3

\* The tasks the operator runs; a schedule that is off is as good as none.
buildPSMDBTasks(storages) ==
    {[storage |-> s.name, retention |-> s.schedule = "count"] :
        s \in {e \in ToSet(storages) : e.schedule # "noSchedule"}}

\* Every BackupStorage is there, PITR is on for one at most, and retention
\* counts.  Otherwise the pass fails and the CR stays as it is.
Buildable(config, present) ==
    config.enabled =>
        /\ \A s \in ToSet(config.storages) : s.name \in present /\ s.schedule # "time"
        /\ \A i, j \in WithPITR(config.storages) : i = j

buildBackupSpec(config, S3) ==
    IF ~config.enabled THEN NoBackups
    ELSE LET storages == buildPSMDBStorages(config.storages, S3)
             main == selectMainStorageName(config.storages)
         IN [enabled |-> TRUE, storages |-> storages,
             main |-> IF main \in storages THEN main ELSE "",
             pitr |-> WithPITR(config.storages) # {},
             tasks |-> buildPSMDBTasks(config.storages)]
=============================================================================
