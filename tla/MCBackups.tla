------------------------------ MODULE MCBackups ------------------------------
(***************************************************************************)
(* Backups for TLC.  What happens to a name depends on the other names     *)
(* only through the registered storage, which changes at any time, so one  *)
(* name shows what two would.  The configurations: none; a schedule that   *)
(* counts; PITR on the second storage, after one that is not S3; and two   *)
(* of PITR.                                                                *)
(***************************************************************************)
EXTENDS Backups

Entry(name, pitr, schedule) == [name |-> name, pitr |-> pitr, schedule |-> schedule]
Config(storages) == [enabled |-> TRUE, class |-> TRUE, storages |-> storages]

MCConfigs == {
    [enabled |-> FALSE, class |-> FALSE, storages |-> <<>>],
    Config(<<Entry("s1", FALSE, "count")>>),
    Config(<<Entry("nfs", FALSE, "noSchedule"), Entry("s1", TRUE, "keepAll")>>),
    Config(<<Entry("nfs", TRUE, "noSchedule"), Entry("s1", TRUE, "time")>>)}
=============================================================================
