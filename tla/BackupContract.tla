---------------------------- MODULE BackupContract ----------------------------
(***************************************************************************)
(* What the owner of an Instance may rely on about a backup, whatever the  *)
(* operator, its schedules and the passes of the provider do in between.   *)
(* A Backup that has ended stays as it ended, Succeeded means that there   *)
(* is something to restore from, and what is stored is lost only to        *)
(* retention or to the deletion of its Backup.                             *)
(***************************************************************************)
CONSTANT Names

VARIABLES
    shown,      \* shown[n]: what the owner sees of the Backup n
    data,       \* data[n]: what the storage has of it
    retention   \* the names that a schedule may prune

vars == <<shown, data, retention>>

Running == {"Pending", "Running"}
Ended == {"Succeeded", "Failed"}

Init ==
    /\ shown = [n \in Names |-> "absent"]
    /\ data = [n \in Names |-> "none"]
    /\ retention = {}

Show(n, from, to) ==
    /\ shown[n] \in from
    /\ shown' \in {[shown EXCEPT ![n] = s] : s \in to}
    /\ UNCHANGED data

Create(n) == Show(n, {"absent"}, {"Pending"})

Advance(n) == Show(n, Running, Running \cup {"Failed"})

Succeed(n) == data[n] = "stored" /\ Show(n, Running, {"Succeeded"})

Delete(n) == Show(n, Running \cup Ended, {"deleting"})

Release(n) == Show(n, {"deleting"}, {"absent"})

Store(n) ==
    /\ data[n] # "stored"
    /\ data' = [data EXCEPT ![n] = "stored"]
    /\ UNCHANGED shown

Purge(n) ==
    /\ data[n] = "stored"
    /\ shown[n] = "deleting" \/ n \in retention
    /\ data' = [data EXCEPT ![n] = "purged"]
    /\ UNCHANGED shown

Schedules == UNCHANGED <<shown, data>>

Next ==
    /\ \/ \E n \in Names :
             \/ Create(n) \/ Advance(n) \/ Succeed(n) \/ Delete(n) \/ Release(n)
             \/ Store(n) \/ Purge(n)
       \/ Schedules
    /\ retention' \in SUBSET Names

Spec == Init /\ [][Next]_vars
=============================================================================
