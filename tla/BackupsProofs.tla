---------------------------- MODULE BackupsProofs ----------------------------
(***************************************************************************)
(* Safety of Backups for every set of names, storages and configurations,  *)
(* and that it implements BackupContract.                                  *)
(***************************************************************************)
EXTENDS Backups, TLAPS

USE DEF backupVars, opVars, passVars, clusterVars, vars

(***************************************************************************)
(* What is known of a name between the steps of the passes on it.          *)
(***************************************************************************)

\* SyncBackup works on a Backup that has not ended, and CleanupBackup on one
\* that is being deleted, with the policy it had then.
PassHeld(n) ==
    /\ pc[n] = "sync" => backup[n] # "none" /\ state[n] \notin Terminal
    /\ pc[n] \in {"cleanup", "delete"} => backup[n] = "deleting" /\ want[n] = policy[n]
    /\ pc[n] = "delete" /\ want[n] = "Retain" => n \notin finalizer

\* There is no operator backup, and nothing left of it.
Gone(n) ==
    opBackup[n] = "none" /\ run[n] = "new" /\ n \notin finalizer /\ n \notin scheduled /\ n \notin owned

\* Operator backups have a schedule or a Backup, and are deleted for a reason.
OpBackupHeld(n) ==
    /\ opBackup[n] = "none" => Gone(n)
    /\ opBackup[n] # "none" /\ n \notin scheduled => backup[n] # "none"
    /\ opBackup[n] = "deleting" /\ n \notin scheduled => backup[n] = "deleting"
    /\ n \in owned => backup[n] # "none"
    /\ n \in cascading => backup[n] # "live"
    /\ run[n] = "ready" => stored[n] = "stored"

\* What was deleted with Retain is out of reach of the finalizer.
RetainHeld(n) ==
    n \in kept =>
        /\ backup[n] # "live"
        /\ n \notin cascading =>
              /\ stored[n] # "purged" /\ opBackup[n] # "deleting"
              /\ backup[n] = "deleting" => policy[n] = "Retain"

Held(n) == PassHeld(n) /\ OpBackupHeld(n) /\ RetainHeld(n)

IInv == TypeOK /\ \A n \in Names : Held(n)

(***************************************************************************)
(* What a step leaves of a name.                                           *)
(***************************************************************************)
SameOpBackup(m) ==
    /\ opBackup'[m] = opBackup[m] /\ run'[m] = run[m]
    /\ m \in finalizer' <=> m \in finalizer
    /\ m \in scheduled' <=> m \in scheduled
    /\ m \in owned' <=> m \in owned

Same(m) ==
    /\ SameOpBackup(m)
    /\ backup'[m] = backup[m] /\ policy'[m] = policy[m] /\ state'[m] = state[m]
    /\ stored'[m] = stored[m] /\ pc'[m] = pc[m] /\ want'[m] = want[m]
    /\ m \in cascading' <=> m \in cascading
    /\ m \in kept' <=> m \in kept

\* The actions on a name, one by one.
Step(n) ==
    \/ BeginSync(n) \/ SyncBackup(n) \/ BeginCleanup(n) \/ CleanupDone(n)
    \/ StripFinalizer(n) \/ KeepFinalizer(n) \/ CleanupDelete(n) \/ CreateMirror(n)
    \/ PassFails(n) \/ Mirror(n) \/ CreateBackup(n) \/ EditPolicy(n)
    \/ DeleteBackup(n) \/ Schedule(n) \/ Prune(n) \/ StartRun(n)
    \/ EndRun(n) \/ Purge(n) \/ CollectDependents(n)

-----------------------------------------------------------------------------
\* Every step is on one name, or on the cluster.
LEMMA NextSteps ==
    [Next]_vars => \/ SyncPSMDB \/ EditConfig \/ EditStorages \/ UNCHANGED vars
                   \/ \E n \in Names : Step(n)
BY DEF Next, Step, Runtime, CleanupBackup, Cluster

\* A name that a step leaves alone is as it was.
LEMMA SameHeld ==
    ASSUME NEW m \in Names, Held(m), Same(m)
    PROVE  Held(m)'
BY DEF Held, PassHeld, OpBackupHeld, RetainHeld, Gone, Same, SameOpBackup

\* An operator backup that vanishes leaves nothing, and the others alone.
LEMMA VanishEffect ==
    ASSUME TypeOK, NEW n \in Names, Vanish(n)
    PROVE  /\ Gone(n)'
           /\ \A m \in Names \ {n} : SameOpBackup(m)
           /\ opBackup' \in [Names -> Objects]
           /\ run' \in [Names -> {"new", "running", "ready", "error"}]
           /\ finalizer' \subseteq Names
           /\ scheduled' \subseteq Names
           /\ owned' \subseteq Names
BY DEF TypeOK, Objects, Vanish, Gone, SameOpBackup

\* An operator backup with a finalizer stays for now, without it vanishes.
LEMMA DeleteEffect ==
    ASSUME TypeOK, NEW n \in Names, DeleteOpBackup(n)
    PROVE  /\ \/ /\ n \in finalizer /\ opBackup'[n] = "deleting" /\ run'[n] = run[n]
                 /\ n \in finalizer' /\ (n \in scheduled' <=> n \in scheduled)
                 /\ n \in owned' <=> n \in owned
              \/ n \notin finalizer /\ Gone(n)'
           /\ \A m \in Names \ {n} : SameOpBackup(m)
           /\ opBackup' \in [Names -> Objects]
           /\ run' \in [Names -> {"new", "running", "ready", "error"}]
           /\ finalizer' \subseteq Names
           /\ scheduled' \subseteq Names
           /\ owned' \subseteq Names
<1>1. CASE n \in finalizer
  BY <1>1 DEF TypeOK, Objects, DeleteOpBackup, Vanish, SameOpBackup
<1>2. CASE n \notin finalizer
  BY <1>2, VanishEffect DEF DeleteOpBackup
<1> QED
  BY <1>1, <1>2

\* What is known of the CR stays while the CR does.
LEMMA CRKept == CRTyped /\ UNCHANGED crBackup => CRTyped'
BY DEF CRTyped

\* A new Backup is Pending, with the policy it is given.
LEMMA NewBackupEffect ==
    ASSUME TypeOK, NEW n \in Names, NEW p \in Policies, NewBackup(n, p)
    PROVE  /\ backup'[n] = "live" /\ state'[n] = "Pending" /\ n \notin kept' /\ n \notin cascading'
           /\ \A m \in Names \ {n} :
                 /\ backup'[m] = backup[m] /\ policy'[m] = policy[m] /\ state'[m] = state[m]
                 /\ m \in kept' <=> m \in kept
                 /\ m \in cascading' <=> m \in cascading
           /\ backup' \in [Names -> Objects]
           /\ policy' \in [Names -> Policies]
           /\ state' \in [Names -> States]
           /\ kept' \subseteq Names
           /\ cascading' \subseteq Names
BY DEF TypeOK, Objects, States, NewBackup

\* SyncBackup reports one of the four states.
LEMMA StateOfTyped ==
    ASSUME NEW r \in {"new", "running", "ready", "error"}
    PROVE  /\ StateOf(r) \in States
           /\ StateOf(r) = "Succeeded" => r = "ready"
           /\ r = "new" => StateOf(r) = "Pending"
<1>1. CASE r = "new"
  BY <1>1 DEF StateOf, States
<1>2. CASE r = "running"
  BY <1>2 DEF StateOf, States
<1>3. CASE r = "ready"
  BY <1>3 DEF StateOf, States
<1>4. CASE r = "error"
  BY <1>4 DEF StateOf, States
<1> QED
  BY <1>1, <1>2, <1>3, <1>4

\* The initial states satisfy the invariant.
LEMMA InitIInv == Init => IInv
<1> SUFFICES ASSUME Init PROVE IInv
  OBVIOUS
<1>1. TypeOK
  <2>1. CRTyped
    BY DEF Init, NoBackups, CRTyped
  <2>2. /\ backup \in [Names -> Objects] /\ policy \in [Names -> Policies]
        /\ state \in [Names -> States] /\ opBackup \in [Names -> Objects]
    BY DEF Init, Objects, Policies, States
  <2>3. /\ run \in [Names -> {"new", "running", "ready", "error"}]
        /\ stored \in [Names -> {"none", "stored", "purged"}]
        /\ pc \in [Names -> {"idle", "sync", "cleanup", "delete"}]
        /\ want \in [Names -> Policies]
    BY DEF Init, Policies
  <2>4. failures \in 0..MaxFailures
    BY FailuresAssumption DEF Init
  <2>5. /\ finalizer \subseteq Names /\ scheduled \subseteq Names /\ owned \subseteq Names
        /\ mirrored \subseteq Names /\ cascading \subseteq Names /\ kept \subseteq Names
        /\ config \in Configs /\ present \subseteq Storages
    BY DEF Init
  <2> QED
    BY <2>1, <2>2, <2>3, <2>4, <2>5 DEF TypeOK
<1>2. ASSUME NEW n \in Names PROVE Held(n)
  BY DEF Init, Held, PassHeld, OpBackupHeld, RetainHeld, Gone
<1> QED
  BY <1>1, <1>2 DEF IInv

\* Every step keeps the type invariant.
LEMMA TypeStep == IInv /\ [Next]_vars => TypeOK'
<1> SUFFICES ASSUME TypeOK, [Next]_vars PROVE TypeOK'
  BY DEF IInv
<1>1. CASE SyncPSMDB
  <2>1. CRTyped'
    BY <1>1, StoragesAssumption
       DEF SyncPSMDB, buildBackupSpec, buildPSMDBStorages, NoBackups, CRTyped
  <2> QED
    BY <1>1, <2>1 DEF SyncPSMDB, TypeOK
<1>2. CASE EditConfig
  BY <1>2, CRKept DEF EditConfig, TypeOK
<1>3. CASE EditStorages
  BY <1>3, CRKept, StoragesAssumption DEF EditStorages, TypeOK
<1>4. ASSUME NEW n \in Names, BeginSync(n) PROVE TypeOK'
  BY <1>4, CRKept DEF BeginSync, TypeOK
<1>5. ASSUME NEW n \in Names, SyncBackup(n) PROVE TypeOK'
  BY <1>5, CRKept, StateOfTyped DEF SyncBackup, TypeOK, Objects, States
<1>6. ASSUME NEW n \in Names, BeginCleanup(n) PROVE TypeOK'
  BY <1>6, CRKept DEF BeginCleanup, TypeOK
<1>7. ASSUME NEW n \in Names, CleanupDone(n) PROVE TypeOK'
  BY <1>7, CRKept DEF CleanupDone, TypeOK, Objects
<1>8. ASSUME NEW n \in Names, StripFinalizer(n) PROVE TypeOK'
  BY <1>8, CRKept, VanishEffect DEF StripFinalizer, TypeOK
<1>9. ASSUME NEW n \in Names, KeepFinalizer(n) PROVE TypeOK'
  BY <1>9, CRKept DEF KeepFinalizer, TypeOK
<1>10. ASSUME NEW n \in Names, CleanupDelete(n) PROVE TypeOK'
  BY <1>10, CRKept, DeleteEffect DEF CleanupDelete, TypeOK
<1>11. ASSUME NEW n \in Names, CreateMirror(n) PROVE TypeOK'
  BY <1>11, CRKept, NewBackupEffect DEF CreateMirror, TypeOK, Policies
<1>12. ASSUME NEW n \in Names, PassFails(n) PROVE TypeOK'
  BY <1>12, CRKept, FailuresAssumption DEF PassFails, TypeOK
<1>13. ASSUME NEW n \in Names, Mirror(n) PROVE TypeOK'
  BY <1>13, CRKept DEF Mirror, TypeOK
<1>14. ASSUME NEW n \in Names, CreateBackup(n) PROVE TypeOK'
  BY <1>14, CRKept, NewBackupEffect DEF CreateBackup, TypeOK
<1>15. ASSUME NEW n \in Names, EditPolicy(n) PROVE TypeOK'
  BY <1>15, CRKept DEF EditPolicy, TypeOK
<1>16. ASSUME NEW n \in Names, DeleteBackup(n) PROVE TypeOK'
  BY <1>16, CRKept DEF DeleteBackup, TypeOK, Objects
<1>17. ASSUME NEW n \in Names, Schedule(n) PROVE TypeOK'
  BY <1>17, CRKept DEF Schedule, TypeOK, Objects
<1>18. ASSUME NEW n \in Names, Prune(n) PROVE TypeOK'
  BY <1>18, CRKept, DeleteEffect DEF Prune, TypeOK
<1>19. ASSUME NEW n \in Names, StartRun(n) PROVE TypeOK'
  BY <1>19, CRKept DEF StartRun, TypeOK
<1>20. ASSUME NEW n \in Names, EndRun(n) PROVE TypeOK'
  BY <1>20, CRKept DEF EndRun, TypeOK
<1>21. ASSUME NEW n \in Names, Purge(n) PROVE TypeOK'
  BY <1>21, CRKept, VanishEffect DEF Purge, TypeOK
<1>22. ASSUME NEW n \in Names, CollectDependents(n) PROVE TypeOK'
  BY <1>22, CRKept, DeleteEffect DEF CollectDependents, TypeOK
<1>23. CASE UNCHANGED vars
  BY <1>23, CRKept DEF TypeOK
<1> QED
  BY <1>1, <1>2, <1>3, <1>4, <1>5, <1>6, <1>7, <1>8, <1>9, <1>10, <1>11, <1>12, <1>13, <1>14,
     <1>15, <1>16, <1>17, <1>18, <1>19, <1>20, <1>21, <1>22, <1>23
     DEF Next, Runtime, CleanupBackup, Cluster

\* A step on a name leaves the other names alone.
LEMMA Frame ==
    ASSUME TypeOK, NEW n \in Names, Step(n), NEW m \in Names \ {n}
    PROVE  Same(m)
<1>1. CASE BeginSync(n)
  BY <1>1 DEF BeginSync, TypeOK, Policies, Same, SameOpBackup
<1>2. CASE SyncBackup(n)
  BY <1>2 DEF SyncBackup, TypeOK, Policies, Same, SameOpBackup
<1>3. CASE BeginCleanup(n)
  BY <1>3 DEF BeginCleanup, TypeOK, Policies, Same, SameOpBackup
<1>4. CASE CleanupDone(n)
  BY <1>4 DEF CleanupDone, TypeOK, Policies, Same, SameOpBackup
<1>5. CASE StripFinalizer(n)
  <2>1. SameOpBackup(m)
    BY <1>5, VanishEffect DEF StripFinalizer, SameOpBackup
  <2>2. pc'[m] = pc[m]
    BY <1>5 DEF StripFinalizer, TypeOK
  <2> QED
    BY <1>5, <2>1, <2>2 DEF StripFinalizer, Same
<1>6. CASE KeepFinalizer(n)
  BY <1>6 DEF KeepFinalizer, TypeOK, Policies, Same, SameOpBackup
<1>7. CASE CleanupDelete(n)
  <2>1. SameOpBackup(m)
    BY <1>7, DeleteEffect DEF CleanupDelete, SameOpBackup
  <2>2. pc'[m] = pc[m]
    BY <1>7 DEF CleanupDelete, TypeOK
  <2> QED
    BY <1>7, <2>1, <2>2 DEF CleanupDelete, Same
<1>8. CASE CreateMirror(n)
  BY <1>8, NewBackupEffect DEF CreateMirror, TypeOK, Policies, Same, SameOpBackup
<1>9. CASE PassFails(n)
  BY <1>9 DEF PassFails, TypeOK, Policies, Same, SameOpBackup
<1>10. CASE Mirror(n)
  BY <1>10 DEF Mirror, TypeOK, Policies, Same, SameOpBackup
<1>11. CASE CreateBackup(n)
  <2>1. PICK p \in Policies : NewBackup(n, p)
    BY <1>11 DEF CreateBackup
  <2>2. /\ backup'[m] = backup[m] /\ policy'[m] = policy[m] /\ state'[m] = state[m]
        /\ m \in kept' <=> m \in kept
        /\ m \in cascading' <=> m \in cascading
    BY <2>1, NewBackupEffect
  <2> QED
    BY <1>11, <2>2 DEF CreateBackup, Same, SameOpBackup
<1>12. CASE EditPolicy(n)
  BY <1>12 DEF EditPolicy, TypeOK, Policies, Same, SameOpBackup
<1>13. CASE DeleteBackup(n)
  BY <1>13 DEF DeleteBackup, TypeOK, Policies, Same, SameOpBackup
<1>14. CASE Schedule(n)
  BY <1>14 DEF Schedule, TypeOK, Policies, Same, SameOpBackup
<1>15. CASE Prune(n)
  BY <1>15, DeleteEffect DEF Prune, TypeOK, Policies, Same, SameOpBackup
<1>16. CASE StartRun(n)
  BY <1>16 DEF StartRun, TypeOK, Policies, Same, SameOpBackup
<1>17. CASE EndRun(n)
  BY <1>17 DEF EndRun, TypeOK, Policies, Same, SameOpBackup
<1>18. CASE Purge(n)
  <2>1. SameOpBackup(m)
    BY <1>18, VanishEffect DEF Purge, SameOpBackup
  <2>2. stored'[m] = stored[m]
    BY <1>18 DEF Purge, TypeOK
  <2> QED
    BY <1>18, <2>1, <2>2 DEF Purge, Same
<1>19. CASE CollectDependents(n)
  BY <1>19, DeleteEffect DEF CollectDependents, TypeOK, Policies, Same, SameOpBackup
<1> QED
  BY <1>1, <1>2, <1>3, <1>4, <1>5, <1>6, <1>7, <1>8, <1>9, <1>10, <1>11, <1>12, <1>13, <1>14,
     <1>15, <1>16, <1>17, <1>18, <1>19
     DEF Step

\* Every step keeps what is known of the names.
LEMMA HeldStep == IInv /\ [Next]_vars => \A m \in Names : Held(m)'
<1> SUFFICES ASSUME TypeOK, \A m \in Names : Held(m), [Next]_vars PROVE \A m \in Names : Held(m)'
  BY DEF IInv
<1>1. CASE SyncPSMDB \/ EditConfig \/ EditStorages \/ UNCHANGED vars
  <2>1. \A m \in Names : Same(m)
    BY <1>1 DEF SyncPSMDB, EditConfig, EditStorages, Same, SameOpBackup
  <2> QED
    BY <2>1, SameHeld
<1>2. ASSUME NEW n \in Names, BeginSync(n) PROVE Held(n)'
  BY <1>2, Held(n) DEF BeginSync, TypeOK, Held, PassHeld, OpBackupHeld, RetainHeld, Gone
<1>3. ASSUME NEW n \in Names, SyncBackup(n) PROVE Held(n)'
  BY <1>3, Held(n), StateOfTyped
     DEF SyncBackup, TypeOK, Held, PassHeld, OpBackupHeld, RetainHeld, Gone, Objects
<1>4. ASSUME NEW n \in Names, BeginCleanup(n) PROVE Held(n)'
  BY <1>4, Held(n) DEF BeginCleanup, TypeOK, Held, PassHeld, OpBackupHeld, RetainHeld, Gone
<1>5. ASSUME NEW n \in Names, CleanupDone(n) PROVE Held(n)'
  BY <1>5, Held(n) DEF CleanupDone, TypeOK, Held, PassHeld, OpBackupHeld, RetainHeld, Gone
<1>6. ASSUME NEW n \in Names, StripFinalizer(n) PROVE Held(n)'
  BY <1>6, Held(n), VanishEffect
     DEF StripFinalizer, TypeOK, Held, PassHeld, OpBackupHeld, RetainHeld, Gone
<1>7. ASSUME NEW n \in Names, KeepFinalizer(n) PROVE Held(n)'
  BY <1>7, Held(n) DEF KeepFinalizer, TypeOK, Held, PassHeld, OpBackupHeld, RetainHeld, Gone
<1>8. ASSUME NEW n \in Names, CleanupDelete(n) PROVE Held(n)'
  BY <1>8, Held(n), DeleteEffect
     DEF CleanupDelete, TypeOK, Held, PassHeld, OpBackupHeld, RetainHeld, Gone
<1>9. ASSUME NEW n \in Names, CreateMirror(n) PROVE Held(n)'
  BY <1>9, Held(n), NewBackupEffect
     DEF CreateMirror, TypeOK, Held, PassHeld, OpBackupHeld, RetainHeld, Gone, Policies,
         Terminal
<1>10. ASSUME NEW n \in Names, PassFails(n) PROVE Held(n)'
  BY <1>10, Held(n) DEF PassFails, TypeOK, Held, PassHeld, OpBackupHeld, RetainHeld, Gone
<1>11. ASSUME NEW n \in Names, Mirror(n) PROVE Held(n)'
  BY <1>11, Held(n) DEF Mirror, TypeOK, Held, PassHeld, OpBackupHeld, RetainHeld, Gone
<1>12. ASSUME NEW n \in Names, CreateBackup(n) PROVE Held(n)'
  BY <1>12, Held(n), NewBackupEffect
     DEF CreateBackup, TypeOK, Held, PassHeld, OpBackupHeld, RetainHeld, Gone
<1>13. ASSUME NEW n \in Names, EditPolicy(n) PROVE Held(n)'
  BY <1>13, Held(n) DEF EditPolicy, TypeOK, Held, PassHeld, OpBackupHeld, RetainHeld, Gone
<1>14. ASSUME NEW n \in Names, DeleteBackup(n) PROVE Held(n)'
  BY <1>14, Held(n) DEF DeleteBackup, TypeOK, Held, PassHeld, OpBackupHeld, RetainHeld, Gone
<1>15. ASSUME NEW n \in Names, Schedule(n) PROVE Held(n)'
  BY <1>15, Held(n) DEF Schedule, TypeOK, Held, PassHeld, OpBackupHeld, RetainHeld, Gone
<1>16. ASSUME NEW n \in Names, Prune(n) PROVE Held(n)'
  BY <1>16, Held(n), DeleteEffect DEF Prune, TypeOK, Held, PassHeld, OpBackupHeld, RetainHeld, Gone
<1>17. ASSUME NEW n \in Names, StartRun(n) PROVE Held(n)'
  BY <1>17, Held(n) DEF StartRun, TypeOK, Held, PassHeld, OpBackupHeld, RetainHeld, Gone
<1>18. ASSUME NEW n \in Names, EndRun(n) PROVE Held(n)'
  BY <1>18, Held(n) DEF EndRun, TypeOK, Held, PassHeld, OpBackupHeld, RetainHeld, Gone
<1>19. ASSUME NEW n \in Names, Purge(n) PROVE Held(n)'
  BY <1>19, Held(n), VanishEffect DEF Purge, TypeOK, Held, PassHeld, OpBackupHeld, RetainHeld, Gone
<1>20. ASSUME NEW n \in Names, CollectDependents(n) PROVE Held(n)'
  BY <1>20, Held(n), DeleteEffect
     DEF CollectDependents, TypeOK, Held, PassHeld, OpBackupHeld, RetainHeld, Gone, Objects
<1>21. ASSUME NEW n \in Names, Step(n) PROVE \A m \in Names : Held(m)'
  <2>1. Held(n)'
    BY <1>21, <1>2, <1>3, <1>4, <1>5, <1>6, <1>7, <1>8, <1>9, <1>10, <1>11, <1>12, <1>13, <1>14,
       <1>15, <1>16, <1>17, <1>18, <1>19, <1>20
       DEF Step
  <2>2. ASSUME NEW m \in Names \ {n} PROVE Held(m)'
    BY <1>21, <2>2, Frame, SameHeld
  <2> QED
    BY <2>1, <2>2
<1> QED
  BY <1>1, <1>21, NextSteps

\* The invariant holds in every state.
LEMMA IInvInvariant == Spec => []IInv
<1>1. IInv /\ [Next]_vars => IInv'
  BY TypeStep, HeldStep DEF IInv
<1> QED
  BY InitIInv, <1>1, PTL DEF Spec

-----------------------------------------------------------------------------
\* SyncBackup, CleanupBackup and Mirror keep every variable in its type.
THEOREM TypeCorrect == Spec => []TypeOK
<1>1. IInv => TypeOK
  BY DEF IInv
<1> QED
  BY <1>1, IInvInvariant, PTL

\* CleanupBackup and SyncBackup leave no operator backup without its Backup.
THEOREM OrphanFree == Spec => []NoOrphans
<1>1. IInv => NoOrphans
  BY DEF IInv, Held, OpBackupHeld, NoOrphans
<1> QED
  BY <1>1, IInvInvariant, PTL

\* CleanupBackup keeps what a Backup deleted with Retain has stored.
THEOREM RetainedStays == Spec => []RetainKeepsObject
<1>1. IInv => RetainKeepsObject
  BY DEF IInv, TypeOK, Held, RetainHeld, RetainKeepsObject
<1> QED
  BY <1>1, IInvInvariant, PTL

-----------------------------------------------------------------------------
(***************************************************************************)
(* The backup section of the CR.                                           *)
(***************************************************************************)

\* The CR has what some configuration that can be built was built into.
CRBuilt ==
    \/ crBackup = NoBackups
    \/ \E c \in Configs : Buildable(c, Storages) /\ crBackup = buildBackupSpec(c, S3)

\* selectMainStorageName: the one entry with PITR names the main storage.
LEMMA PITRSelected ==
    ASSUME NEW n \in Nat, NEW storages, DOMAIN storages = 1..n,
           NEW i \in WithPITR(storages), \A j \in WithPITR(storages) : j = i
    PROVE  selectMainStorageName(storages) = storages[i].name
<1> DEFINE on == WithPITR(storages)
           first == CHOOSE k \in on : \A j \in on : k <= j
<1>1. i \in Int
  BY DEF WithPITR
<1>2. \E k \in on : \A j \in on : k <= j
  BY <1>1
<1>3. first \in on
  BY <1>2
<1> QED
  BY <1>3 DEF selectMainStorageName

\* buildBackupSpec: with PITR its storage is the main one, if it is registered.
LEMMA PITRIsMain ==
    ASSUME NEW c \in Configs, Buildable(c, Storages), buildBackupSpec(c, S3).pitr
    PROVE  \E e \in ToSet(c.storages) :
              e.pitr /\ (e.name \in S3 => buildBackupSpec(c, S3).main = e.name)
<1>1. c.enabled
  BY Zenon DEF buildBackupSpec, NoBackups
<1>2. PICK i \in WithPITR(c.storages) : TRUE
  BY <1>1 DEF buildBackupSpec
<1>3. \A j \in WithPITR(c.storages) : j = i
  BY <1>1, <1>2 DEF Buildable
<1>4. DOMAIN c.storages = 1..Len(c.storages) /\ Len(c.storages) \in Nat
  BY ConfigsAssumption
<1>5. selectMainStorageName(c.storages) = c.storages[i].name
  BY <1>2, <1>3, <1>4, PITRSelected
<1>6. i \in DOMAIN c.storages /\ c.storages[i].pitr
  BY <1>2 DEF WithPITR
<1>7. c.storages[i] \in ToSet(c.storages)
  BY <1>6 DEF ToSet
<1>8. ASSUME c.storages[i].name \in S3
      PROVE  buildBackupSpec(c, S3).main = c.storages[i].name
  <2>1. c.storages[i].name \in buildPSMDBStorages(c.storages, S3)
    BY <1>7, <1>8 DEF buildPSMDBStorages
  <2> QED
    BY <1>1, <1>5, <2>1 DEF buildBackupSpec
<1> QED
  BY <1>6, <1>7, <1>8

\* buildBackupSpec, SyncPSMDB: every CR that is applied, at whatever time, has
\* PITR and its main storage agree.
THEOREM MainTakesPITR == Spec => []PITRWritesToMain
<1>1. Init => CRBuilt
  BY DEF Init, CRBuilt
<1>2. TypeOK /\ CRBuilt /\ [Next]_vars => CRBuilt'
  <2> SUFFICES ASSUME TypeOK, CRBuilt, [Next]_vars PROVE CRBuilt'
    OBVIOUS
  <2>1. CASE SyncPSMDB
    <3>1. config \in Configs /\ present \subseteq Storages
      BY DEF TypeOK
    <3>2. Buildable(config, Storages)
      BY <2>1, <3>1 DEF SyncPSMDB, Buildable
    <3> QED
      BY <2>1, <3>1, <3>2 DEF SyncPSMDB, CRBuilt
  <2>2. CASE crBackup' = crBackup
    BY <2>2 DEF CRBuilt
  <2>3. ASSUME NEW n \in Names, Step(n) PROVE crBackup' = crBackup
    BY <2>3 DEF Step, BeginSync, SyncBackup, BeginCleanup, CleanupDone, StripFinalizer,
                KeepFinalizer, CleanupDelete, CreateMirror, PassFails, Mirror, CreateBackup,
                EditPolicy, DeleteBackup, Schedule, Prune, StartRun, EndRun, Purge,
                CollectDependents
  <2>4. EditConfig \/ EditStorages \/ UNCHANGED vars => crBackup' = crBackup
    BY DEF EditConfig, EditStorages
  <2> QED
    BY <2>1, <2>2, <2>3, <2>4, NextSteps
<1>3. CRBuilt => PITRWritesToMain
  <2>1. ~NoBackups.pitr
    BY DEF NoBackups
  <2> QED
    BY <2>1, PITRIsMain DEF CRBuilt, PITRWritesToMain
<1> QED
  BY <1>1, <1>2, <1>3, TypeCorrect, PTL DEF Spec

-----------------------------------------------------------------------------
(***************************************************************************)
(* The purge of a Backup deleted with the policy Delete.                   *)
(***************************************************************************)

\* What is stored has to go, and the finalizer is there to see to it.
PurgeOwed(n) ==
    backup[n] = "deleting" /\ policy[n] = "Delete" /\ n \in finalizer /\ stored[n] = "stored"

\* CleanupBackup: nothing but the purge releases a Backup that is deleted with
\* the policy Delete; neither its policy nor the finalizer is lost before.
PurgeStaysOwed == [][\A n \in Names : PurgeOwed(n) => PurgeOwed(n)' \/ stored'[n] = "purged"]_vars

\* A step on the name of a Backup that owes a purge leaves it owing, or purges.
LEMMA OwedStep ==
    ASSUME TypeOK, NEW n \in Names, Held(n), Step(n), PurgeOwed(n)
    PROVE  PurgeOwed(n)' \/ stored'[n] = "purged"
<1> USE DEF PurgeOwed
<1>1. pc[n] \in {"cleanup", "delete"} => want[n] = "Delete"
  BY DEF Held, PassHeld
<1>2. opBackup[n] # "none"
  BY DEF Held, OpBackupHeld, Gone
<1>3. CASE SyncBackup(n)
  BY <1>3 DEF SyncBackup
<1>4. CASE CleanupDelete(n) \/ Prune(n) \/ CollectDependents(n)
  BY <1>2, <1>4, DeleteEffect DEF CleanupDelete, Prune, CollectDependents
<1>5. CASE EndRun(n)
  BY <1>5 DEF EndRun, TypeOK
<1>6. CASE Purge(n)
  BY <1>6 DEF Purge, TypeOK
<1>7. CASE CreateMirror(n)
  BY <1>7 DEF CreateMirror
<1>8. CASE ~(SyncBackup(n) \/ CleanupDelete(n) \/ Prune(n) \/ CollectDependents(n) \/ EndRun(n)
             \/ Purge(n) \/ CreateMirror(n))
  <2>1. UNCHANGED <<backup, policy, finalizer, stored>>
    BY <1>1, <1>2, <1>8
       DEF Step, BeginSync, BeginCleanup, CleanupDone, StripFinalizer, KeepFinalizer, PassFails,
           Mirror, CreateBackup, EditPolicy, DeleteBackup, Schedule, StartRun
  <2> QED
    BY <2>1
<1> QED
  BY <1>3, <1>4, <1>5, <1>6, <1>7, <1>8

\* CleanupBackup, with the passes that fail, retention and the garbage
\* collector: a purge that is owed is carried out or stays owed.
THEOREM PurgeNotLost == Spec => PurgeStaysOwed
<1> DEFINE Owes == \A n \in Names : PurgeOwed(n) => PurgeOwed(n)' \/ stored'[n] = "purged"
<1>1. IInv /\ [Next]_vars => [Owes]_vars
  <2> SUFFICES ASSUME TypeOK, \A n \in Names : Held(n), [Next]_vars,
                      NEW m \in Names, PurgeOwed(m)
               PROVE  PurgeOwed(m)' \/ stored'[m] = "purged"
    BY DEF IInv
  <2>1. CASE SyncPSMDB \/ EditConfig \/ EditStorages \/ UNCHANGED vars
    BY <2>1 DEF SyncPSMDB, EditConfig, EditStorages, PurgeOwed
  <2>2. ASSUME NEW n \in Names, Step(n) PROVE PurgeOwed(m)' \/ stored'[m] = "purged"
    <3>1. CASE m = n
      BY <2>2, <3>1, OwedStep
    <3>2. CASE m # n
      BY <2>2, <3>2, Frame DEF Same, SameOpBackup, PurgeOwed
    <3> QED
      BY <3>1, <3>2
  <2> QED
    BY <2>1, <2>2, NextSteps
<1> QED
  BY <1>1, IInvInvariant, PTL DEF Spec, PurgeStaysOwed

-----------------------------------------------------------------------------
(***************************************************************************)
(* Backups implements BackupContract.                                      *)
(***************************************************************************)

\* A step that leaves the Backups and the storage alone is one of a schedule.
LEMMA Quiet ==
    ASSUME TypeOK', UNCHANGED <<backup, state, stored>>
    PROVE  Contract!Next
<1>1. [n \in Names |-> Shown(n)]' = [n \in Names |-> Shown(n)]
  BY DEF Shown
<1>2. scheduled' \in SUBSET Names
  BY DEF TypeOK
<1> QED
  BY <1>1, <1>2 DEF Contract!Next, Contract!Schedules

\* A step on one name shows of the others what it showed before.
LEMMA Shows ==
    ASSUME TypeOK, TypeOK', NEW n \in Names, Step(n), stored' = stored,
           NEW from, NEW to, Shown(n) \in from, Shown(n)' \in to
    PROVE  Contract!Show(n, from, to)
<1>1. ASSUME NEW m \in Names \ {n} PROVE Shown(m)' = Shown(m)
  <2>1. backup'[m] = backup[m] /\ state'[m] = state[m]
    BY Frame DEF Same
  <2> QED
    BY <2>1 DEF Shown
<1>2. [m \in Names |-> Shown(m)]' = [[m \in Names |-> Shown(m)] EXCEPT ![n] = Shown(n)']
  BY <1>1
<1> QED
  BY <1>2 DEF Contract!Show

\* The initial states are those of the contract.
LEMMA ContractInit == Init => Contract!Init
<1> SUFFICES ASSUME Init PROVE Contract!Init
  OBVIOUS
<1>1. \A n \in Names : Shown(n) = "absent"
  BY DEF Init, Shown
<1> QED
  BY <1>1 DEF Init, Contract!Init

\* Every step is one of the contract.
LEMMA ContractStep == IInv /\ IInv' /\ [Next]_vars => [Contract!Next]_Contract!vars
<1> SUFFICES ASSUME TypeOK, TypeOK', \A n \in Names : Held(n), [Next]_vars PROVE Contract!Next
  BY DEF IInv
<1>1. scheduled' \in SUBSET Names
  BY DEF TypeOK
<1>2. CASE SyncPSMDB \/ EditConfig \/ EditStorages \/ UNCHANGED vars
  <2>1. UNCHANGED <<backup, state, stored>>
    BY <1>2 DEF SyncPSMDB, EditConfig, EditStorages
  <2> QED
    BY <2>1, Quiet
<1>3. ASSUME NEW n \in Names,
             \/ BeginSync(n) \/ BeginCleanup(n) \/ StripFinalizer(n) \/ KeepFinalizer(n)
             \/ CleanupDelete(n) \/ PassFails(n) \/ Mirror(n) \/ EditPolicy(n)
             \/ Schedule(n) \/ Prune(n) \/ StartRun(n) \/ CollectDependents(n)
      PROVE  Contract!Next
  <2>1. UNCHANGED <<backup, state, stored>>
    BY <1>3 DEF BeginSync, BeginCleanup, StripFinalizer, KeepFinalizer, CleanupDelete, PassFails,
                Mirror, EditPolicy, Schedule, Prune, StartRun, CollectDependents
  <2> QED
    BY <2>1, Quiet
<1>4. ASSUME NEW n \in Names, SyncBackup(n) PROVE Contract!Next
  <2>1. /\ backup'[n] = backup[n] /\ backup[n] \in {"live", "deleting"} /\ stored' = stored
        /\ state[n] \in {"Pending", "Running"} /\ state'[n] \in States
    <3>1. backup' = backup /\ stored' = stored /\ pc[n] = "sync"
      BY <1>4 DEF SyncBackup
    <3>2. backup[n] # "none" /\ state[n] \notin Terminal
      BY <3>1, Held(n) DEF Held, PassHeld
    <3>3. backup[n] \in Objects /\ state[n] \in States /\ state'[n] \in States
      BY DEF TypeOK
    <3> QED
      BY <3>1, <3>2, <3>3 DEF Objects, States, Terminal
  <2>2. state'[n] = "Succeeded" => stored[n] = "stored"
    <3>1. state'[n] = "Pending" \/ state'[n] = StateOf(run[n])
      <4>1. \/ state' = [state EXCEPT ![n] = "Pending"]
            \/ state' = [state EXCEPT ![n] = StateOf(run[n])]
        BY <1>4 DEF SyncBackup
      <4>2. state \in [Names -> States]
        BY DEF TypeOK
      <4> QED
        BY <4>1, <4>2
    <3>2. state'[n] = "Succeeded" => run[n] = "ready"
      BY <3>1, StateOfTyped DEF TypeOK
    <3> QED
      BY <3>2, Held(n) DEF Held, OpBackupHeld
  <2>3. Step(n)
    BY <1>4 DEF Step
  <2>4. CASE backup[n] = "deleting"
    <3>1. Shown(n) = "deleting" /\ Shown(n)' = "deleting"
      BY <2>1, <2>4 DEF Shown
    <3>2. ASSUME NEW m \in Names PROVE Shown(m)' = Shown(m)
      <4>1. CASE m = n
        BY <3>1, <4>1
      <4>2. CASE m # n
        <5>1. backup'[m] = backup[m] /\ state'[m] = state[m]
          BY <2>3, <4>2, Frame DEF Same
        <5> QED
          BY <5>1 DEF Shown
      <4> QED
        BY <4>1, <4>2
    <3>3. [m \in Names |-> Shown(m)]' = [m \in Names |-> Shown(m)]
      BY <3>2
    <3> QED
      BY <1>1, <2>1, <3>3 DEF Contract!Next, Contract!Schedules
  <2>5. CASE backup[n] = "live"
    <3>1. Shown(n) = state[n] /\ Shown(n)' = state'[n]
      BY <2>1, <2>5 DEF Shown
    <3>2. CASE state'[n] = "Succeeded"
      <4>1. Shown(n) \in Contract!Running /\ Shown(n)' \in {"Succeeded"}
        BY <2>1, <3>1, <3>2 DEF Contract!Running
      <4>2. Contract!Show(n, Contract!Running, {"Succeeded"})
        BY <2>1, <2>3, <4>1, Shows
      <4>3. Contract!Succeed(n)
        BY <2>2, <3>2, <4>2 DEF Contract!Succeed
      <4> QED
        BY <1>1, <4>3 DEF Contract!Next
    <3>3. CASE state'[n] # "Succeeded"
      <4>1. Shown(n) \in Contract!Running /\ Shown(n)' \in Contract!Running \cup {"Failed"}
        BY <2>1, <3>1, <3>3 DEF States, Contract!Running
      <4>2. Contract!Show(n, Contract!Running, Contract!Running \cup {"Failed"})
        BY <2>1, <2>3, <4>1, Shows
      <4> QED
        BY <1>1, <4>2 DEF Contract!Next, Contract!Advance
    <3> QED
      BY <3>2, <3>3
  <2> QED
    BY <2>1, <2>4, <2>5
<1>5. ASSUME NEW n \in Names, backup[n] = "none", backup'[n] = "live", state'[n] = "Pending",
             stored' = stored, Step(n)
      PROVE  Contract!Next
  <2>1. Shown(n) = "absent" /\ Shown(n)' = "Pending"
    BY <1>5 DEF Shown
  <2>2. Contract!Show(n, {"absent"}, {"Pending"})
    BY <1>5, <2>1, Shows
  <2> QED
    BY <1>1, <2>2 DEF Contract!Next, Contract!Create
<1>6. ASSUME NEW n \in Names, CreateBackup(n) PROVE Contract!Next
  <2>1. PICK p \in Policies : NewBackup(n, p)
    BY <1>6 DEF CreateBackup
  <2>2. backup'[n] = "live" /\ state'[n] = "Pending"
    BY <2>1, NewBackupEffect
  <2>3. Step(n)
    BY <1>6 DEF Step
  <2>4. backup[n] = "none" /\ stored' = stored
    BY <1>6 DEF CreateBackup
  <2> QED
    BY <1>5, <2>2, <2>3, <2>4
<1>7. ASSUME NEW n \in Names, CreateMirror(n) PROVE Contract!Next
  <2>1. CASE backup[n] = "none"
    <3>1. backup'[n] = "live" /\ state'[n] = "Pending"
      BY <1>7, <2>1, NewBackupEffect DEF CreateMirror, Policies
    <3>2. Step(n)
      BY <1>7 DEF Step
    <3>3. stored' = stored
      BY <1>7 DEF CreateMirror
    <3> QED
      BY <1>5, <2>1, <3>1, <3>2, <3>3
  <2>2. CASE backup[n] # "none"
    <3>1. UNCHANGED <<backup, state, stored>>
      BY <1>7, <2>2 DEF CreateMirror
    <3> QED
      BY <3>1, Quiet
  <2> QED
    BY <2>1, <2>2
<1>8. ASSUME NEW n \in Names, DeleteBackup(n) PROVE Contract!Next
  <2>1. backup[n] = "live" /\ backup'[n] = "deleting" /\ state[n] \in States /\ stored' = stored
    BY <1>8 DEF DeleteBackup, TypeOK
  <2>2. Shown(n) = state[n] /\ Shown(n)' = "deleting"
    BY <2>1 DEF Shown
  <2>3. Shown(n) \in Contract!Running \cup Contract!Ended /\ Shown(n)' \in {"deleting"}
    BY <2>1, <2>2 DEF States, Contract!Running, Contract!Ended
  <2>4. Step(n)
    BY <1>8 DEF Step
  <2>5. Contract!Show(n, Contract!Running \cup Contract!Ended, {"deleting"})
    BY <2>1, <2>3, <2>4, Shows
  <2> QED
    BY <1>1, <2>5 DEF Contract!Next, Contract!Delete
<1>9. ASSUME NEW n \in Names, CleanupDone(n) PROVE Contract!Next
  <2>1. backup[n] = "deleting" /\ backup'[n] = "none" /\ stored' = stored
    <3>1. pc[n] = "cleanup" /\ backup' = [backup EXCEPT ![n] = "none"] /\ stored' = stored
      BY <1>9 DEF CleanupDone
    <3>2. backup[n] = "deleting"
      BY <3>1, Held(n) DEF Held, PassHeld
    <3>3. backup'[n] = "none"
      BY <3>1 DEF TypeOK
    <3> QED
      BY <3>1, <3>2, <3>3
  <2>2. Shown(n) = "deleting" /\ Shown(n)' = "absent"
    BY <2>1 DEF Shown
  <2>3. Step(n)
    BY <1>9 DEF Step
  <2>4. Contract!Show(n, {"deleting"}, {"absent"})
    BY <2>1, <2>2, <2>3, Shows
  <2> QED
    BY <1>1, <2>4 DEF Contract!Next, Contract!Release
<1>10. ASSUME NEW n \in Names, EndRun(n) \/ Purge(n) PROVE Contract!Next
  <2>1. UNCHANGED <<backup, state>>
    BY <1>10 DEF EndRun, Purge
  <2>2. [m \in Names |-> Shown(m)]' = [m \in Names |-> Shown(m)]
    BY <2>1 DEF Shown
  <2>3. CASE stored' = stored
    BY <2>1, <2>3, Quiet
  <2>4. CASE EndRun(n) /\ stored[n] # "stored" /\ stored' # stored
    <3>1. stored' = [stored EXCEPT ![n] = "stored"]
      BY <2>4 DEF EndRun
    <3>2. Contract!Store(n)
      BY <2>2, <2>4, <3>1 DEF Contract!Store
    <3> QED
      BY <1>1, <3>2 DEF Contract!Next
  <2>5. CASE Purge(n) /\ stored[n] = "stored"
    <3>1. stored' = [stored EXCEPT ![n] = "purged"]
      BY <2>5 DEF Purge, TypeOK
    <3>2. backup[n] = "deleting" \/ n \in scheduled
      BY <2>5, Held(n) DEF Purge, Held, OpBackupHeld
    <3>3. Shown(n) = "deleting" \/ n \in scheduled
      BY <3>2 DEF Shown
    <3>4. Contract!Purge(n)
      BY <2>2, <2>5, <3>1, <3>3 DEF Contract!Purge
    <3> QED
      BY <1>1, <3>4 DEF Contract!Next
  <2>6. ASSUME NEW v, v = stored[n], stored' = [stored EXCEPT ![n] = v] PROVE stored' = stored
    BY <2>6 DEF TypeOK
  <2>7. EndRun(n) /\ stored[n] = "stored" => stored' = stored
    BY <2>6 DEF EndRun
  <2>8. Purge(n) /\ stored[n] # "stored" => stored' = stored
    <3>1. Purge(n) /\ stored[n] # "stored" => stored' = [stored EXCEPT ![n] = stored[n]]
      BY DEF Purge, TypeOK
    <3> QED
      BY <2>6, <3>1
  <2> QED
    BY <1>10, <2>3, <2>4, <2>5, <2>7, <2>8
<1> QED
  BY <1>2, <1>3, <1>4, <1>6, <1>7, <1>8, <1>9, <1>10, NextSteps DEF Step

\* SyncBackup, CleanupBackup and Mirror, with the operator, its schedules and
\* the garbage collector, do nothing that BackupContract does not allow.
THEOREM ContractImplemented == Spec => ContractKept
<1>1. Init => Contract!Init
  BY ContractInit
<1>2. IInv /\ IInv' /\ [Next]_vars => [Contract!Next]_Contract!vars
  BY ContractStep
<1> QED
  BY <1>1, <1>2, IInvInvariant, PTL DEF Spec, ContractKept, Contract!Spec
=============================================================================
