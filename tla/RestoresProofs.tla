---------------------------- MODULE RestoresProofs ----------------------------
(***************************************************************************)
(* Proofs that the base of a recovery to a date is right and settled, for  *)
(* any number of backups and any time.  SyncRestore resolves the base in   *)
(* one step, writes it in a later one and does both anew in every pass;    *)
(* the invariant says what stays true of a base in between.                *)
(***************************************************************************)
EXTENDS Restores, WellFoundedInduction, TLAPS

Own == Backups \ External

\* The run of n is over and its dates are fixed.
Settled(n) ==
    /\ n \in Own
    /\ backup[n] \in {"Succeeded", "gone"}
    /\ op[n] \notin {"new", "running"}

BackupsHeld ==
    /\ \A n \in External : op[n] = "none"
    /\ \A n \in Own :
          /\ backup[n] = "none" => op[n] = "none"
          /\ backup[n] \in {"Succeeded", "Failed", "gone"} => op[n] \notin {"new", "running"}
          /\ backup[n] = "Succeeded" => opDone[n] <= done[n]
          /\ opDone[n] <= clock

RestoreHeld ==
    /\ restore = "none" => opRestore = "none" /\ pc = "idle"
    /\ asked <= clock

ToDate == target.type = "PointInTime" /\ target.date # Latest

\* The oplog can be replayed from n to the date.
Base(n) == Settled(n) /\ opDone[n] <= target.date

BaseHeld ==
    ToDate => /\ pc = "write" => Base(chosen)
              /\ opRestore # "none" => Base(source)

ToPast == ToDate /\ target.date < asked

\* No Backup that will do is newer than n.
Newest(n) ==
    /\ done[n] <= target.date
    /\ \A m \in Own : backup[m] = "Succeeded" /\ done[m] <= target.date => done[m] <= done[n]

PastHeld ==
    ToPast => /\ pc = "write" => Newest(chosen)
              /\ opRestore # "none" => Newest(source)
              /\ (pc = "write" /\ opRestore # "none" /\ backup[source] # "gone")
                    => done[chosen] = done[source]

IInv == TypeOK /\ BackupsHeld /\ RestoreHeld /\ BaseHeld /\ PastHeld

-----------------------------------------------------------------------------
(***************************************************************************)
(* Types.                                                                  *)
(***************************************************************************)

\* A date is a time.
LEMMA DateTyped == ASSUME TypeOK, ToDate PROVE target.date \in Times
BY DEF TypeOK, ToDate, Targets, Latest, Times

\* The variables of an import keep their types.
LEMMA ImportStep ==
    ASSUME ImportTypeOK
    PROVE  /\ Scan \/ CallFails \/ Finish \/ CreateImport => ImportTypeOK'
           /\ (\E n \in External : WriteDocument(n)) => ImportTypeOK'
           /\ UNCHANGED importVars => ImportTypeOK'
<1> USE ImportsAssumption DEF ImportTypeOK, scanVars, importVars, Restart
<1>1. CASE NextPage
  BY <1>1 DEF NextPage
<1>2. ASSUME NEW n \in External, getObject(n) PROVE ImportTypeOK'
  BY <1>2 DEF getObject, parsePBM
<1>3. ASSUME NEW n \in External, ObjectGone(n) PROVE ImportTypeOK'
  BY <1>3 DEF ObjectGone
<1>4. CASE CallFails
  BY <1>4 DEF CallFails
<1>5. CASE Finish
  BY <1>5 DEF Finish
<1>6. CASE CreateImport
  BY <1>6 DEF CreateImport
<1>7. ASSUME NEW n \in External, WriteDocument(n) PROVE ImportTypeOK'
  BY <1>7 DEF WriteDocument
<1>8. UNCHANGED importVars => ImportTypeOK'
  OBVIOUS
<1> QED
  BY <1>1, <1>2, <1>3, <1>4, <1>5, <1>6, <1>7, <1>8 DEF Scan

\* Every step keeps the types.
LEMMA TypeStep == TypeOK /\ [Next]_vars => TypeOK'
<1> SUFFICES ASSUME TypeOK, [Next]_vars PROVE TypeOK'
  OBVIOUS
<1> USE TimeAssumption DEF TypeOK, Times, backupVars, crVars, opVars, passVars
<1>1. CASE EndUnresolved
  <2>1. PICK r \in resolveRestoreSource : /\ operatorSource(r).state # "usable"
                                          /\ restore' = operatorSource(r).state
    BY <1>1 DEF EndUnresolved
  <2>2. restore' \in {"Pending", "Failed"}
    BY <2>1 DEF operatorSource, resolveRestoreSource, resolveBackupSource,
                resolvePointInTimeSource, buildExternalBackupSource, copyOperatorBackup,
                Wait, Fail, Use, Targets
  <2> QED
    BY <1>1, <2>2, ImportStep DEF EndUnresolved
<1>2. CASE Resolve
  <2>1. chosen' \in Backups
    BY <1>2 DEF Resolve, operatorSource, resolveRestoreSource, resolveBackupSource,
                resolvePointInTimeSource, selectPITRBaseBackup, Wait, Fail, Use, Targets
  <2> QED
    BY <1>2, <2>1, ImportStep DEF Resolve
<1>3. CASE Write
  BY <1>3, ImportStep DEF Write, StateOf
<1>4. CASE CleanupRestore
  <2>1. NoTarget \in Targets
    BY DEF NoTarget, Targets
  <2> QED
    BY <1>4, <2>1, ImportStep DEF CleanupRestore
<1>5. CASE CreateRestore
  BY <1>5, ImportStep DEF CreateRestore
<1>6. CASE DeleteRestore
  BY <1>6, ImportStep DEF DeleteRestore
<1>7. CASE CreateStorage
  BY <1>7, ImportStep DEF CreateStorage
<1>8. CASE Tick
  BY <1>8, ImportStep DEF Tick
<1>9. CASE RunRestore
  BY <1>9, ImportStep DEF RunRestore
<1>10. CASE EndRestore
  BY <1>10, ImportStep DEF EndRestore
<1>11. CASE ImportBackups
  <2>1. CASE CreateImported
    BY <2>1, ImportStep DEF CreateImported
  <2>2. CASE Scan /\ UNCHANGED <<clock, backupVars, crVars, opVars, passVars>>
    BY <2>2, ImportStep
  <2> QED
    BY <1>11, <2>1, <2>2 DEF ImportBackups
<1>12. CASE Outside
  BY <1>12, ImportStep DEF Outside
<1>13. ASSUME NEW n \in Backups, TakeBackup(n) PROVE TypeOK'
  BY <1>13, ImportStep DEF TakeBackup
<1>14. ASSUME NEW n \in Backups, ObserveBackup(n) PROVE TypeOK'
  BY <1>14, ImportStep DEF ObserveBackup
<1>15. ASSUME NEW n \in Backups, DeleteBackup(n) PROVE TypeOK'
  BY <1>15, ImportStep DEF DeleteBackup
<1>16. ASSUME NEW n \in Backups, CleanupBackup(n) PROVE TypeOK'
  BY <1>16, ImportStep DEF CleanupBackup
<1>17. ASSUME NEW n \in Backups, StartBackup(n) PROVE TypeOK'
  BY <1>17, ImportStep DEF StartBackup
<1>18. ASSUME NEW n \in Backups, CompleteBackup(n) PROVE TypeOK'
  BY <1>18, ImportStep DEF CompleteBackup
<1>19. ASSUME NEW n \in Backups, StampLatest(n) PROVE TypeOK'
  BY <1>19, ImportStep DEF StampLatest
<1>20. CASE UNCHANGED vars
  BY <1>20, ImportStep DEF vars
<1> QED
  BY <1>1, <1>2, <1>3, <1>4, <1>5, <1>6, <1>7, <1>8, <1>9, <1>10, <1>11, <1>12, <1>13, <1>14,
     <1>15, <1>16, <1>17, <1>18, <1>19, <1>20
  DEF Next, SyncRestore

-----------------------------------------------------------------------------
(***************************************************************************)
(* Backups, whatever is done to them while a restore is under way.         *)
(***************************************************************************)

\* What one step may do to the Backups of the Instance.
Kept(n) ==
    /\ Settled(n) => Settled(n)' /\ opDone'[n] = opDone[n] /\ done'[n] = done[n]
    /\ backup[n] = "gone" => backup'[n] = "gone"
    /\ backup'[n] = "Succeeded" => (backup[n] = "Succeeded" /\ done'[n] = done[n])
                                      \/ done'[n] = clock

\* A step that leaves the Backups alone keeps what is known of them.
LEMMA BackupsSame ==
    ASSUME TypeOK, BackupsHeld, UNCHANGED <<op, opDone, backup, done>>,
           clock' \in Nat, clock <= clock'
    PROVE  BackupsHeld' /\ \A n \in Own : Kept(n)
BY DEF BackupsHeld, Kept, Settled, Own, TypeOK, Times

\* TakeBackup to CompleteBackup: a Backup that has succeeded keeps its dates,
\* and one that succeeds is dated now.
LEMMA BackupsStep ==
    ASSUME TypeOK, BackupsHeld, [Next]_vars
    PROVE  BackupsHeld' /\ \A n \in Own : Kept(n)
<1>0. clock \in Nat
  BY TimeAssumption DEF TypeOK, Times
<1> USE DEF backupVars
<1>1. CASE SyncRestore \/ CleanupRestore \/ CreateRestore \/ DeleteRestore \/ CreateStorage
           \/ RunRestore \/ EndRestore \/ Outside \/ UNCHANGED vars
  <2>1. UNCHANGED <<clock, op, opDone, backup, done>>
    BY <1>1 DEF SyncRestore, EndUnresolved, Resolve, Write, CleanupRestore, CreateRestore,
                DeleteRestore, CreateStorage, RunRestore, EndRestore, Outside, vars
  <2> QED
    BY <1>0, <2>1, BackupsSame
<1>2. CASE Tick
  BY <1>0, <1>2, BackupsSame DEF Tick
<1>3. CASE ImportBackups
  <2>1. CASE CreateImported
    <3>1. \A n \in Own : backup'[n] = backup[n] /\ done'[n] = done[n]
      BY <2>1 DEF CreateImported, TypeOK, ImportTypeOK, Own
    <3>2. UNCHANGED <<clock, op, opDone>>
      BY <2>1 DEF CreateImported
    <3> QED
      BY <3>1, <3>2 DEF BackupsHeld, Kept, Settled, Own
  <2>2. CASE ~CreateImported
    <3>1. UNCHANGED <<clock, op, opDone, backup, done>>
      BY <1>3, <2>2 DEF ImportBackups
    <3> QED
      BY <1>0, <3>1, BackupsSame
  <2> QED
    BY <2>1, <2>2
<1> USE BackupsAssumption DEF BackupsHeld, Kept, Settled, Own, TypeOK, Times
<1>4. ASSUME NEW n \in Backups, TakeBackup(n) PROVE BackupsHeld' /\ \A m \in Own : Kept(m)
  BY <1>4 DEF TakeBackup
<1>5. ASSUME NEW n \in Backups, ObserveBackup(n) PROVE BackupsHeld' /\ \A m \in Own : Kept(m)
  BY <1>5 DEF ObserveBackup
<1>6. ASSUME NEW n \in Backups, DeleteBackup(n) PROVE BackupsHeld' /\ \A m \in Own : Kept(m)
  BY <1>6 DEF DeleteBackup
<1>7. ASSUME NEW n \in Backups, CleanupBackup(n) PROVE BackupsHeld' /\ \A m \in Own : Kept(m)
  BY <1>7 DEF CleanupBackup
<1>8. ASSUME NEW n \in Backups, StartBackup(n) PROVE BackupsHeld' /\ \A m \in Own : Kept(m)
  BY <1>8 DEF StartBackup
<1>9. ASSUME NEW n \in Backups, CompleteBackup(n) PROVE BackupsHeld' /\ \A m \in Own : Kept(m)
  BY <1>9 DEF CompleteBackup
<1>10. ASSUME NEW n \in Backups, StampLatest(n) PROVE BackupsHeld' /\ \A m \in Own : Kept(m)
  BY <1>10 DEF StampLatest
<1> QED
  BY <1>1, <1>2, <1>3, <1>4, <1>5, <1>6, <1>7, <1>8, <1>9, <1>10 DEF Next

-----------------------------------------------------------------------------
(***************************************************************************)
(* The restore.                                                            *)
(***************************************************************************)

\* selectPITRBaseBackup: what a pass resolves for a date is a base for it and
\* the newest.
LEMMA Resolved ==
    ASSUME TypeOK, BackupsHeld, ToDate, Resolve
    PROVE  /\ chosen' \in Own /\ backup[chosen'] = "Succeeded"
           /\ Newest(chosen')
<1>1. PICK r \in resolveRestoreSource : operatorSource(r).state = "usable" /\ chosen' = r.backup
  BY DEF Resolve
<1>2. r.state = "usable"
  BY <1>1 DEF operatorSource
<1>3. \E n \in selectPITRBaseBackup(target.date) : r = Use(n)
  BY <1>1, <1>2 DEF resolveRestoreSource, resolvePointInTimeSource, ToDate, Wait
<1>4. chosen' \in selectPITRBaseBackup(target.date)
  BY <1>1, <1>3 DEF Use
<1> QED
  BY <1>4 DEF selectPITRBaseBackup, ToDate, Newest, Own

\* A step that leaves the pass and the source alone keeps the base.
LEMMA Carried ==
    ASSUME IInv, [Next]_vars, TypeOK', UNCHANGED <<target, asked, pc, chosen, source>>,
           opRestore' # "none" => opRestore # "none"
    PROVE  BaseHeld' /\ PastHeld'
<1>1. \A n \in Own : Kept(n)
  BY BackupsStep DEF IInv
<1>2. BaseHeld'
  BY <1>1 DEF IInv, BaseHeld, Base, ToDate, Kept, Settled
<1>3. ASSUME NEW n, ToPast, Settled(n), Newest(n) PROVE Newest(n)'
  <2>1. target.date \in Times /\ asked \in Times /\ clock \in Times
    BY <1>3, DateTyped DEF ToPast, IInv, TypeOK
  <2>2. target.date < clock
    BY <1>3, <2>1 DEF ToPast, IInv, RestoreHeld, Times
  <2>3. done'[n] = done[n] /\ target' = target
    BY <1>1, <1>3 DEF Kept, Settled
  <2>4. ASSUME NEW m \in Own, backup'[m] = "Succeeded", done'[m] <= target.date
        PROVE  done'[m] <= done[n]
    <3>1. ~(done'[m] = clock)
      BY <2>1, <2>2, <2>4 DEF Times
    <3>2. backup[m] = "Succeeded" /\ done'[m] = done[m]
      BY <1>1, <2>4, <3>1 DEF Kept
    <3> QED
      BY <1>3, <2>4, <3>2 DEF Newest
  <2> QED
    BY <1>3, <2>3, <2>4 DEF Newest
<1>4. PastHeld'
  BY <1>1, <1>3 DEF IInv, PastHeld, ToPast, ToDate, BaseHeld, Base, Kept, Settled
<1> QED
  BY <1>2, <1>4

\* Every step keeps what is known of the base.
LEMMA BaseStep ==
    ASSUME IInv, [Next]_vars, TypeOK'
    PROVE  BaseHeld' /\ PastHeld'
<1> USE DEF IInv
<1>1. CASE Resolve
  <2>1. /\ UNCHANGED <<target, asked, source, opRestore, backup, op, opDone, done>>
        /\ pc = "idle" /\ pc' = "write"
    BY <1>1 DEF Resolve, crVars, opVars, backupVars
  <2>2. ASSUME ToDate
        PROVE  chosen' \in Own /\ backup[chosen'] = "Succeeded" /\ Newest(chosen')
    BY <1>1, <2>2, Resolved
  <2>3. ASSUME ToDate PROVE Base(chosen')
    <3>1. opDone[chosen'] <= done[chosen'] /\ done[chosen'] <= target.date /\ Settled(chosen')
      BY <2>2, <2>3 DEF BackupsHeld, Newest, Settled, Own
    <3>2. target.date \in Times /\ done[chosen'] \in Times /\ opDone[chosen'] \in Times
      BY <2>2, <2>3, DateTyped DEF TypeOK, Own
    <3> QED
      BY <3>1, <3>2 DEF Base, Times
  <2>4. BaseHeld'
    BY <2>1, <2>3 DEF BaseHeld, Base, Settled, ToDate
  <2>5. ASSUME ToPast, opRestore # "none", backup[source] # "gone"
        PROVE  done[chosen'] = done[source]
    <3>1. source \in Own /\ backup[source] = "Succeeded" /\ Newest(source)
      BY <2>5 DEF PastHeld, ToPast, BaseHeld, Base, Settled
    <3>2. done[chosen'] \in Times /\ done[source] \in Times
      BY <2>2, <2>5, <3>1 DEF TypeOK, Own, ToPast
    <3>3. done[chosen'] <= done[source] /\ done[source] <= done[chosen']
      BY <2>2, <2>5, <3>1 DEF Newest, ToPast
    <3> QED
      BY <3>2, <3>3 DEF Times
  <2> QED
    BY <2>1, <2>2, <2>4, <2>5 DEF PastHeld, ToPast, ToDate, Newest
<1>2. CASE Write
  <2>1. /\ UNCHANGED <<target, asked, backup, op, opDone, done>>
        /\ pc = "write" /\ pc' = "idle" /\ source' = chosen
    BY <1>2 DEF Write, backupVars
  <2> QED
    BY <2>1 DEF BaseHeld, PastHeld, Base, Newest, Settled, ToDate, ToPast
<1>3. CASE CleanupRestore
  <2>1. CASE opRestore' = "none" /\ pc' = "idle"
    BY <2>1 DEF BaseHeld, PastHeld
  <2> QED
    BY <1>3, <2>1 DEF CleanupRestore, passVars
<1>4. CASE CreateRestore
  <2>1. opRestore' = "none" /\ pc' = "idle"
    BY <1>4 DEF CreateRestore, RestoreHeld, opVars, passVars
  <2> QED
    BY <2>1 DEF BaseHeld, PastHeld
<1>5. CASE ~(Resolve \/ Write \/ CleanupRestore \/ CreateRestore)
  <2>1. UNCHANGED <<target, asked, pc, chosen, source>>
    BY <1>5 DEF Next, SyncRestore, EndUnresolved, DeleteRestore, CreateStorage, Tick, RunRestore,
                EndRestore, ImportBackups, CreateImported, Outside, TakeBackup, ObserveBackup,
                DeleteBackup, CleanupBackup, StartBackup, CompleteBackup, StampLatest, vars,
                crVars, opVars, passVars
  <2>2. opRestore' # "none" => opRestore # "none"
    BY <1>5 DEF Next, SyncRestore, EndUnresolved, DeleteRestore, CreateStorage, Tick, RunRestore,
                EndRestore, ImportBackups, CreateImported, Outside, TakeBackup, ObserveBackup,
                DeleteBackup, CleanupBackup, StartBackup, CompleteBackup, StampLatest, vars,
                opVars
  <2> QED
    BY <2>1, <2>2, Carried
<1> QED
  BY <1>1, <1>2, <1>3, <1>4, <1>5

\* Every step keeps what is known of the Restore.
LEMMA RestoreStep ==
    ASSUME IInv, [Next]_vars, TypeOK'
    PROVE  RestoreHeld'
<1> USE DEF IInv
<1>1. asked' <= clock'
  <2>1. clock' \in {clock, clock + 1} /\ asked' \in {asked, clock}
    BY DEF Next, SyncRestore, EndUnresolved, Resolve, Write, CleanupRestore, CreateRestore,
           DeleteRestore, CreateStorage, Tick, RunRestore, EndRestore, ImportBackups,
           CreateImported, Outside, TakeBackup, ObserveBackup, DeleteBackup, CleanupBackup,
           StartBackup, CompleteBackup, StampLatest, vars, crVars
  <2> QED
    BY <2>1 DEF RestoreHeld, TypeOK, Times
<1>2. ASSUME restore' = "none" PROVE opRestore' = "none" /\ pc' = "idle"
  <2>1. CASE CleanupRestore
    BY <1>2, <2>1 DEF CleanupRestore, RestoreHeld, passVars
  <2>2. CASE EndUnresolved
    <3>1. opRestore' = opRestore /\ pc' = "idle" /\ restore # "none"
      BY <2>2 DEF EndUnresolved, opVars, passVars, Served
    <3>2. PICK r \in resolveRestoreSource : /\ operatorSource(r).state # "usable"
                                            /\ restore' = operatorSource(r).state
      BY <2>2 DEF EndUnresolved
    <3>3. restore' \in {"Pending", "Failed"}
      BY <3>2 DEF operatorSource, resolveRestoreSource, resolveBackupSource, TypeOK,
                  resolvePointInTimeSource, buildExternalBackupSource, copyOperatorBackup,
                  Wait, Fail, Use, Targets
    <3> QED
      BY <1>2, <3>3
  <2>3. CASE Write
    BY <1>2, <2>3 DEF Write, StateOf, TypeOK
  <2>4. CASE CreateRestore
    BY <1>2, <2>4 DEF CreateRestore
  <2>5. CASE ~(CleanupRestore \/ EndUnresolved \/ Write \/ CreateRestore)
    <3>1. restore' = restore
      BY <2>5 DEF Next, SyncRestore, Resolve, DeleteRestore, CreateStorage, Tick, RunRestore,
                  EndRestore, ImportBackups, CreateImported, Outside, TakeBackup, ObserveBackup,
                  DeleteBackup, CleanupBackup, StartBackup, CompleteBackup, StampLatest, vars,
                  crVars
    <3>2. opRestore = "none" /\ pc = "idle"
      BY <1>2, <3>1 DEF RestoreHeld
    <3>3. ~Resolve
      BY <1>2, <3>1 DEF Resolve, Served
    <3> QED
      BY <2>5, <3>2, <3>3
      DEF Next, SyncRestore, DeleteRestore, CreateStorage, Tick, RunRestore,
          EndRestore, ImportBackups, CreateImported, Outside, TakeBackup, ObserveBackup,
          DeleteBackup, CleanupBackup, StartBackup, CompleteBackup, StampLatest, vars,
          opVars, passVars
  <2> QED
    BY <2>1, <2>2, <2>3, <2>4, <2>5
<1> QED
  BY <1>1, <1>2 DEF RestoreHeld

\* The invariant holds before there is a backup.
LEMMA InitIInv == Init => IInv
<1> SUFFICES ASSUME Init PROVE IInv
  OBVIOUS
<1>1. NoTarget \in Targets
  BY DEF NoTarget, Targets
<1>2. ImportTypeOK
  BY ImportsAssumption DEF Init, ImportInit, ImportTypeOK
<1>3. TypeOK
  <2>1. ending \in BOOLEAN
    BY Zenon DEF Init
  <2> QED
    BY <1>1, <1>2, <2>1, TimeAssumption DEF Init, TypeOK, Times
<1>4. BackupsHeld /\ RestoreHeld
  BY BackupsAssumption DEF Init, BackupsHeld, RestoreHeld, Own
<1> QED
  BY <1>3, <1>4 DEF Init, IInv, BaseHeld, PastHeld

\* The invariant holds in every state.
LEMMA IInvInvariant == Spec => []IInv
<1>1. IInv /\ [Next]_vars => IInv'
  BY TypeStep, BackupsStep, RestoreStep, BaseStep DEF IInv
<1> QED
  BY <1>1, InitIInv, PTL DEF Spec

-----------------------------------------------------------------------------
\* SyncRestore, CleanupRestore and ImportBackups keep every variable in its
\* type.
THEOREM TypeCorrect == Spec => []TypeOK
<1>1. IInv => TypeOK
  BY DEF IInv
<1> QED
  BY <1>1, IInvInvariant, PTL

\* selectPITRBaseBackup: the base of an operator restore to a date completed at
\* or before it, whatever Backups come and go between the passes.
THEOREM BaseIsBefore == Spec => []BaseBeforeTarget
<1>1. IInv => BaseBeforeTarget
  BY DEF IInv, BaseHeld, Base, ToDate, BaseBeforeTarget
<1> QED
  BY <1>1, IInvInvariant, PTL

\* SyncRestore: passes do not change the base of a restore to a past date.
THEOREM BaseIsSettled == Spec => PastDateSettled
<1> DEFINE Settles ==
        (/\ opRestore # "none" /\ opRestore' # "none"
         /\ target.type = "PointInTime" /\ target.date # Latest /\ target.date < asked
         /\ source' # source)
            => backup'[source] = "gone" \/ done[source'] = done[source]
<1>1. IInv /\ [Next]_vars => [Settles]_vars
  <2> SUFFICES ASSUME IInv, Next, opRestore # "none", opRestore' # "none", ToPast,
                      source' # source
               PROVE  backup'[source] = "gone" \/ done[source'] = done[source]
    BY DEF ToPast, ToDate
  <2>1. Write
    BY DEF Next, SyncRestore, EndUnresolved, Resolve, CleanupRestore, CreateRestore, DeleteRestore,
           CreateStorage, Tick, RunRestore, EndRestore, ImportBackups, CreateImported, Outside,
           TakeBackup, ObserveBackup, DeleteBackup, CleanupBackup, StartBackup, CompleteBackup,
           StampLatest, opVars
  <2> QED
    BY <2>1 DEF Write, backupVars, IInv, PastHeld
<1> QED
  BY <1>1, IInvInvariant, PTL DEF Spec, PastDateSettled
-----------------------------------------------------------------------------
(***************************************************************************)
(* The recovery window.                                                    *)
(***************************************************************************)

\* pitrWindow: the earliest of some times is one of them.
LEMMA Earliest ==
    ASSUME NEW S, S \subseteq Nat, S # {}
    PROVE  Min(S) \in S /\ \A t \in S : Min(S) <= t
<1>1. PICK e \in S : \A t \in S : ~(<<t, e>> \in OpToRel(<, Nat))
  BY WFMin, NatLessThanWellFounded
<1>2. ASSUME NEW t \in S PROVE e <= t
  <2>1. t \in Nat /\ e \in Nat
    OBVIOUS
  <2>2. t < e => <<t, e>> \in OpToRel(<, Nat)
    BY <2>1 DEF OpToRel
  <2>3. ~(t < e)
    BY <1>1, <2>2, Zenon
  <2> QED
    BY <2>1, <2>3
<1> QED
  BY <1>2 DEF Min

\* selectPITRBaseBackup: of some Backups one completed last.
LEMMA CompletedLast ==
    ASSUME TypeOK, NEW S, S \subseteq Backups, S # {}
    PROVE  \E n \in S : \A m \in S : done[m] <= done[n]
<1> DEFINE Before == {MaxTime - done[n] : n \in S}
<1>1. \A n \in S : done[n] \in 0..MaxTime
  BY DEF TypeOK, Times
<1>2. Before \subseteq Nat /\ Before # {}
  BY <1>1, TimeAssumption
<1>3. Min(Before) \in Before /\ \A t \in Before : Min(Before) <= t
  BY <1>2, Earliest
<1>4. PICK n \in S : Min(Before) = MaxTime - done[n]
  BY <1>3
<1>5. ASSUME NEW m \in S PROVE done[m] <= done[n]
  <2>1. MaxTime - done[n] <= MaxTime - done[m]
    BY <1>3, <1>4
  <2> QED
    BY <1>1, <2>1, TimeAssumption
<1> QED
  BY <1>5

\* BackupStorageStatuses, selectPITRBaseBackup: whatever was deleted and
\* stamped since, the window starts at a backup that will do as a base.
THEOREM WindowServed == Spec => []WindowHasBase
<1>1. IInv => WindowHasBase
  <2> SUFFICES ASSUME IInv,
                      \A n \in collectStorageBackups :
                         backup[n] = "Succeeded" /\ done[n] = opDone[n],
                      NEW d \in pitrWindow
               PROVE  selectPITRBaseBackup(d) # {}
    BY DEF WindowHasBase
  <2> DEFINE Starts == {opDone[n] : n \in collectStorageBackups}
             Candidates == {n \in Own : backup[n] = "Succeeded" /\ (d = Latest \/ done[n] <= d)}
  <2>1. collectStorageBackups # {}
    BY DEF pitrWindow
  <2>2. Starts \subseteq Nat /\ Starts # {}
    BY <2>1, TimeAssumption DEF IInv, TypeOK, Times, collectStorageBackups
  <2>3. Min(Starts) \in Starts
    BY <2>2, Earliest
  <2>4. PICK n \in collectStorageBackups : opDone[n] = Min(Starts)
    BY <2>3
  <2>5. Min(Starts) <= d
    <3>1. \E z : d \in Min(Starts) .. z
      BY DEF pitrWindow
    <3> QED
      BY <3>1
  <2>6. n \in Own
    BY <2>4 DEF IInv, BackupsHeld, collectStorageBackups, Own
  <2>7. n \in Candidates
    BY <2>4, <2>5, <2>6
  <2>8. \E b \in Candidates : \A m \in Candidates : done[m] <= done[b]
    BY <2>7, CompletedLast DEF Own, IInv
  <2> QED
    BY <2>8 DEF selectPITRBaseBackup, Own
<1> QED
  BY <1>1, IInvInvariant, PTL
-----------------------------------------------------------------------------
(***************************************************************************)
(* ImportBackups implements ImportContract.                                *)
(***************************************************************************)

\* A listing is of an import that is under way, and what it found was done.
ImportHeld ==
    /\ import # "Pending" => ahead = {} /\ page = {} /\ found = {}
    /\ \A n \in found : document[n] # "other"

ImportAction ==
    \/ NextPage
    \/ \E n \in External : getObject(n) \/ ObjectGone(n) \/ WriteDocument(n)
    \/ CallFails
    \/ CreateImport

\* A step is one on an import, or the creation of what it found, or is about
\* the Backups alone.
LEMMA ImportSteps ==
    ASSUME [Next]_vars
    PROVE  \/ ImportAction /\ UNCHANGED backup
           \/ CreateImported
           \/ UNCHANGED importVars /\ UNCHANGED backup
           \/ UNCHANGED importVars /\ \E n \in Backups :
                                         TakeBackup(n) \/ ObserveBackup(n) \/ CleanupBackup(n)
<1> USE DEF vars, backupVars
<1>1. CASE SyncRestore
  BY <1>1 DEF SyncRestore, EndUnresolved, Resolve, Write
<1>2. CASE CleanupRestore
  BY <1>2 DEF CleanupRestore
<1>3. CASE CreateRestore \/ DeleteRestore \/ CreateStorage \/ Tick \/ RunRestore \/ EndRestore
  BY <1>3 DEF CreateRestore, DeleteRestore, CreateStorage, Tick, RunRestore, EndRestore
<1>4. CASE ImportBackups
  BY <1>4 DEF ImportBackups, Scan, ImportAction
<1>5. CASE Outside
  BY <1>5 DEF Outside, ImportAction
<1>6. ASSUME NEW n \in Backups, TakeBackup(n) \/ ObserveBackup(n) \/ CleanupBackup(n)
      PROVE  UNCHANGED importVars
  BY <1>6 DEF TakeBackup, ObserveBackup, CleanupBackup
<1>7. ASSUME NEW n \in Backups,
             DeleteBackup(n) \/ StartBackup(n) \/ CompleteBackup(n) \/ StampLatest(n)
      PROVE  UNCHANGED importVars /\ UNCHANGED backup
  BY <1>7 DEF DeleteBackup, StartBackup, CompleteBackup, StampLatest
<1> QED
  BY <1>1, <1>2, <1>3, <1>4, <1>5, <1>6, <1>7 DEF Next

\* Every step keeps what is known of an import.
LEMMA ImportHeldStep ==
    ASSUME ImportTypeOK, ImportHeld, [Next]_vars
    PROVE  ImportHeld'
<1> USE DEF ImportTypeOK, ImportHeld, Restart, scanVars, importVars
<1>1. CASE NextPage
  BY <1>1 DEF NextPage
<1>2. ASSUME NEW n \in External, getObject(n) PROVE ImportHeld'
  BY <1>2 DEF getObject, parsePBM
<1>3. ASSUME NEW n \in External, ObjectGone(n) PROVE ImportHeld'
  BY <1>3 DEF ObjectGone
<1>4. ASSUME NEW n \in External, WriteDocument(n) PROVE ImportHeld'
  BY <1>4 DEF WriteDocument
<1>5. CASE CallFails
  BY <1>5 DEF CallFails
<1>6. CASE CreateImport
  BY <1>6 DEF CreateImport
<1>7. CASE CreateImported
  BY <1>7 DEF CreateImported, Finish, Discovered
<1>8. CASE UNCHANGED importVars
  BY <1>8
<1> QED
  BY <1>1, <1>2, <1>3, <1>4, <1>5, <1>6, <1>7, <1>8, ImportSteps DEF ImportAction

\* What is known of an import holds in every state.
LEMMA ImportHeldInvariant == Spec => []ImportHeld
<1>1. Init => ImportHeld
  BY DEF Init, ImportInit, ImportHeld
<1>2. TypeOK /\ ImportHeld /\ [Next]_vars => ImportHeld'
  BY ImportHeldStep DEF TypeOK
<1> QED
  BY <1>1, <1>2, TypeCorrect, PTL DEF Spec

\* NextPage, getObject: what an import owes is neither lost nor grows as it is
\* listed and read.
LEMMA ReadKeepsDue ==
    ASSUME ImportTypeOK, NextPage \/ \E n \in External : getObject(n)
    PROVE  UNCHANGED <<Due, document, import>>
<1> USE DEF ImportTypeOK, Due
<1>1. CASE NextPage
  BY <1>1 DEF NextPage
<1>2. ASSUME NEW n \in External, getObject(n) PROVE UNCHANGED <<Due, document, import>>
  BY <1>2 DEF getObject, parsePBM
<1> QED
  BY <1>1, <1>2

\* An import that starts over, or begins, owes all that is done.
LEMMA RestartDue ==
    ASSUME Restart, UNCHANGED document
    PROVE  Due' = Contract!Complete /\ Due \subseteq Due'
BY DEF Restart, Due, Contract!Complete

\* PBM, or somebody, changes one document.
LEMMA WriteStep ==
    ASSUME ImportTypeOK, NEW n \in External, WriteDocument(n), UNCHANGED backup
    PROVE  Contract!Next
<1> USE DEF ImportTypeOK, scanVars
<1>1. UNCHANGED <<import, ahead, page, found, WithBackup>>
  BY DEF WriteDocument, WithBackup
<1>2. CASE document[n] = "other" /\ document' = [document EXCEPT ![n] = "done"]
  <2>1. Due' \in {Due, Due \cup {n}}
    BY <1>1, <1>2 DEF Due
  <2> QED
    BY <1>1, <1>2, <2>1 DEF Contract!Next, Contract!Finish
<1>3. CASE document[n] # "gone" /\ document' = [document EXCEPT ![n] = "gone"]
  <2>1. Due' = Due \ {n}
    BY <1>1, <1>3 DEF Due
  <2> QED
    BY <1>1, <1>3, <2>1 DEF Contract!Next, Contract!Remove
<1> QED
  BY <1>2, <1>3 DEF WriteDocument

\* CreateImported: the call returns all that was owed, and each gets a Backup.
LEMMA EndStep ==
    ASSUME TypeOK, ImportHeld, CreateImported
    PROVE  Contract!Next
<1> USE DEF TypeOK, ImportTypeOK
<1>1. /\ import = "Pending" /\ import' = "Succeeded" /\ UNCHANGED document
      /\ ahead = {} /\ page = {} /\ ahead' = {} /\ page' = {} /\ found' = {}
  BY DEF CreateImported, Finish, Discovered
<1>2. Due' = {} /\ Due \subseteq found
  BY <1>1 DEF Due
<1>3. WithBackup' = WithBackup \cup found
  BY BackupsAssumption DEF CreateImported, WithBackup
<1>4. found \in SUBSET External /\ \A n \in found : document[n] # "other"
  BY DEF ImportHeld
<1>5. Contract!End
  BY <1>1, <1>2, <1>3, <1>4 DEF Contract!End
<1> QED
  BY <1>5 DEF Contract!Next

\* Backups that are created by hand or deleted.
LEMMA ManageStep ==
    ASSUME TypeOK, UNCHANGED importVars,
           NEW n \in Backups, TakeBackup(n) \/ ObserveBackup(n) \/ CleanupBackup(n)
    PROVE  [Contract!Next]_Contract!vars
<1>1. UNCHANGED <<document, import, Due>>
  BY DEF importVars, scanVars, Due
<1>2. backup \in [Backups -> {"none", "Pending", "Succeeded", "Failed", "gone"}]
  BY DEF TypeOK
<1>3. \/ backup' = backup
      \/ \E s \in {"Pending", "Succeeded", "Failed", "gone"} : backup' = [backup EXCEPT ![n] = s]
  BY DEF TakeBackup, ObserveBackup, CleanupBackup
<1>4. \A m \in Backups \ {n} : backup'[m] = backup[m]
  BY <1>2, <1>3
<1>5. CASE n \notin External
  <2>1. WithBackup' = WithBackup
    BY <1>4, <1>5, BackupsAssumption DEF WithBackup
  <2> QED
    BY <1>1, <2>1 DEF Contract!vars
<1>6. CASE n \in External
  <2>1. WithBackup' \in {WithBackup \cup {n}, WithBackup \ {n}}
    BY <1>4, <1>6, BackupsAssumption DEF WithBackup
  <2> QED
    BY <1>1, <1>6, <2>1 DEF Contract!Next, Contract!Manage
<1> QED
  BY <1>5, <1>6

\* Every step is one of the contract, or does not concern it.
LEMMA ContractStep ==
    ASSUME TypeOK, ImportHeld, [Next]_vars
    PROVE  [Contract!Next]_Contract!vars
<1>1. CASE ImportAction /\ UNCHANGED backup
  <2>1. UNCHANGED WithBackup
    BY <1>1 DEF WithBackup
  <2>2. CASE NextPage \/ \E n \in External : getObject(n)
    BY <2>1, <2>2, ReadKeepsDue DEF TypeOK, Contract!vars
  <2>3. ASSUME NEW n \in External, ObjectGone(n) PROVE Contract!Again
    <3>1. import = "Pending"
      BY <2>3 DEF ObjectGone, ImportHeld
    <3> QED
      BY <2>1, <2>3, <3>1, RestartDue DEF ObjectGone, Contract!Again
  <2>4. CASE CallFails
    BY <2>1, <2>4, RestartDue DEF CallFails, Contract!Next, Contract!Again
  <2>5. CASE CreateImport
    BY <2>1, <2>5, RestartDue DEF CreateImport, Contract!Next, Contract!Begin
  <2>6. ASSUME NEW n \in External, WriteDocument(n) PROVE Contract!Next
    BY <1>1, <2>6, WriteStep DEF TypeOK
  <2> QED
    BY <1>1, <2>2, <2>3, <2>4, <2>5, <2>6 DEF ImportAction, Contract!Next
<1>2. CASE CreateImported
  BY <1>2, EndStep
<1>3. CASE UNCHANGED importVars /\ UNCHANGED backup
  BY <1>3 DEF importVars, scanVars, Due, WithBackup, Contract!vars
<1>4. ASSUME NEW n \in Backups, TakeBackup(n) \/ ObserveBackup(n) \/ CleanupBackup(n),
             UNCHANGED importVars
      PROVE  [Contract!Next]_Contract!vars
  BY <1>4, ManageStep
<1> QED
  BY <1>1, <1>2, <1>3, <1>4, ImportSteps

\* ImportBackups, with the runtime that calls it again after an error and
\* creates what it returns: an import that ends has made a Backup of every
\* document that was done from its beginning on.
THEOREM ImportImplemented == Spec => ImportKept
<1>1. Init => Contract!Init
  BY BackupsAssumption DEF Init, ImportInit, Due, WithBackup, Contract!Init
<1>2. TypeOK /\ ImportHeld /\ [Next]_vars => [Contract!Next]_Contract!vars
  BY ContractStep
<1> QED
  BY <1>1, <1>2, TypeCorrect, ImportHeldInvariant, PTL DEF Spec, ImportKept, Contract!Spec
-----------------------------------------------------------------------------
(***************************************************************************)
(* What a Restore restores from, and what it reports.                      *)
(***************************************************************************)

\* The Backup that was named, or for a date one of the Instance that succeeded;
\* an external one is in an S3 storage.
AsAsked(n) ==
    /\ target.type = "Backup" => n = target.name
    /\ target.type = "PointInTime" => Settled(n)
    /\ n \in External => storage = "s3"

\* SyncRestore, CleanupRestore: the operator restores what the Restore asks for
\* at all times, and a Restore reports success only when the operator does.
RestoredAsAsked ==
    /\ opRestore # "none" => AsAsked(source)
    /\ restore = "Succeeded" /\ ~ending => opRestore = "ready"

\* The pass is about to write what was asked for.
AskedHeld == RestoredAsAsked /\ (pc = "write" => AsAsked(chosen))

\* resolveRestoreSource, buildExternalBackupSource: a pass resolves to what was
\* asked for.
LEMMA ResolvedAsAsked ==
    ASSUME TypeOK, BackupsHeld, Resolve
    PROVE  AsAsked(chosen')
<1>1. PICK r \in resolveRestoreSource : operatorSource(r).state = "usable" /\ chosen' = r.backup
  BY DEF Resolve
<1>2. r.state = "usable"
  BY <1>1 DEF operatorSource
<1>3. ASSUME target.type = "Backup" PROVE r.backup = target.name
  <2>1. r = resolveBackupSource(target.name)
    BY <1>1, <1>3 DEF resolveRestoreSource
  <2>2. target.name \in Backups
    BY <1>3 DEF TypeOK, Targets
  <2> QED
    BY <1>2, <2>1, <2>2 DEF TypeOK, resolveBackupSource, Wait, Fail, Use
<1>4. ASSUME target.type = "PointInTime" PROVE Settled(r.backup)
  <2>1. \E n \in selectPITRBaseBackup(target.date) : r = Use(n)
    BY <1>1, <1>2, <1>4 DEF resolveRestoreSource, resolvePointInTimeSource, Wait
  <2>2. r.backup \in selectPITRBaseBackup(target.date)
    BY <2>1 DEF Use
  <2> QED
    BY <2>2 DEF selectPITRBaseBackup, BackupsHeld, Settled, Own
<1>5. ASSUME r.backup \in External PROVE storage = "s3"
  BY <1>1, <1>2, <1>5 DEF operatorSource, buildExternalBackupSource, TypeOK, Wait, Fail
<1> QED
  BY <1>1, <1>3, <1>4, <1>5 DEF AsAsked

\* What was asked for stays that while the Restore does.
LEMMA AskedCarried ==
    ASSUME IInv, [Next]_vars, NEW n, AsAsked(n), UNCHANGED target
    PROVE  AsAsked(n)'
<1>1. Settled(n) => Settled(n)'
  <2>1. \A m \in Own : Kept(m)
    BY BackupsStep DEF IInv
  <2> QED
    BY <2>1 DEF Kept, Settled
<1>2. storage = "s3" => storage' = "s3"
  BY DEF Next, SyncRestore, EndUnresolved, Resolve, Write, CleanupRestore, CreateRestore,
         DeleteRestore, CreateStorage, Tick, RunRestore, EndRestore, ImportBackups,
         CreateImported, Outside, TakeBackup, ObserveBackup, DeleteBackup, CleanupBackup,
         StartBackup, CompleteBackup, StampLatest, vars, backupVars
<1> QED
  BY <1>1, <1>2 DEF AsAsked

\* Every step keeps what is known of the source.
LEMMA AskedStep ==
    ASSUME IInv, AskedHeld, [Next]_vars
    PROVE  AskedHeld'
<1> USE DEF AskedHeld, RestoredAsAsked
<1>1. CASE EndUnresolved
  <2>1. UNCHANGED <<target, source, opRestore, pc, chosen, ending>>
    BY <1>1 DEF EndUnresolved, opVars, passVars
  <2>2. restore' # "Succeeded"
    <3>1. PICK r \in resolveRestoreSource : /\ operatorSource(r).state # "usable"
                                            /\ restore' = operatorSource(r).state
      BY <1>1 DEF EndUnresolved
    <3>2. restore' \in {"Pending", "Failed"}
      BY <3>1 DEF operatorSource, resolveRestoreSource, resolveBackupSource, IInv, TypeOK,
                  resolvePointInTimeSource, buildExternalBackupSource, copyOperatorBackup,
                  Wait, Fail, Use, Targets
    <3> QED
      BY <3>2
  <2> QED
    BY <2>1, <2>2, AskedCarried
<1>2. CASE Resolve
  <2>1. UNCHANGED <<target, source, opRestore, restore, ending>>
    BY <1>2 DEF Resolve, opVars, crVars
  <2>2. AsAsked(chosen')
    BY <1>2, ResolvedAsAsked DEF IInv
  <2>3. UNCHANGED <<backup, op, storage>>
    BY <1>2 DEF Resolve, backupVars
  <2>4. AsAsked(chosen)'
    BY <2>1, <2>2, <2>3 DEF AsAsked, Settled
  <2> QED
    BY <2>1, <2>4, AskedCarried
<1>3. CASE Write
  <2>1. /\ UNCHANGED <<target, ending>> /\ source' = chosen /\ pc = "write" /\ pc' = "idle"
        /\ opRestore' \in {"new", "running", "ready", "error"} /\ restore' = StateOf(opRestore')
    BY <1>3 DEF Write, IInv, TypeOK
  <2>2. restore' = "Succeeded" => opRestore' = "ready"
    BY <2>1 DEF StateOf
  <2>3. AsAsked(chosen) /\ target' = target
    BY <2>1
  <2>4. AsAsked(source)'
    BY <1>3, <2>1, <2>3 DEF AsAsked, Settled, Write, backupVars
  <2> QED
    BY <2>1, <2>2, <2>4
<1>4. CASE CleanupRestore
  BY <1>4 DEF CleanupRestore, passVars
<1>5. CASE CreateRestore
  BY <1>5 DEF CreateRestore, IInv, RestoreHeld, opVars, passVars
<1>6. CASE DeleteRestore
  <2>1. ending' /\ UNCHANGED <<target, source, opRestore, pc, chosen>>
    BY <1>6 DEF DeleteRestore, opVars, passVars
  <2> QED
    BY <2>1, AskedCarried
<1>7. CASE RunRestore \/ EndRestore
  <2>1. /\ UNCHANGED <<target, source, pc, chosen, restore, ending>>
        /\ opRestore \in {"new", "running"}
    BY <1>7 DEF RunRestore, EndRestore, crVars, passVars
  <2> QED
    BY <2>1, AskedCarried
<1>8. CASE ~(SyncRestore \/ CleanupRestore \/ CreateRestore \/ DeleteRestore \/ RunRestore
             \/ EndRestore)
  <2>1. UNCHANGED <<target, source, opRestore, pc, chosen, restore, ending>>
    BY <1>8 DEF Next, CreateStorage, Tick, ImportBackups, CreateImported, Outside, TakeBackup,
                ObserveBackup, DeleteBackup, CleanupBackup, StartBackup, CompleteBackup,
                StampLatest, vars, crVars, opVars, passVars
  <2> QED
    BY <2>1, AskedCarried
<1> QED
  BY <1>1, <1>2, <1>3, <1>4, <1>5, <1>6, <1>7, <1>8 DEF SyncRestore

\* SyncRestore, CleanupRestore: the operator restores from what was asked for,
\* though the source is resolved anew in every pass, and a Restore that reports
\* success has a restore of the operator that ended well.
THEOREM RestoresAsAsked == Spec => []RestoredAsAsked
<1>1. Init => AskedHeld
  BY DEF Init, AskedHeld, RestoredAsAsked
<1>2. IInv /\ AskedHeld /\ [Next]_vars => AskedHeld'
  BY AskedStep
<1>3. AskedHeld => RestoredAsAsked
  BY DEF AskedHeld
<1> QED
  BY <1>1, <1>2, <1>3, IInvInvariant, PTL DEF Spec
=============================================================================
