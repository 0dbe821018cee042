---------------------------- MODULE SeedingProofs ----------------------------
(***************************************************************************)
(* Proofs that the safety properties of Seeding hold for any number of     *)
(* restarts and failures.  Three writers share the users secret and the    *)
(* engine is read twice; the invariant says what each step of a pass has   *)
(* made sure of by the time the others act on it.                          *)
(***************************************************************************)
EXTENDS Seeding, TLAPS

\* From here on the pass has provisioned the users secret.
Provisioned == pc \in {"pmm", "apply", "seed", "status"} \/ cr

\* Credentials the user supplied are the only ones that enter the secret.
GivenHeld ==
    spec.given # "none" =>
        /\ users \in {"none", spec.given}
        /\ pc = "create" => copy = spec.given
        /\ Provisioned => users = spec.given

\* Credentials of the source are in the secret, or the source can no longer be
\* found and nothing will be restored from it.
SourceHeld ==
    spec.given = "none" /\ spec.seed # "none" =>
        /\ pc = "create" => copy = "source"
        /\ users = "source" \/ ~dataSourceInstanceKnown
              \/ (users = "none" /\ ~Provisioned)

\* There is a restore only of an Instance with a source and an engine CR.
RestoreHeld ==
    /\ pc = "seed" => cr /\ spec.seed # "none"
    /\ restore # "none" => cr /\ spec.seed # "none"
    /\ restore # "none" /\ spec.given = "none" => users = "source"

Mismatch == spec.given = "other" /\ spec.seed = "External"

\* The database knows the users of the secret, unless the user supplied others.
DatabaseHeld ==
    /\ db # "none" => db = users \/ Mismatch
    /\ engine = "authError" => Mismatch

\* What the pass will report of the seeding.
ReportHeld ==
    /\ report = "done" => restore = "Succeeded"
    /\ pc = "status" /\ spec.seed # "none" => report # "unset"

IInv ==
    /\ TypeOK /\ GivenHeld /\ SourceHeld /\ RestoreHeld /\ DatabaseHeld /\ ReportHeld
    /\ ReadyMeansSeeded

-----------------------------------------------------------------------------
\* validateDataSource, validateUserSecret: which Instances there are.
LEMMA SpecsAre ==
    ASSUME NEW s \in Specs
    PROVE  /\ s.seed \in Seeds /\ s.given \in {"none", "source", "other"} /\ s.pmm \in BOOLEAN
           /\ s.seed = "none" => s.given # "source"
           /\ s.seed = "External" => s.given # "none"
           /\ s.seed \in {"Backup", "PointInTime"} => s.given = "none"
BY DEF Specs, validateUserSecret, Seeds

\* The invariant holds of a new Instance.
LEMMA InitIInv == Init => IInv
<1> SUFFICES ASSUME Init PROVE IInv
  OBVIOUS
<1>1. TypeOK
  <2>1. /\ backupThere \in BOOLEAN /\ secretThere \in BOOLEAN
        /\ cr \in BOOLEAN /\ agent \in BOOLEAN
    BY Zenon DEF Init
  <2> QED
    BY <2>1, BoundsAssumption, StopsAssumption
       DEF Init, TypeOK, Owners, Phases, HostsInit, HostsTypeOK
<1>2. GivenHeld /\ SourceHeld
  BY DEF Init, GivenHeld, SourceHeld, Provisioned
<1>3. RestoreHeld /\ DatabaseHeld /\ ReportHeld /\ ReadyMeansSeeded
  BY DEF Init, RestoreHeld, DatabaseHeld, ReportHeld, ReadyMeansSeeded
<1> QED
  BY <1>1, <1>2, <1>3 DEF IInv

\* Every step keeps the types.
LEMMA TypeStep == TypeOK /\ [Next]_vars => TypeOK'
<1> SUFFICES ASSUME TypeOK, [Next]_vars PROVE TypeOK'
  OBVIOUS
<1> USE BoundsAssumption, StopsAssumption, SpecsAre
    DEF TypeOK, Owners, Phases, passVars, sourceVars, engineVars, hostVars, HostsTypeOK
<1>1. CASE BeginPass
  BY <1>1 DEF BeginPass
<1>2. CASE ensureUserSecret
  BY <1>2 DEF ensureUserSecret, Proceed
<1>3. CASE ensureDataSourceCredentials
  BY <1>3 DEF ensureDataSourceCredentials, Proceed
<1>4. CASE SourceSecretGone
  BY <1>4 DEF SourceSecretGone, Abort
<1>5. CASE NothingToCopy
  BY <1>5 DEF NothingToCopy, Proceed
<1>6. CASE createSecret
  BY <1>6 DEF createSecret
<1>7. CASE applyPMMBindings
  BY <1>7 DEF applyPMMBindings
<1>8. CASE Apply
  BY <1>8 DEF Apply
<1>9. CASE Gate
  BY <1>9 DEF Gate, ReconcileDataSource, unrecoverableAuthError
<1>10. CASE StatusPSMDB
  <2>1. StatusPhase \in Phases
    <3>1. enginePhase \in Phases
      BY DEF enginePhase
    <3> QED
      BY <3>1 DEF StatusPhase
  <2>2. published' \subseteq Hidden
    BY <1>10 DEF StatusPSMDB, withoutHiddenHosts
  <2>3. /\ phase' = StatusPhase /\ pc' = "idle"
        /\ UNCHANGED <<spec, pods, hosts, stops, sourceVars, users, copy, report, cr, engineVars,
                       restarts, failures>>
    BY <1>10 DEF StatusPSMDB
  <2> QED
    BY <2>1, <2>2, <2>3
<1>11. CASE TargetUnreadable
  BY <1>11 DEF TargetUnreadable, Abort
<1>12. CASE PassFails
  BY <1>12 DEF PassFails, Abort
<1>13. CASE DeleteSource
  <2>1. backupThere' \in BOOLEAN /\ secretThere' \in BOOLEAN
    BY <1>13, Zenon DEF DeleteSource
  <2> QED
    BY <1>13, <2>1 DEF DeleteSource
<1>14. CASE GenerateUsers
  BY <1>14 DEF GenerateUsers
<1>15. CASE InitDatabase
  BY <1>15 DEF InitDatabase
<1>16. CASE BecomeReady
  BY <1>16 DEF BecomeReady
<1>17. CASE PublishBackupVersion
  BY <1>17 DEF PublishBackupVersion
<1>18. CASE AuthenticationFails
  BY <1>18 DEF AuthenticationFails
<1>19. CASE StopBeingReady
  BY <1>19 DEF StopBeingReady
<1>20. CASE EndRestore
  BY <1>20 DEF EndRestore
<1>21. CASE ConnectionUnreadable
  BY <1>21 DEF ConnectionUnreadable
<1>22. CASE HiddenChange
  BY <1>22 DEF HiddenChange, HiddenPodStarts, HiddenPodStops
<1>23. CASE ListHosts
  BY <1>23 DEF ListHosts, RefreshHosts
<1>24. CASE UNCHANGED vars
  BY <1>24 DEF vars
<1> QED
  BY <1>1, <1>2, <1>3, <1>4, <1>5, <1>6, <1>7, <1>8, <1>9, <1>10, <1>11, <1>12, <1>13, <1>14,
     <1>15, <1>16, <1>17, <1>18, <1>19, <1>20, <1>21, <1>22, <1>23, <1>24
  DEF Next, Pass, SyncPSMDB

\* Every step keeps the invariant.
LEMMA StepIInv == IInv /\ [Next]_vars => IInv'
<1> SUFFICES ASSUME IInv, [Next]_vars PROVE IInv'
  OBVIOUS
<1>0. TypeOK'
  BY TypeStep DEF IInv
<1>s. /\ spec \in Specs /\ spec' = spec
      /\ spec.seed \in Seeds /\ spec.given \in {"none", "source", "other"}
      /\ spec.seed = "none" => spec.given # "source"
      /\ spec.seed = "External" => spec.given # "none"
      /\ spec.seed \in {"Backup", "PointInTime"} => spec.given = "none"
  <2>1. spec \in Specs
    BY DEF IInv, TypeOK
  <2>2. spec' = spec
    BY DEF Next, Pass, SyncPSMDB, BeginPass, ensureUserSecret, ensureDataSourceCredentials,
           SourceSecretGone, NothingToCopy, createSecret, applyPMMBindings, Apply, Gate,
           StatusPSMDB, TargetUnreadable, PassFails, DeleteSource, GenerateUsers, InitDatabase,
           BecomeReady, PublishBackupVersion, AuthenticationFails, StopBeingReady, EndRestore,
           ConnectionUnreadable, HiddenChange, ListHosts, Abort, Proceed, vars
  <2> QED
    BY <2>1, <2>2, SpecsAre
<1> USE <1>0, <1>s
    DEF IInv, GivenHeld, SourceHeld, RestoreHeld, DatabaseHeld, ReportHeld, ReadyMeansSeeded,
        Provisioned, Mismatch, dataSourceInstanceKnown, passVars, sourceVars, engineVars, Seeds
<1>1. CASE BeginPass
  BY <1>1 DEF BeginPass
<1>2. CASE ensureUserSecret
  BY <1>2 DEF ensureUserSecret, Proceed
<1>3. CASE ensureDataSourceCredentials
  BY <1>3 DEF ensureDataSourceCredentials, Proceed
<1>4. CASE SourceSecretGone
  BY <1>4 DEF SourceSecretGone, Abort
<1>5. CASE NothingToCopy
  BY <1>5 DEF NothingToCopy, Proceed
<1>6. CASE createSecret
  BY <1>6 DEF createSecret
<1>7. CASE applyPMMBindings
  BY <1>7 DEF applyPMMBindings
<1>8. CASE Apply
  BY <1>8 DEF Apply
<1>9. CASE Gate
  BY <1>9 DEF Gate, ReconcileDataSource, unrecoverableAuthError, TypeOK
<1>10. CASE StatusPSMDB
  BY <1>10 DEF StatusPSMDB, StatusPhase, TypeOK
<1>11. CASE TargetUnreadable
  BY <1>11 DEF TargetUnreadable, Abort
<1>12. CASE PassFails
  BY <1>12 DEF PassFails, Abort
<1>13. CASE DeleteSource
  BY <1>13 DEF DeleteSource
<1>14. CASE GenerateUsers
  BY <1>14 DEF GenerateUsers, TypeOK, Owners
<1>15. CASE InitDatabase
  BY <1>15 DEF InitDatabase
<1>16. CASE BecomeReady
  BY <1>16 DEF BecomeReady
<1>17. CASE PublishBackupVersion
  BY <1>17 DEF PublishBackupVersion
<1>18. CASE AuthenticationFails
  BY <1>18 DEF AuthenticationFails
<1>19. CASE StopBeingReady
  BY <1>19 DEF StopBeingReady
<1>20. CASE EndRestore
  BY <1>20 DEF EndRestore
<1>21. CASE ConnectionUnreadable
  BY <1>21 DEF ConnectionUnreadable
<1>22. CASE HiddenChange
  BY <1>22 DEF HiddenChange, HiddenPodStarts, HiddenPodStops
<1>23. CASE ListHosts
  BY <1>23 DEF ListHosts, RefreshHosts
<1>24. CASE UNCHANGED vars
  BY <1>24 DEF vars
<1> QED
  BY <1>1, <1>2, <1>3, <1>4, <1>5, <1>6, <1>7, <1>8, <1>9, <1>10, <1>11, <1>12, <1>13, <1>14,
     <1>15, <1>16, <1>17, <1>18, <1>19, <1>20, <1>21, <1>22, <1>23, <1>24
  DEF Next, Pass, SyncPSMDB

\* The invariant holds in every state.
LEMMA IInvInvariant == Spec => []IInv
BY InitIInv, StepIInv, PTL DEF Spec

-----------------------------------------------------------------------------
\* SyncPSMDB and StatusPSMDB keep every variable in its type.
THEOREM TypeCorrect == Spec => []TypeOK
<1>1. IInv => TypeOK
  BY DEF IInv
<1> QED
  BY <1>1, IInvInvariant, PTL

\* The users secret holds the credentials the user supplied, or those of the
\* source, before anything is restored, in every order of the pass, PMM and the
\* operator.
THEOREM CredentialsComeFirst == Spec => []CredentialsFirst
<1>1. IInv => CredentialsFirst
  BY DEF IInv, GivenHeld, RestoreHeld, Provisioned, CredentialsFirst
<1> QED
  BY <1>1, IInvInvariant, PTL

\* Only a userSecretRef that does not match its backup locks the operator out.
THEOREM OperatorStaysIn == Spec => []NoLockout
<1>1. IInv => NoLockout
  BY DEF IInv, DatabaseHeld, Mismatch, NoLockout
<1> QED
  BY <1>1, IInvInvariant, PTL

\* An Instance with a data source is Ready only with its data, though the gate
\* and StatusPSMDB read the engine at different times.
THEOREM ReadyIsSeeded == Spec => []ReadyMeansSeeded
<1>1. IInv => ReadyMeansSeeded
  BY DEF IInv
<1> QED
  BY <1>1, IInvInvariant, PTL
-----------------------------------------------------------------------------
(***************************************************************************)
(* What a Ready Instance can be used with.                                 *)
(***************************************************************************)

\* SyncPSMDB, StatusPSMDB: the users secret of a Ready Instance opens its
\* database, and that of a seeded one was restored and knows the users of its
\* source, through restarts, lost passes and a restore that replaces the users
\* underneath.
ReadyOpens ==
    phase = "Ready" =>
        /\ db # "none" /\ db = users
        /\ spec.seed # "none" => restore = "Succeeded" /\ db = "source"

\* A database is never without a users secret, a ready engine has opened it, and
\* it knows the users of the source once the restore has succeeded.
EngineHeld ==
    /\ db # "none" => users \in Owners
    /\ engine = "ready" => db # "none" /\ db = users
    /\ restore = "Succeeded" => db = "source"
    /\ phase = "Ready" => db # "none" /\ db = users

\* Every step keeps it: credentials in the users secret are not replaced, and no
\* restore runs under a Ready Instance.
LEMMA EngineStep == IInv /\ EngineHeld /\ [Next]_vars => EngineHeld'
<1> SUFFICES ASSUME IInv, EngineHeld, [Next]_vars PROVE EngineHeld'
  OBVIOUS
<1> USE DEF EngineHeld, engineVars, Owners
<1>1. CASE createSecret
  BY <1>1 DEF createSecret
<1>2. CASE applyPMMBindings
  BY <1>2 DEF applyPMMBindings
<1>3. CASE GenerateUsers
  BY <1>3 DEF GenerateUsers
<1>4. CASE InitDatabase
  BY <1>4 DEF InitDatabase
<1>5. CASE Gate
  BY <1>5 DEF Gate, ReconcileDataSource
<1>6. CASE StatusPSMDB
  <2>1. /\ phase' = StatusPhase
        /\ UNCHANGED <<users, engineVars>>
    BY <1>6 DEF StatusPSMDB
  <2>2. StatusPhase = "Ready" => engine = "ready"
    BY DEF StatusPhase, enginePhase, IInv, TypeOK
  <2> QED
    BY <2>1, <2>2
<1>7. CASE EndRestore
  <2>1. restore = "Running" /\ UNCHANGED <<users, phase>>
    BY <1>7 DEF EndRestore
  <2>2. cr /\ spec.seed # "none" /\ (spec.given = "none" => users = "source")
    BY <2>1 DEF IInv, RestoreHeld
  <2>3. users \in Owners
    BY <2>2, SpecsAre DEF IInv, TypeOK, GivenHeld, Provisioned
  <2>4. phase # "Ready"
    BY <2>1, <2>2 DEF IInv, ReadyMeansSeeded
  <2> QED
    BY <1>7, <2>1, <2>3, <2>4 DEF EndRestore
<1>8. CASE BecomeReady
  BY <1>8 DEF BecomeReady
<1>9. CASE AuthenticationFails
  BY <1>9 DEF AuthenticationFails
<1>10. CASE StopBeingReady
  BY <1>10 DEF StopBeingReady
<1>11. CASE PublishBackupVersion
  BY <1>11 DEF PublishBackupVersion
<1>12. CASE ConnectionUnreadable
  BY <1>12 DEF ConnectionUnreadable
<1>13. CASE UNCHANGED <<users, phase, engineVars>>
  BY <1>13
<1> QED
  BY <1>1, <1>2, <1>3, <1>4, <1>5, <1>6, <1>7, <1>8, <1>9, <1>10, <1>11, <1>12, <1>13
  DEF Next, Pass, SyncPSMDB, BeginPass, ensureUserSecret, ensureDataSourceCredentials,
      SourceSecretGone, NothingToCopy, Apply, TargetUnreadable, PassFails, DeleteSource,
      HiddenChange, ListHosts, Abort, Proceed, vars

\* A Ready Instance can be opened with the credentials it publishes, and a seeded
\* one has been restored and knows the users of its source.
THEOREM ReadyCanBeOpened == Spec => []ReadyOpens
<1>1. Init => EngineHeld
  BY DEF Init, EngineHeld
<1>2. IInv /\ EngineHeld => ReadyOpens
  BY DEF IInv, EngineHeld, ReadyMeansSeeded, ReadyOpens
<1> QED
  BY IInvInvariant, <1>1, EngineStep, <1>2, PTL DEF Spec

-----------------------------------------------------------------------------
(***************************************************************************)
(* The hosts that are published.                                           *)
(***************************************************************************)

\* withoutHiddenHosts: clients are sent to hidden members only by the race it
\* leaves open, that of a hidden pod that stops after the operator listed it.
HiddenOnlyByRace == published # {} => stops > 0

\* Until a pod stops, every hidden member that is listed has its pod.
LEMMA ListedHavePods ==
    ASSUME TypeOK, stops = 0 => hosts \subseteq pods /\ published = {}, [Next]_vars
    PROVE  (stops = 0 => hosts \subseteq pods /\ published = {})'
<1> USE DEF hostVars
<1>1. CASE HiddenChange
  <2>1. PICK h \in Hidden : HiddenPodStarts(h) \/ HiddenPodStops(h)
    BY <1>1 DEF HiddenChange
  <2>2. stops \in Nat
    BY StopsAssumption DEF TypeOK, HostsTypeOK
  <2> QED
    BY <2>1, <2>2 DEF HiddenPodStarts, HiddenPodStops
<1>2. CASE ListHosts
  BY <1>2 DEF ListHosts, RefreshHosts
<1>3. CASE StatusPSMDB
  BY <1>3 DEF StatusPSMDB, withoutHiddenHosts
<1>4. CASE UNCHANGED hostVars
  BY <1>4
<1> QED
  BY <1>1, <1>2, <1>3, <1>4
  DEF Next, Pass, SyncPSMDB, BeginPass, ensureUserSecret, ensureDataSourceCredentials,
      SourceSecretGone, NothingToCopy, createSecret, applyPMMBindings, Apply, Gate,
      TargetUnreadable, PassFails, DeleteSource, GenerateUsers, InitDatabase, BecomeReady,
      PublishBackupVersion, AuthenticationFails, StopBeingReady, EndRestore,
      ConnectionUnreadable, Abort, Proceed, vars

\* A hidden member is published only after a hidden pod has stopped.
THEOREM HiddenStayHidden == Spec => []HiddenOnlyByRace
<1> DEFINE Listed == stops = 0 => hosts \subseteq pods /\ published = {}
<1>1. Init => Listed
  BY DEF Init, HostsInit
<1>2. TypeOK /\ Listed /\ [Next]_vars => Listed'
  BY ListedHavePods
<1>3. TypeOK /\ Listed => HiddenOnlyByRace
  BY StopsAssumption DEF TypeOK, HostsTypeOK, HiddenOnlyByRace
<1> QED
  BY TypeCorrect, <1>1, <1>2, <1>3, PTL DEF Spec
=============================================================================
