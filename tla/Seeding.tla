------------------------------- MODULE Seeding -------------------------------
(***************************************************************************)
(* A new Instance, the credentials of its users and the data it is seeded  *)
(* with: the parts of SyncPSMDB that provision the users secret and gate   *)
(* the seeding, and StatusPSMDB (internal/provider/provider.go), with the  *)
(* references validate.go checks first.                                    *)
(*                                                                         *)
(* A pass validates the references, makes sure of the users secret, lets   *)
(* PMM add its token to it, applies the PerconaServerMongoDB, gates and    *)
(* drives the seeding, and reports the phase.  The operator works on       *)
(* between any two steps: it generates the users that the secret lacks,    *)
(* initialises the database with them, and restores the backup, which      *)
(* replaces the users in the database by those of its source.              *)
(***************************************************************************)
EXTENDS Integers, ConnectionHosts

CONSTANTS
    MaxRestarts,    \* bound on how often the engine stops being ready
    MaxFailures     \* bound on the API calls that fail

ASSUME BoundsAssumption == MaxRestarts \in Nat /\ MaxFailures \in Nat

VARIABLES
    spec,       \* the Instance: dataSource, userSecretRef, PMM required
    backupThere, secretThere,   \* the source's Backup, and its users secret
    users,      \* whose credentials the users secret holds
    pc,         \* where the pass is
    copy,       \* the credentials the pass is about to copy
    report,     \* the DataSourceStatus of the pass
    phase,      \* the phase of the Instance
    cr,         \* the PerconaServerMongoDB exists
    db,         \* whose credentials the database knows
    engine,     \* status.state of the PerconaServerMongoDB
    agent,      \* it has published a BackupVersion
    restore,    \* the Restore that seeds the Instance
    restarts, failures

passVars == <<pc, copy, report>>
sourceVars == <<backupThere, secretThere>>
engineVars == <<db, engine, agent, restore>>

vars == <<spec, hostVars, sourceVars, users, passVars, phase, cr, engineVars, restarts, failures>>

\* Credentials are those of the source of the data, others that the user
\* supplied, or generated.
Owners == {"source", "other", "generated"}
Seeds == {"none", "Backup", "External", "PointInTime"}
Phases == {"Provisioning", "Restoring", "Failed", "Ready"}

\* validateDataSource and validateUserSecret: an external backup comes with the
\* credentials of its users, any other data source without.
validateUserSecret(s) ==
    CASE s.seed = "none"                      -> s.given # "source"
      [] s.seed = "External"                  -> s.given # "none"
      [] s.seed \in {"Backup", "PointInTime"} -> s.given = "none"

Specs == {s \in [seed : Seeds, given : {"none", "source", "other"}, pmm : BOOLEAN] :
              validateUserSecret(s)}

TypeOK ==
    /\ spec \in Specs
    /\ backupThere \in BOOLEAN /\ secretThere \in BOOLEAN
    /\ users \in Owners \cup {"none", "empty"}
    /\ pc \in {"idle", "users", "create", "pmm", "apply", "seed", "status"}
    /\ copy \in {"none", "source", "other"}
    /\ report \in {"unset", "waiting", "failed", "done"}
    /\ phase \in Phases
    /\ cr \in BOOLEAN
    /\ db \in Owners \cup {"none"}
    /\ engine \in {"initializing", "ready", "error", "authError"}
    /\ agent \in BOOLEAN
    /\ restore \in {"none", "Running", "Succeeded", "Failed"}
    /\ restarts \in 0..MaxRestarts
    /\ failures \in 0..MaxFailures
    /\ HostsTypeOK

Init ==
    /\ spec \in Specs
    /\ backupThere = TRUE
    /\ secretThere \in BOOLEAN
    /\ users = "none"
    /\ pc = "idle" /\ copy = "none" /\ report = "unset"
    /\ phase = "Provisioning"
    /\ cr = FALSE
    /\ db = "none" /\ engine = "initializing" /\ agent = FALSE
    /\ restore = "none"
    /\ restarts = 0 /\ failures = 0
    /\ HostsInit

-----------------------------------------------------------------------------
(***************************************************************************)
(* The pass.                                                               *)
(***************************************************************************)

\* Faulty variant: PMM adds its token before the credentials are copied.
BeginPassWithToken ==
    /\ pc = "idle"
    /\ spec.seed \in {"Backup", "External"} => backupThere
    /\ pc' = "users"
    /\ report' = "unset"
    /\ users' = IF spec.pmm /\ users = "none" THEN "empty" ELSE users
    /\ UNCHANGED <<spec, hostVars, sourceVars, copy, phase, cr, engineVars, restarts, failures>>

\* ValidateReferences: the Backup of the data source must exist.
BeginPass ==
    /\ pc = "idle"
    /\ spec.seed \in {"Backup", "External"} => backupThere
    /\ pc' = "users"
    /\ report' = "unset"
    /\ UNCHANGED <<spec, hostVars, sourceVars, users, copy, phase, cr, engineVars, restarts, failures>>

\* The pass ends with an error; it is not reported as a status.
Abort ==
    /\ pc' = "idle"
    /\ copy' = "none"
    /\ UNCHANGED <<spec, hostVars, sourceVars, users, phase, cr, engineVars, restarts>>

\* Go on to step p, to copy the credentials c.
Proceed(p, c) ==
    /\ pc' = p
    /\ copy' = c
    /\ UNCHANGED <<spec, hostVars, sourceVars, users, report, phase, cr, engineVars, restarts, failures>>

\* The secret the user supplied is there: ValidateReferences saw it.
ensureUserSecret ==
    /\ pc = "users"
    /\ spec.given # "none"
    /\ IF users # "none" THEN Proceed("pmm", "none") ELSE Proceed("create", spec.given)

\* Whether the Instance of the source is known: a Backup names it while it is
\* there, a PointInTime source always.
dataSourceInstanceKnown == spec.seed = "PointInTime" \/ backupThere

\* Faulty variant: a users secret that is already there is an error.
ensureDataSourceCredentialsOnce ==
    /\ pc = "users"
    /\ spec.given = "none"
    /\ spec.seed # "none"
    /\ IF users # "none"
           THEN Abort /\ UNCHANGED <<report, failures>>
           ELSE /\ secretThere
                /\ Proceed("create", "source")

ensureDataSourceCredentials ==
    /\ pc = "users"
    /\ spec.given = "none"
    /\ spec.seed # "none"
    /\ IF users # "none" \/ ~dataSourceInstanceKnown
           THEN Proceed("pmm", "none")
           ELSE /\ secretThere
                /\ Proceed("create", "source")

\* The users secret of the source is gone: a failure, and the pass ends.
SourceSecretGone ==
    /\ pc = "users"
    /\ spec.given = "none"
    /\ spec.seed # "none"
    /\ users = "none" /\ dataSourceInstanceKnown /\ ~secretThere
    /\ report' = "failed"
    /\ Abort
    /\ UNCHANGED failures

\* ensureDataSourceCredentials takes any error of its first read for a secret
\* that is not there, and goes on.
TargetUnreadable ==
    /\ pc = "users"
    /\ spec.given = "none"
    /\ spec.seed # "none"
    /\ users # "none"
    /\ failures < MaxFailures
    /\ failures' = failures + 1
    /\ \/ /\ dataSourceInstanceKnown /\ ~secretThere
          /\ report' = "failed"
          /\ Abort
       \/ /\ dataSourceInstanceKnown /\ secretThere
          /\ pc' = "create"
          /\ copy' = "source"
          /\ UNCHANGED <<spec, hostVars, sourceVars, users, report, phase, cr, engineVars, restarts>>
       \/ /\ ~dataSourceInstanceKnown
          /\ pc' = "pmm"
          /\ UNCHANGED <<spec, hostVars, sourceVars, users, copy, report, phase, cr, engineVars, restarts>>

NothingToCopy ==
    /\ pc = "users"
    /\ spec.given = "none" /\ spec.seed = "none"
    /\ Proceed("pmm", "none")

\* AlreadyExists is not an error.
createSecret ==
    /\ pc = "create"
    /\ users' = IF users = "none" THEN copy ELSE users
    /\ pc' = "pmm"
    /\ copy' = "none"
    /\ UNCHANGED <<spec, hostVars, sourceVars, report, phase, cr, engineVars, restarts, failures>>

\* The token of PMM goes into the users secret, which is created for it, unless
\* the binding cannot be rendered in this pass.
applyPMMBindings ==
    /\ pc = "pmm"
    /\ \/ UNCHANGED users
       \/ spec.pmm /\ users = "none" /\ users' = "empty"
    /\ pc' = "apply"
    /\ UNCHANGED <<spec, hostVars, sourceVars, copy, report, phase, cr, engineVars, restarts, failures>>

Apply ==
    /\ pc = "apply"
    /\ cr' = TRUE
    /\ pc' = IF spec.seed = "none" THEN "status" ELSE "seed"
    /\ UNCHANGED <<spec, hostVars, sourceVars, users, copy, report, phase, engineVars, restarts, failures>>

unrecoverableAuthError == engine = "authError"

\* What the runtime does, external to this repository: it creates the Restore
\* once the source is usable, and reports how it fares.
ReconcileDataSource ==
    /\ restore' = IF restore = "none" /\ (spec.seed = "PointInTime" \/ backupThere)
                      THEN "Running" ELSE restore
    /\ report' = CASE restore = "Succeeded"           -> "done"
                   [] restore = "Failed"              -> "failed"
                   [] restore \in {"none", "Running"} -> "waiting"

\* Faulty variant: credentials that do not match are waited for.
GatePatient ==
    /\ pc = "seed"
    /\ \/ /\ engine # "ready" \/ ~agent
          /\ report' = "waiting"
          /\ UNCHANGED restore
       \/ /\ engine = "ready" /\ agent
          /\ ReconcileDataSource
    /\ pc' = "status"
    /\ UNCHANGED <<spec, hostVars, sourceVars, users, copy, phase, cr, db, engine, agent, restarts, failures>>

\* Faulty variant: while the gate is closed there is nothing to report.
GateSilent ==
    /\ pc = "seed"
    /\ \/ /\ engine = "authError"
          /\ report' = "failed"
          /\ UNCHANGED restore
       \/ /\ engine \in {"initializing", "error"} \/ (engine = "ready" /\ ~agent)
          /\ UNCHANGED <<report, restore>>
       \/ /\ engine = "ready" /\ agent
          /\ ReconcileDataSource
    /\ pc' = "status"
    /\ UNCHANGED <<spec, hostVars, sourceVars, users, copy, phase, cr, db, engine, agent, restarts, failures>>

\* The gate: the engine Ready, with a BackupVersion.
Gate ==
    /\ pc = "seed"
    /\ \/ /\ unrecoverableAuthError
          /\ report' = "failed"
          /\ UNCHANGED restore
       \/ /\ engine \in {"initializing", "error"} \/ (engine = "ready" /\ ~agent)
          /\ report' = "waiting"
          /\ UNCHANGED restore
       \/ /\ engine = "ready" /\ agent
          /\ ReconcileDataSource
    /\ pc' = "status"
    /\ UNCHANGED <<spec, hostVars, sourceVars, users, copy, phase, cr, db, engine, agent, restarts, failures>>

\* A call fails before the status is computed, and the pass ends.
PassFails ==
    /\ pc \notin {"idle", "status"}
    /\ failures < MaxFailures
    /\ failures' = failures + 1
    /\ Abort
    /\ UNCHANGED report

-----------------------------------------------------------------------------
(***************************************************************************)
(* StatusPSMDB reads the engine anew, later than the gate did.             *)
(***************************************************************************)
hasActiveRestoreForInstance == restore = "Running"

enginePhase ==
    CASE engine = "ready"                 -> "Ready"
      [] engine \in {"error", "authError"} -> "Failed"
      [] engine = "initializing"          -> "Provisioning"

StatusPhase ==
    CASE report = "waiting" -> "Restoring"
      [] report = "failed"  -> "Failed"
      [] report \in {"unset", "done"} ->
            IF hasActiveRestoreForInstance THEN "Restoring" ELSE enginePhase

\* Faulty variant: the connection details are written once.
StatusPSMDBOnce ==
    /\ pc = "status"
    /\ phase' = StatusPhase
    /\ published' = IF StatusPhase = "Ready" /\ phase # "Ready" THEN withoutHiddenHosts ELSE published
    /\ pc' = "idle"
    /\ UNCHANGED <<spec, pods, hosts, stops, sourceVars, users, copy, report, cr, engineVars, restarts,
                   failures>>

\* A ready Instance is reported with its connection details.
StatusPSMDB ==
    /\ pc = "status"
    /\ phase' = StatusPhase
    /\ published' = IF StatusPhase = "Ready" THEN withoutHiddenHosts ELSE published
    /\ pc' = "idle"
    /\ UNCHANGED <<spec, pods, hosts, stops, sourceVars, users, copy, report, cr, engineVars, restarts,
                   failures>>

\* buildConnectionDetails cannot read the users secret, the hidden pods, their
\* Services or the CA.
ConnectionUnreadable ==
    /\ pc = "status"
    /\ StatusPhase = "Ready"
    /\ failures < MaxFailures
    /\ failures' = failures + 1
    /\ phase' = "Failed"
    /\ pc' = "idle"
    /\ UNCHANGED <<spec, hostVars, sourceVars, users, copy, report, cr, engineVars, restarts>>

-----------------------------------------------------------------------------
(***************************************************************************)
(* The user, and the operator with PBM, which are not this repository's    *)
(* code.                                                                   *)
(***************************************************************************)

\* The Backup of the data source, or the source Instance with its users secret,
\* is deleted.
DeleteSource ==
    /\ \/ backupThere /\ backupThere' = FALSE /\ UNCHANGED secretThere
       \/ secretThere /\ secretThere' = FALSE /\ UNCHANGED backupThere
    /\ UNCHANGED <<spec, hostVars, users, passVars, phase, cr, engineVars, restarts, failures>>

\* The operator completes the users secret.
GenerateUsers ==
    /\ cr
    /\ users \in {"none", "empty"}
    /\ users' = "generated"
    /\ UNCHANGED <<spec, hostVars, sourceVars, passVars, phase, cr, engineVars, restarts, failures>>

\* The database of a new cluster is initialised with them.
InitDatabase ==
    /\ cr
    /\ users \in Owners
    /\ db = "none"
    /\ db' = users
    /\ UNCHANGED <<spec, hostVars, sourceVars, users, passVars, phase, cr, engine, agent, restore, restarts,
                   failures>>

BecomeReady ==
    /\ db # "none"
    /\ db = users
    /\ engine # "ready"
    /\ engine' = "ready"
    /\ UNCHANGED <<spec, hostVars, sourceVars, users, passVars, phase, cr, db, agent, restore, restarts, failures>>

PublishBackupVersion ==
    /\ engine = "ready"
    /\ ~agent
    /\ agent' = TRUE
    /\ UNCHANGED <<spec, hostVars, sourceVars, users, passVars, phase, cr, db, engine, restore, restarts, failures>>

AuthenticationFails ==
    /\ db # "none"
    /\ db # users
    /\ engine # "authError"
    /\ engine' = "authError"
    /\ UNCHANGED <<spec, hostVars, sourceVars, users, passVars, phase, cr, db, agent, restore, restarts, failures>>

\* A rolling restart, or an error that passes.
StopBeingReady ==
    /\ engine = "ready"
    /\ restarts < MaxRestarts
    /\ restarts' = restarts + 1
    /\ engine' \in {"initializing", "error"}
    /\ UNCHANGED <<spec, hostVars, sourceVars, users, passVars, phase, cr, db, agent, restore, failures>>

\* The users in the database are those of the source from here on.
EndRestore ==
    /\ restore = "Running"
    /\ \/ /\ restore' = "Succeeded"
          /\ db' = "source"
          /\ engine' = "initializing"
       \/ /\ restore' = "Failed"
          /\ UNCHANGED <<db, engine>>
    /\ UNCHANGED <<spec, hostVars, sourceVars, users, passVars, phase, cr, agent, restarts, failures>>

\* Hidden members start with the cluster, and are listed by the operator.
HiddenChange ==
    /\ cr
    /\ \E h \in Hidden : HiddenPodStarts(h) \/ HiddenPodStops(h)
    /\ UNCHANGED <<spec, sourceVars, users, passVars, phase, cr, engineVars, restarts, failures>>

ListHosts ==
    /\ RefreshHosts
    /\ UNCHANGED <<spec, sourceVars, users, passVars, phase, cr, engineVars, restarts, failures>>

-----------------------------------------------------------------------------
SyncPSMDB ==
    \/ ensureUserSecret
    \/ ensureDataSourceCredentials
    \/ SourceSecretGone
    \/ NothingToCopy
    \/ createSecret
    \/ applyPMMBindings
    \/ Apply
    \/ Gate

Pass == BeginPass \/ SyncPSMDB \/ StatusPSMDB

Next ==
    \/ Pass
    \/ TargetUnreadable
    \/ PassFails
    \/ ConnectionUnreadable
    \/ DeleteSource
    \/ GenerateUsers
    \/ InitDatabase
    \/ BecomeReady
    \/ PublishBackupVersion
    \/ AuthenticationFails
    \/ StopBeingReady
    \/ EndRestore
    \/ HiddenChange
    \/ ListHosts

Spec == Init /\ [][Next]_vars

(***************************************************************************)
(* The provider watches the PerconaServerMongoDB and the Restores, so it   *)
(* makes a pass after their every change; the operator does its part.      *)
(***************************************************************************)
Fairness ==
    /\ WF_vars(Pass)
    /\ WF_vars(GenerateUsers)
    /\ WF_vars(InitDatabase)
    /\ WF_vars(BecomeReady)
    /\ WF_vars(PublishBackupVersion)
    /\ WF_vars(AuthenticationFails)
    /\ WF_vars(EndRestore)
    /\ WF_vars(ListHosts)

FairSpec == Spec /\ Fairness

-----------------------------------------------------------------------------
(***************************************************************************)
(* Properties.                                                             *)
(***************************************************************************)

\* SyncPSMDB provisions the users secret before PMM and the operator can: data
\* is only restored into an Instance whose secret holds the credentials the
\* user supplied, or those of the source.
CredentialsFirst ==
    /\ cr /\ spec.given # "none" => users = spec.given
    /\ restore # "none" /\ spec.given = "none" => users = "source"

\* ensureDataSourceCredentials: the restored data stays accessible.  The
\* operator is locked out only by a userSecretRef that does not match.
NoLockout == engine = "authError" => spec.given = "other" /\ spec.seed = "External"

\* SyncPSMDB and StatusPSMDB read the engine at different times, and yet an
\* Instance with a data source is not Ready before its data is there.
ReadyMeansSeeded == phase = "Ready" /\ spec.seed # "none" => restore = "Succeeded"

\* SyncPSMDB: an Instance whose source stays is seeded, or fails.
SeedEnds ==
    spec.seed # "none" ~> (phase \in {"Ready", "Failed"} \/ ~backupThere \/ ~secretThere)

\* unrecoverableAuthError: supplied credentials that do not match those of the
\* backup are reported as a failure, not waited for.
MismatchReported ==
    (restore = "Succeeded" /\ spec.given = "other") ~> (phase = "Failed" \/ ~backupThere)

\* withoutHiddenHosts: the hosts are older than the pods they are compared with,
\* so that a hidden member whose pod just stopped is published; a later pass
\* takes it back, unless passes end with the Backup of the data source.
HiddenUnpublished ==
    \A h \in Hidden : h \in published ~> (h \notin published \/ ~backupThere)

\* provider.go says that the phase is Restoring while seeding has not reached a
\* terminal state: an Instance that was seeded should not be Restoring again.
SeededOnce == [][phase = "Ready" /\ spec.seed # "none" => phase' # "Restoring"]_vars
=============================================================================
