----------------------------- MODULE Maintenance -----------------------------
(***************************************************************************)
(* Changes that restart a database wait for its owner.  Two steps of Sync  *)
(* ask for that approval: convergedCRVersion (internal/provider/           *)
(* provider.go), which moves the engine CR to the version of the bundled   *)
(* operator, and acceptClientsWithoutCertificates (tls.go).  They share    *)
(* one field of the Instance, spec.maintenance.approved, that holds a      *)
(* single token and stays there after it was used.                         *)
(*                                                                         *)
(* Around them: the pre-upgrade hook of the chart (upgrade.go), Helm, which *)
(* replaces the operator Deployment and, after it, the Provider CR, and    *)
(* the operator, which pins the version of a CR that has none.             *)
(*                                                                         *)
(* One pass of Sync runs at a time, the default of the controller; passes  *)
(* of different Instances write different CRs and share only what they     *)
(* read.  Instances are deleted between passes, by Cleanup.  TLS is on.    *)
(***************************************************************************)
EXTENDS Integers

CONSTANTS
    Instances,
    Versions,       \* operator versions, which are also the versions of a CR
    Releases,       \* provider releases: the version in the Provider CR
    Bundle,         \* Bundle[r]: the operator version release r installs
    Confs,          \* shapes of the mongod configuration the user may write
    MaxEdits,       \* bound on the edits of Instances
    MaxUpgrades,    \* bound on helm upgrade
    MaxRollbacks,   \* bound on helm rollback
    MaxFailures     \* bound on the reads that fail

\* spec.crVersion of a CR the operator has not pinned yet.
Unpinned == [major |-> 0, minor |-> 0, patch |-> 0]

clientCertificateOptionalToken == "tls-clients-without-certificates"
NoToken == "no token"

ASSUME VersionsAssumption ==
    /\ Versions \subseteq [major : Nat, minor : Nat, patch : Nat]
    /\ Unpinned \notin Versions

ASSUME ReleasesAssumption ==
    /\ Bundle \in [Releases -> Versions]
    /\ clientCertificateOptionalToken \notin Releases
    /\ NoToken \notin Releases

\* A configuration without the setting, with it, or not a mapping where the
\* setting belongs.
ASSUME ConfsAssumption == "plain" \in Confs /\ Confs \subseteq {"plain", "explicit", "broken"}

ASSUME BoundsAssumption ==
    MaxEdits \in Nat /\ MaxUpgrades \in Nat /\ MaxRollbacks \in Nat /\ MaxFailures \in Nat

Tokens == Releases \cup {clientCertificateOptionalToken, NoToken}

InstanceSpec == [approved : Tokens, auto : BOOLEAN, conf : Confs]

VARIABLES
    spec,       \* spec[i]: maintenance and configuration of the Instance
    exists,     \* Instances whose engine CR exists
    ver,        \* ver[i]: spec.crVersion of the engine CR
    live,       \* live[i]: whether its configuration has the TLS setting
    operator,   \* tag of the operator Deployment
    running,    \* version of the operator that runs
    release,    \* spec.release.version of the Provider CR
    helm,       \* what Helm does: idle, preflight or publish
    target,     \* the release it installs
    todo,       \* Instances the hook has yet to check
    pc,         \* where the pass is
    who,        \* the Instance it works on
    want,       \* the spec of that Instance when the pass began
    cur,        \* the CR version it read
    op,         \* the operator version it read
    next,       \* the CR version it will apply
    mode,       \* the configuration it will apply
    granted,    \* granted[i]: tokens the owner ever approved, for the properties
    tolerant,   \* owners who ever approved rolling restarts in advance
    published,  \* releases the Provider CR ever named
    verified,   \* Instances the running hook found inside the skew window
    checked,    \* those of the hook before the deployed operator
    edits, upgrades, rollbacks, failures

owner == <<spec, granted, tolerant, edits>>
engine == <<exists, ver, live>>
chart == <<operator, release, helm, target, todo, published, upgrades, rollbacks>>
skew == <<verified, checked>>
pass == <<pc, who, want, cur, op, next, mode>>

vars == <<owner, engine, chart, skew, pass, running, failures>>

NewSpec == [approved |-> NoToken, auto |-> FALSE, conf |-> "plain"]

\* Rendered configurations: without the setting, with it, or not a mapping.
Settings == {"unset", "set", "broken"}

Steps == {"idle", "readCR", "readOperator", "ask", "readTLS", "apply"}

TypeOK ==
    /\ spec \in [Instances -> InstanceSpec]
    /\ exists \subseteq Instances
    /\ ver \in [Instances -> Versions \cup {Unpinned}]
    /\ live \in [Instances -> Settings]
    /\ operator \in Versions
    /\ running \in Versions
    /\ release \in Releases
    /\ helm \in {"idle", "preflight", "publish"}
    /\ target \in Releases
    /\ todo \subseteq Instances
    /\ pc \in Steps
    /\ who \in Instances
    /\ want \in InstanceSpec
    /\ cur \in Versions \cup {Unpinned}
    /\ op \in Versions \cup {Unpinned}
    /\ next \in Versions \cup {Unpinned}
    /\ mode \in Settings
    /\ granted \in [Instances -> SUBSET Tokens]
    /\ tolerant \subseteq Instances
    /\ published \subseteq Releases
    /\ verified \subseteq Instances
    /\ checked \subseteq Instances
    /\ edits \in 0..MaxEdits
    /\ upgrades \in 0..MaxUpgrades
    /\ rollbacks \in 0..MaxRollbacks
    /\ failures \in 0..MaxFailures

(***************************************************************************)
(* Versions.  One that does not parse is less than none: convergedCRVersion *)
(* then holds the CR, as it does when it finds no version at all.          *)
(***************************************************************************)
versionLessThan(a, b) ==
    \/ a.major < b.major
    \/ a.major = b.major /\ a.minor < b.minor
    \/ a.major = b.major /\ a.minor = b.minor /\ a.patch < b.patch

skewWindowMinors == 3

outsideSkewWindow(t, c) == t.major # c.major \/ t.minor - c.minor >= skewWindowMinors

\* An operator of version t manages a CR of version c.
InWindow(t, c) == ~versionLessThan(t, c) /\ ~outsideSkewWindow(t, c)

\* Some Instances were created by earlier releases, which pinned their CRs and
\* did not have the TLS setting.
Init ==
    /\ spec = [i \in Instances |-> NewSpec]
    /\ release \in Releases
    /\ operator = Bundle[release]
    /\ exists \in SUBSET Instances
    /\ ver \in [Instances -> { v \in Versions : InWindow(operator, v) } \cup {Unpinned}]
    /\ \A i \in Instances : ver[i] = Unpinned <=> i \notin exists
    /\ live = [i \in Instances |-> "unset"]
    /\ running = operator
    /\ helm = "idle"
    /\ target = release
    /\ todo = {}
    /\ pc = "idle"
    /\ who \in Instances
    /\ want = NewSpec
    /\ cur = Unpinned
    /\ op = Unpinned
    /\ next = Unpinned
    /\ mode = "unset"
    /\ granted = [i \in Instances |-> {}]
    /\ tolerant = {}
    /\ published = {release}
    /\ verified = {}
    /\ checked = {}
    /\ edits = 0
    /\ upgrades = 0
    /\ rollbacks = 0
    /\ failures = 0

-----------------------------------------------------------------------------
(***************************************************************************)
(* A pass of Sync.                                                         *)
(***************************************************************************)

\* External: the runtime approves a rolling restart by token or in advance.
RequestMaintenance(token) == want.auto \/ want.approved = token

BeginPass(i) ==
    /\ pc = "idle"
    /\ pc' = "readCR"
    /\ who' = i
    /\ want' = spec[i]
    /\ UNCHANGED <<owner, engine, chart, skew, running, failures, cur, op, next, mode>>

\* A new CR, and one the operator has not pinned yet, is sent no version.
ReadCR ==
    /\ pc = "readCR"
    /\ cur' = ver[who]
    /\ next' = Unpinned
    /\ pc' = IF ver[who] = Unpinned THEN "readTLS" ELSE "readOperator"
    /\ UNCHANGED <<owner, engine, chart, skew, running, failures, who, want, op, mode>>

\* Faulty variant: a CR ahead of the operator converges too.
ReadOperatorDiffers ==
    /\ pc = "readOperator"
    /\ \/ /\ cur # operator
          /\ op' = operator
          /\ pc' = "ask"
          /\ UNCHANGED next
       \/ /\ cur = operator
          /\ next' = cur
          /\ pc' = "readTLS"
          /\ UNCHANGED op
    /\ UNCHANGED <<owner, engine, chart, skew, running, failures, who, want, cur, mode>>

\* operatorVersion: the tag of the one operator Deployment.  A CR at or ahead
\* of it is left alone.
ReadOperator ==
    /\ pc = "readOperator"
    /\ \/ /\ versionLessThan(cur, operator)
          /\ op' = operator
          /\ pc' = "ask"
          /\ UNCHANGED next
       \/ /\ ~versionLessThan(cur, operator)
          /\ next' = cur
          /\ pc' = "readTLS"
          /\ UNCHANGED op
    /\ UNCHANGED <<owner, engine, chart, skew, running, failures, who, want, cur, mode>>

\* The Deployments cannot be listed, none is the operator's, two disagree, or
\* the tag is no version: the CR is held.
DiscoveryFails ==
    /\ pc = "readOperator"
    /\ failures < MaxFailures
    /\ failures' = failures + 1
    /\ next' = cur
    /\ pc' = "readTLS"
    /\ UNCHANGED <<owner, engine, chart, skew, running, who, want, cur, op, mode>>

\* Faulty variant: the CR is bumped first and the approval asked for later.
AskLater ==
    /\ pc = "ask"
    /\ next' = op
    /\ pc' = "readTLS"
    /\ UNCHANGED <<owner, engine, chart, skew, running, failures, who, want, cur, op, mode>>

\* Faulty variant: the approval asked for is that of the TLS setting.
AskOtherToken ==
    /\ pc = "ask"
    /\ next' = IF RequestMaintenance(clientCertificateOptionalToken) THEN op ELSE cur
    /\ pc' = "readTLS"
    /\ UNCHANGED <<owner, engine, chart, skew, running, failures, who, want, cur, op, mode>>

\* The token names the release in the Provider CR.
Ask ==
    /\ pc = "ask"
    /\ next' = IF RequestMaintenance(release) THEN op ELSE cur
    /\ pc' = "readTLS"
    /\ UNCHANGED <<owner, engine, chart, skew, running, failures, who, want, cur, op, mode>>

acceptsClientsWithoutCertificates(i) == live[i] = "set"

\* withClientCertificatesOptional keeps what the user set and passes through
\* what is not a mapping.
withClientCertificatesOptional(conf, add) ==
    CASE conf = "plain"    -> IF add THEN "set" ELSE "unset"
      [] conf = "explicit" -> "set"
      [] conf = "broken"   -> "broken"

\* Faulty variant: what the CR has already is not looked at.
ReadTLSForgets ==
    /\ pc = "readTLS"
    /\ mode' = withClientCertificatesOptional(want.conf,
                  who \notin exists \/ RequestMaintenance(clientCertificateOptionalToken))
    /\ pc' = "apply"
    /\ UNCHANGED <<owner, engine, chart, skew, running, failures, who, want, cur, op, next>>

\* Faulty variant: an existing instance is changed without asking.
ReadTLSAtOnce ==
    /\ pc = "readTLS"
    /\ mode' = withClientCertificatesOptional(want.conf, TRUE)
    /\ pc' = "apply"
    /\ UNCHANGED <<owner, engine, chart, skew, running, failures, who, want, cur, op, next>>

\* acceptClientsWithoutCertificates reads the CR again.
ReadTLS ==
    /\ pc = "readTLS"
    /\ mode' = withClientCertificatesOptional(want.conf,
                  \/ who \notin exists
                  \/ acceptsClientsWithoutCertificates(who)
                  \/ RequestMaintenance(clientCertificateOptionalToken))
    /\ pc' = "apply"
    /\ UNCHANGED <<owner, engine, chart, skew, running, failures, who, want, cur, op, next>>

EndPass ==
    /\ pc' = "idle"
    /\ want' = NewSpec
    /\ cur' = Unpinned
    /\ op' = Unpinned
    /\ next' = Unpinned
    /\ mode' = "unset"
    /\ UNCHANGED who

(***************************************************************************)
(* c.Apply is a server-side apply: a version that is not sent is left as   *)
(* the operator set it.  An Instance whose CR moves past the release Helm  *)
(* installs, on a decision taken before, is no longer covered by the hook. *)
(***************************************************************************)
Apply ==
    /\ pc = "apply"
    /\ exists' = exists \cup {who}
    /\ ver' = IF next = Unpinned THEN ver ELSE [ver EXCEPT ![who] = next]
    /\ live' = [live EXCEPT ![who] = mode]
    /\ verified' = IF versionLessThan(Bundle[target], next) THEN verified \ {who} ELSE verified
    /\ checked' = IF versionLessThan(operator, next) THEN checked \ {who} ELSE checked
    /\ EndPass
    /\ UNCHANGED <<owner, chart, running, failures>>

\* A read or the Apply fails: Sync returns the error and is retried.
PassFails ==
    /\ pc # "idle"
    /\ failures < MaxFailures
    /\ failures' = failures + 1
    /\ EndPass
    /\ UNCHANGED <<owner, engine, chart, skew, running>>

\* CleanupPSMDB, and a new Instance under the same name.
Cleanup(i) ==
    /\ pc = "idle"
    /\ i \in exists
    /\ exists' = exists \ {i}
    /\ ver' = [ver EXCEPT ![i] = Unpinned]
    /\ live' = [live EXCEPT ![i] = "unset"]
    /\ spec' = [spec EXCEPT ![i] = NewSpec]
    /\ granted' = [granted EXCEPT ![i] = {}]
    /\ tolerant' = tolerant \ {i}
    /\ verified' = verified \ {i}
    /\ checked' = checked \ {i}
    /\ UNCHANGED <<chart, pass, running, failures, edits>>

Pass == ReadCR \/ ReadOperator \/ Ask \/ ReadTLS \/ Apply

-----------------------------------------------------------------------------
(***************************************************************************)
(* The owner, and the operator, which is not this repository's code.       *)
(***************************************************************************)
EditInstance(i) ==
    /\ edits < MaxEdits
    /\ edits' = edits + 1
    /\ \E s \in InstanceSpec :
          /\ s # spec[i]
          /\ spec' = [spec EXCEPT ![i] = s]
          /\ granted' = [granted EXCEPT ![i] = @ \cup {s.approved}]
          /\ tolerant' = IF s.auto THEN tolerant \cup {i} ELSE tolerant
    /\ UNCHANGED <<engine, chart, skew, pass, running, failures>>

\* The operator's setCRVersion.
PinVersion(i) ==
    /\ i \in exists
    /\ ver[i] = Unpinned
    /\ ver' = [ver EXCEPT ![i] = running]
    /\ UNCHANGED <<owner, chart, skew, pass, running, failures, exists, live>>

RolloutOperator ==
    /\ running # operator
    /\ running' = operator
    /\ UNCHANGED <<owner, engine, chart, skew, pass, failures>>

-----------------------------------------------------------------------------
(***************************************************************************)
(* helm upgrade: the hook checks the Instances one by one, then the        *)
(* operator Deployment is replaced and, after it, the Provider CR.  The    *)
(* order of the last two is Helm's: custom resources come last.            *)
(***************************************************************************)
StartUpgrade(r) ==
    /\ helm = "idle"
    /\ upgrades < MaxUpgrades
    /\ upgrades' = upgrades + 1
    /\ r # release
    /\ helm' = "preflight"
    /\ target' = r
    /\ todo' = Instances
    /\ verified' = {}
    /\ UNCHANGED <<owner, engine, pass, running, failures, operator, release, published,
                   rollbacks, checked>>

\* Faulty variant: a lag of exactly the window passes.
CheckInstanceWider(i) ==
    /\ helm = "preflight"
    /\ i \in todo
    /\ todo' = todo \ {i}
    /\ verified' = IF ver[i] # Unpinned THEN verified \cup {i} ELSE verified
    /\ ver[i] # Unpinned => ~versionLessThan(Bundle[target], ver[i])
                            /\ Bundle[target].minor - ver[i].minor <= skewWindowMinors
    /\ UNCHANGED <<owner, engine, pass, running, failures, operator, release, published,
                   helm, target, upgrades, rollbacks, checked>>

\* checkInstanceSkew: a CR ahead of the target, or too far behind it, is an
\* error, which ends the upgrade before anything is applied.
CheckInstance(i) ==
    /\ helm = "preflight"
    /\ i \in todo
    /\ \/ /\ i \notin exists \/ ver[i] = Unpinned
          /\ todo' = todo \ {i}
          /\ UNCHANGED <<helm, target, verified>>
       \/ /\ i \in exists /\ ver[i] # Unpinned
          /\ InWindow(Bundle[target], ver[i])
          /\ todo' = todo \ {i}
          /\ verified' = verified \cup {i}
          /\ UNCHANGED <<helm, target>>
       \/ /\ i \in exists /\ ver[i] # Unpinned
          /\ ~InWindow(Bundle[target], ver[i])
          /\ helm' = "idle"
          /\ target' = release
          /\ todo' = {}
          /\ verified' = {}
    /\ UNCHANGED <<owner, engine, pass, running, failures, operator, release, published,
                   upgrades, rollbacks, checked>>

\* An engine CR that cannot be read is a warning only.
CheckUnreadable(i) ==
    /\ helm = "preflight"
    /\ i \in todo
    /\ failures < MaxFailures
    /\ failures' = failures + 1
    /\ todo' = todo \ {i}
    /\ UNCHANGED <<owner, engine, pass, skew, running, operator, release, helm, target,
                   published, upgrades, rollbacks>>

DeployOperator ==
    /\ helm = "preflight"
    /\ todo = {}
    /\ operator' = Bundle[target]
    /\ checked' = verified
    /\ helm' = "publish"
    /\ UNCHANGED <<owner, engine, pass, running, failures, release, target, todo, published,
                   upgrades, rollbacks, verified>>

\* helm rollback runs no hook.
Rollback(r) ==
    /\ helm = "idle"
    /\ rollbacks < MaxRollbacks
    /\ rollbacks' = rollbacks + 1
    /\ r \in published \ {release}
    /\ target' = r
    /\ operator' = Bundle[r]
    /\ verified' = {}
    /\ checked' = {}
    /\ helm' = "publish"
    /\ UNCHANGED <<owner, engine, pass, running, failures, release, todo, published, upgrades>>

PublishRelease ==
    /\ helm = "publish"
    /\ release' = target
    /\ published' = published \cup {target}
    /\ helm' = "idle"
    /\ UNCHANGED <<owner, engine, pass, skew, running, failures, operator, target, todo,
                   upgrades, rollbacks>>

Helm ==
    \/ \E r \in Releases : StartUpgrade(r) \/ Rollback(r)
    \/ \E i \in Instances : CheckInstance(i) \/ CheckUnreadable(i)
    \/ DeployOperator
    \/ PublishRelease

Next ==
    \/ Pass
    \/ DiscoveryFails
    \/ PassFails
    \/ Helm
    \/ RolloutOperator
    \/ \E i \in Instances : BeginPass(i) \/ Cleanup(i) \/ EditInstance(i) \/ PinVersion(i)

Spec == Init /\ [][Next]_vars

(***************************************************************************)
(* The work queue serves every Instance in turn, a pass that was begun     *)
(* runs on, the operator does its part and Helm finishes what it applies.  *)
(***************************************************************************)
Fairness ==
    /\ WF_vars(Pass)
    /\ WF_vars(RolloutOperator)
    /\ WF_vars(PublishRelease)
    /\ \A i \in Instances : SF_vars(BeginPass(i)) /\ WF_vars(PinVersion(i))

FairSpec == Spec /\ Fairness

-----------------------------------------------------------------------------
\* A pinned CR moves to another version: the database restarts.
Bump(i) ==
    i \in exists /\ i \in exists' /\ ver[i] # Unpinned /\ ver'[i] # ver[i]

(***************************************************************************)
(* A pinned CR never moves to a lower version, whatever Helm does to the   *)
(* operator between the reads of a pass and its Apply: convergedCRVersion  *)
(* is only ever an upgrade.                                                *)
(***************************************************************************)
NeverDowngrade == [][\A i \in Instances : Bump(i) => ~versionLessThan(ver'[i], ver[i])]_vars

(***************************************************************************)
(* No database restarts for a new version unless its owner approved        *)
(* rolling restarts in advance, or approved a release that the Provider CR *)
(* named at some time (RequestMaintenance in convergedCRVersion).          *)
(***************************************************************************)
BumpsApproved ==
    [][\A i \in Instances :
          Bump(i) => i \in tolerant \/ granted[i] \cap published # {}]_vars

(***************************************************************************)
(* The hook's promise outlives the hook: a CR it found inside the skew     *)
(* window is inside that of the operator then deployed, and stays there    *)
(* however long its owner defers the bump and whatever passes are under    *)
(* way (checkInstanceSkew).                                                *)
(***************************************************************************)
CheckedInWindow ==
    \A i \in checked : ver[i] # Unpinned /\ InWindow(operator, ver[i])

(***************************************************************************)
(* A CR that accepts TLS clients without a certificate does not stop, when *)
(* the owner's one approval goes to something else or the user drops the   *)
(* setting again (acceptsClientsWithoutCertificates).                      *)
(***************************************************************************)
AcceptanceKept == [][\A i \in Instances : live[i] = "set" /\ i \in exists' => live'[i] # "unset"]_vars

(***************************************************************************)
(* A CR that demanded client certificates stops to only when its owner     *)
(* approved it, by the token or in advance, or the user wrote the setting  *)
(* (acceptClientsWithoutCertificates).                                     *)
(***************************************************************************)
SettingApproved ==
    [][\A i \in exists :
          live[i] = "unset" /\ live'[i] = "set"
              => \/ i \in tolerant
                 \/ clientCertificateOptionalToken \in granted[i]
                 \/ want.conf = "explicit"]_vars

(***************************************************************************)
(* An owner who lets the approval of the current release stand gets the    *)
(* bump: the CR ends up at the operator's version or ahead of it.          *)
(***************************************************************************)
ApprovedConverges ==
    \A i \in Instances :
        <>[](i \in exists /\ spec[i].approved = release)
            => <>[](ver[i] # Unpinned /\ ~versionLessThan(ver[i], operator))

(***************************************************************************)
(* internal/provider/provider.go, convergedCRVersion: "the bump is gated   *)
(* on maintenance approval and the CR keeps its current version until the  *)
(* owner authorizes."  The owner who authorizes by token authorizes the    *)
(* operator of the release that the token names.                           *)
(***************************************************************************)
BumpsAuthorized ==
    [][\A i \in Instances :
          Bump(i) => \/ i \in tolerant
                     \/ \E r \in granted[i] \cap Releases : Bundle[r] = ver'[i]]_vars

=============================================================================
