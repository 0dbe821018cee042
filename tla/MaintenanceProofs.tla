-------------------------- MODULE MaintenanceProofs --------------------------
(***************************************************************************)
(* Safety of Maintenance for every set of Instances, every chain of        *)
(* releases and operator versions, and every number of edits, upgrades,    *)
(* rollbacks and failures.                                                 *)
(***************************************************************************)
EXTENDS Maintenance, TLAPS

USE DEF Steps, Settings, Tokens, owner, engine, chart, skew, pass, vars

(***************************************************************************)
(* What a step of a pass knows of the steps before it.                     *)
(***************************************************************************)

\* The owner of i approved a restart for a release that was published.
Approved(i) == i \in tolerant \/ granted[i] \cap published # {}

\* The approvals in an Instance, and in the one a pass works on, were given.
ApprovalsGiven ==
    /\ release \in published
    /\ \A i \in Instances :
          /\ spec[i].auto => i \in tolerant
          /\ spec[i].approved \in Releases => spec[i].approved \in granted[i]
    /\ pc # "idle" =>
          /\ want.auto => who \in tolerant
          /\ want.approved \in Releases => want.approved \in granted[who]

\* Nobody changes a pinned CR while a pass is between its reads and Apply.
ReadsHold ==
    /\ pc \in {"readOperator", "ask"} => cur # Unpinned /\ cur = ver[who]
    /\ pc = "ask" => op \in Versions /\ versionLessThan(cur, op)

\* What the pass will apply is the version it read, or a higher one that was
\* approved.
NextIsUpgrade ==
    pc \in {"readTLS", "apply"} /\ next # Unpinned =>
        /\ ver[who] # Unpinned
        /\ \/ next = ver[who]
           \/ versionLessThan(ver[who], next) /\ Approved(who)

\* The hook's verdict holds until Helm acts on it.
VerifiedInWindow ==
    \A i \in verified : ver[i] # Unpinned /\ InWindow(Bundle[target], ver[i])

\* The owner of i allowed clients without a certificate, by token, in advance
\* or in the configuration that the pass applies.
Allowed(i) ==
    i \in tolerant \/ clientCertificateOptionalToken \in granted[i] \/ want.conf = "explicit"

\* The approval of the TLS setting was given, and what the pass will apply
\* neither takes the setting back nor brings it to a CR that was not allowed to.
SettingDecided ==
    /\ \A i \in Instances :
          spec[i].approved = clientCertificateOptionalToken
              => clientCertificateOptionalToken \in granted[i]
    /\ pc # "idle" /\ want.approved = clientCertificateOptionalToken
          => clientCertificateOptionalToken \in granted[who]
    /\ pc = "apply" =>
          /\ live[who] = "set" => mode # "unset"
          /\ who \in exists /\ live[who] = "unset" /\ mode = "set" => Allowed(who)

IInv ==
    /\ TypeOK
    /\ ApprovalsGiven
    /\ ReadsHold
    /\ NextIsUpgrade
    /\ VerifiedInWindow
    /\ CheckedInWindow
    /\ SettingDecided

-----------------------------------------------------------------------------
\* A version the hook let pass stays in the window on its way up to the operator.
LEMMA WindowUpward ==
    ASSUME NEW t \in Versions, NEW c \in Versions, NEW d \in Versions,
           InWindow(t, c), versionLessThan(c, d), ~versionLessThan(t, d)
    PROVE  InWindow(t, d)
BY VersionsAssumption DEF InWindow, versionLessThan, outsideSkewWindow, skewWindowMinors

\* Going up is not going down.
LEMMA UpIsNotDown ==
    ASSUME NEW a \in Versions, NEW b \in Versions, versionLessThan(a, b)
    PROVE  ~versionLessThan(b, a)
BY VersionsAssumption DEF versionLessThan

\* The initial states satisfy the invariant.
LEMMA InitIInv == Init => IInv
<1> SUFFICES ASSUME Init PROVE IInv
  OBVIOUS
<1> USE VersionsAssumption, ReleasesAssumption, ConfsAssumption, BoundsAssumption DEF Init
<1>1. NewSpec \in InstanceSpec /\ NewSpec.auto = FALSE /\ NewSpec.approved \notin Releases
  BY DEF NewSpec, InstanceSpec
<1>2. TypeOK
  BY <1>1 DEF TypeOK
<1>3. ApprovalsGiven /\ ReadsHold /\ NextIsUpgrade
  BY <1>1 DEF ApprovalsGiven, ReadsHold, NextIsUpgrade
<1>4. SettingDecided
  BY DEF SettingDecided, NewSpec, NoToken, clientCertificateOptionalToken
<1> QED
  BY <1>2, <1>3, <1>4 DEF IInv, VerifiedInWindow, CheckedInWindow

\* Every step keeps the type invariant.
LEMMA TypeStep == IInv /\ [Next]_vars => TypeOK'
<1> SUFFICES ASSUME TypeOK, [Next]_vars PROVE TypeOK'
  BY DEF IInv
<1> USE VersionsAssumption, ReleasesAssumption, ConfsAssumption, BoundsAssumption DEF TypeOK
<1>1. CASE ReadCR
  BY <1>1 DEF ReadCR
<1>2. CASE ReadOperator
  BY <1>2 DEF ReadOperator
<1>3. CASE DiscoveryFails
  BY <1>3 DEF DiscoveryFails
<1>4. CASE Ask
  BY <1>4 DEF Ask, RequestMaintenance
<1>5. CASE ReadTLS
  BY <1>5 DEF ReadTLS, withClientCertificatesOptional, InstanceSpec
<1>6. CASE Apply
  <2>1. NewSpec \in InstanceSpec
    BY DEF NewSpec, InstanceSpec
  <2> QED
    BY <1>6, <2>1 DEF Apply, EndPass
<1>7. CASE PassFails
  <2>1. NewSpec \in InstanceSpec
    BY DEF NewSpec, InstanceSpec
  <2> QED
    BY <1>7, <2>1 DEF PassFails, EndPass
<1>8. CASE \E i \in Instances : BeginPass(i)
  BY <1>8 DEF BeginPass
<1>9. CASE \E i \in Instances : Cleanup(i)
  <2>1. NewSpec \in InstanceSpec
    BY DEF NewSpec, InstanceSpec
  <2> QED
    BY <1>9, <2>1 DEF Cleanup
<1>10. CASE \E i \in Instances : EditInstance(i)
  <2>1. PICK i \in Instances, s \in InstanceSpec :
          /\ edits < MaxEdits /\ edits' = edits + 1
          /\ spec' = [spec EXCEPT ![i] = s]
          /\ granted' = [granted EXCEPT ![i] = granted[i] \cup {s.approved}]
          /\ tolerant' = IF s.auto THEN tolerant \cup {i} ELSE tolerant
    BY <1>10 DEF EditInstance
  <2>2. s.approved \in Tokens
    BY DEF InstanceSpec
  <2>3. granted' \in [Instances -> SUBSET Tokens]
    BY <2>1, <2>2
  <2> QED
    BY <1>10, <2>1, <2>3 DEF EditInstance
<1>11. CASE \E i \in Instances : PinVersion(i)
  BY <1>11 DEF PinVersion
<1>12. CASE RolloutOperator
  BY <1>12 DEF RolloutOperator
<1>13. CASE \E r \in Releases : StartUpgrade(r)
  BY <1>13 DEF StartUpgrade
<1>14. CASE \E i \in Instances : CheckInstance(i)
  BY <1>14 DEF CheckInstance
<1>15. CASE \E i \in Instances : CheckUnreadable(i)
  BY <1>15 DEF CheckUnreadable
<1>16. CASE DeployOperator
  BY <1>16 DEF DeployOperator
<1>17. CASE \E r \in Releases : Rollback(r)
  BY <1>17 DEF Rollback
<1>18. CASE PublishRelease
  BY <1>18 DEF PublishRelease
<1>19. CASE UNCHANGED vars
  BY <1>19
<1> QED
  BY <1>1, <1>2, <1>3, <1>4, <1>5, <1>6, <1>7, <1>8, <1>9, <1>10, <1>11, <1>12, <1>13, <1>14, <1>15, <1>16, <1>17, <1>18, <1>19 DEF Next, Pass, Helm

\* Approvals stay given.
LEMMA ApprovalsStep == IInv /\ [Next]_vars => ApprovalsGiven'
<1> SUFFICES ASSUME TypeOK, ApprovalsGiven, [Next]_vars PROVE ApprovalsGiven'
  BY DEF IInv
<1> USE VersionsAssumption, ReleasesAssumption, ConfsAssumption, BoundsAssumption DEF TypeOK, ApprovalsGiven
<1>1. CASE ReadCR
  BY <1>1 DEF ReadCR
<1>2. CASE ReadOperator
  BY <1>2 DEF ReadOperator
<1>3. CASE DiscoveryFails
  BY <1>3 DEF DiscoveryFails
<1>4. CASE Ask
  BY <1>4 DEF Ask, RequestMaintenance
<1>5. CASE ReadTLS
  BY <1>5 DEF ReadTLS
<1>6. CASE Apply
  BY <1>6 DEF Apply, EndPass
<1>7. CASE PassFails
  BY <1>7 DEF PassFails, EndPass
<1>8. CASE \E i \in Instances : BeginPass(i)
  BY <1>8 DEF BeginPass
<1>9. CASE \E i \in Instances : Cleanup(i)
  <2>1. NewSpec.auto = FALSE /\ NewSpec.approved \notin Releases
    BY DEF NewSpec
  <2> QED
    BY <1>9, <2>1 DEF Cleanup
<1>10. CASE \E i \in Instances : EditInstance(i)
  BY <1>10 DEF EditInstance
<1>11. CASE \E i \in Instances : PinVersion(i)
  BY <1>11 DEF PinVersion
<1>12. CASE RolloutOperator
  BY <1>12 DEF RolloutOperator
<1>13. CASE \E r \in Releases : StartUpgrade(r)
  BY <1>13 DEF StartUpgrade
<1>14. CASE \E i \in Instances : CheckInstance(i)
  BY <1>14 DEF CheckInstance
<1>15. CASE \E i \in Instances : CheckUnreadable(i)
  BY <1>15 DEF CheckUnreadable
<1>16. CASE DeployOperator
  BY <1>16 DEF DeployOperator
<1>17. CASE \E r \in Releases : Rollback(r)
  BY <1>17 DEF Rollback
<1>18. CASE PublishRelease
  BY <1>18 DEF PublishRelease
<1>19. CASE UNCHANGED vars
  BY <1>19
<1> QED
  BY <1>1, <1>2, <1>3, <1>4, <1>5, <1>6, <1>7, <1>8, <1>9, <1>10, <1>11, <1>12, <1>13, <1>14, <1>15, <1>16, <1>17, <1>18, <1>19 DEF Next, Pass, Helm

\* The reads of a pass keep holding.
LEMMA ReadsStep == IInv /\ [Next]_vars => ReadsHold'
<1> SUFFICES ASSUME TypeOK, ReadsHold, [Next]_vars PROVE ReadsHold'
  BY DEF IInv
<1> USE VersionsAssumption, ReleasesAssumption, ConfsAssumption, BoundsAssumption DEF TypeOK, ReadsHold
<1>1. CASE ReadCR
  BY <1>1 DEF ReadCR
<1>2. CASE ReadOperator
  BY <1>2 DEF ReadOperator
<1>3. CASE DiscoveryFails
  BY <1>3 DEF DiscoveryFails
<1>4. CASE Ask
  BY <1>4 DEF Ask, RequestMaintenance
<1>5. CASE ReadTLS
  BY <1>5 DEF ReadTLS
<1>6. CASE Apply
  BY <1>6 DEF Apply, EndPass
<1>7. CASE PassFails
  BY <1>7 DEF PassFails, EndPass
<1>8. CASE \E i \in Instances : BeginPass(i)
  BY <1>8 DEF BeginPass
<1>9. CASE \E i \in Instances : Cleanup(i)
  BY <1>9 DEF Cleanup
<1>10. CASE \E i \in Instances : EditInstance(i)
  BY <1>10 DEF EditInstance
<1>11. CASE \E i \in Instances : PinVersion(i)
  BY <1>11 DEF PinVersion
<1>12. CASE RolloutOperator
  BY <1>12 DEF RolloutOperator
<1>13. CASE \E r \in Releases : StartUpgrade(r)
  BY <1>13 DEF StartUpgrade
<1>14. CASE \E i \in Instances : CheckInstance(i)
  BY <1>14 DEF CheckInstance
<1>15. CASE \E i \in Instances : CheckUnreadable(i)
  BY <1>15 DEF CheckUnreadable
<1>16. CASE DeployOperator
  BY <1>16 DEF DeployOperator
<1>17. CASE \E r \in Releases : Rollback(r)
  BY <1>17 DEF Rollback
<1>18. CASE PublishRelease
  BY <1>18 DEF PublishRelease
<1>19. CASE UNCHANGED vars
  BY <1>19
<1> QED
  BY <1>1, <1>2, <1>3, <1>4, <1>5, <1>6, <1>7, <1>8, <1>9, <1>10, <1>11, <1>12, <1>13, <1>14, <1>15, <1>16, <1>17, <1>18, <1>19 DEF Next, Pass, Helm

\* What a pass will apply stays an approved upgrade.
LEMMA NextStep == IInv /\ [Next]_vars => NextIsUpgrade'
<1> SUFFICES ASSUME TypeOK, ApprovalsGiven, ReadsHold, NextIsUpgrade, [Next]_vars PROVE NextIsUpgrade'
  BY DEF IInv
<1> USE VersionsAssumption, ReleasesAssumption, ConfsAssumption, BoundsAssumption DEF TypeOK, ReadsHold, NextIsUpgrade, Approved
<1>1. CASE ReadCR
  BY <1>1 DEF ReadCR
<1>2. CASE ReadOperator
  BY <1>2 DEF ReadOperator
<1>3. CASE DiscoveryFails
  BY <1>3 DEF DiscoveryFails
<1>4. CASE Ask
  BY <1>4 DEF Ask, RequestMaintenance, ApprovalsGiven
<1>5. CASE ReadTLS
  BY <1>5 DEF ReadTLS
<1>6. CASE Apply
  BY <1>6 DEF Apply, EndPass
<1>7. CASE PassFails
  BY <1>7 DEF PassFails, EndPass
<1>8. CASE \E i \in Instances : BeginPass(i)
  BY <1>8 DEF BeginPass
<1>9. CASE \E i \in Instances : Cleanup(i)
  BY <1>9 DEF Cleanup
<1>10. CASE \E i \in Instances : EditInstance(i)
  BY <1>10 DEF EditInstance
<1>11. CASE \E i \in Instances : PinVersion(i)
  BY <1>11 DEF PinVersion
<1>12. CASE RolloutOperator
  BY <1>12 DEF RolloutOperator
<1>13. CASE \E r \in Releases : StartUpgrade(r)
  BY <1>13 DEF StartUpgrade
<1>14. CASE \E i \in Instances : CheckInstance(i)
  BY <1>14 DEF CheckInstance
<1>15. CASE \E i \in Instances : CheckUnreadable(i)
  BY <1>15 DEF CheckUnreadable
<1>16. CASE DeployOperator
  BY <1>16 DEF DeployOperator
<1>17. CASE \E r \in Releases : Rollback(r)
  BY <1>17 DEF Rollback
<1>18. CASE PublishRelease
  BY <1>18 DEF PublishRelease
<1>19. CASE UNCHANGED vars
  BY <1>19
<1> QED
  BY <1>1, <1>2, <1>3, <1>4, <1>5, <1>6, <1>7, <1>8, <1>9, <1>10, <1>11, <1>12, <1>13, <1>14, <1>15, <1>16, <1>17, <1>18, <1>19 DEF Next, Pass, Helm

\* The verdict of the hook stays true.
LEMMA VerifiedStep == IInv /\ [Next]_vars => VerifiedInWindow'
<1> SUFFICES ASSUME TypeOK, NextIsUpgrade, VerifiedInWindow, [Next]_vars PROVE VerifiedInWindow'
  BY DEF IInv
<1> USE VersionsAssumption, ReleasesAssumption, ConfsAssumption, BoundsAssumption DEF TypeOK, VerifiedInWindow
<1>1. CASE ReadCR
  BY <1>1 DEF ReadCR
<1>2. CASE ReadOperator
  BY <1>2 DEF ReadOperator
<1>3. CASE DiscoveryFails
  BY <1>3 DEF DiscoveryFails
<1>4. CASE Ask
  BY <1>4 DEF Ask, RequestMaintenance
<1>5. CASE ReadTLS
  BY <1>5 DEF ReadTLS
<1>6. CASE Apply
  <2> SUFFICES ASSUME NEW i \in verified'
               PROVE  ver'[i] # Unpinned /\ InWindow(Bundle[target], ver'[i])
    BY <1>6 DEF Apply
  <2>1. i \in verified /\ i \in Instances /\ ver[i] # Unpinned /\ InWindow(Bundle[target], ver[i])
    BY <1>6 DEF Apply
  <2>2. CASE ver'[i] = ver[i]
    BY <2>1, <2>2
  <2>3. CASE ver'[i] # ver[i]
    <3>1. i = who /\ next # Unpinned /\ ver'[i] = next
      BY <1>6, <2>1, <2>3 DEF Apply
    <3>2. versionLessThan(ver[i], next)
      BY <1>6, <2>3, <3>1 DEF Apply, NextIsUpgrade
    <3>3. ~versionLessThan(Bundle[target], next)
      BY <1>6, <3>1 DEF Apply
    <3> QED
      BY <2>1, <3>1, <3>2, <3>3, WindowUpward
  <2> QED
    BY <2>2, <2>3
<1>7. CASE PassFails
  BY <1>7 DEF PassFails, EndPass
<1>8. CASE \E i \in Instances : BeginPass(i)
  BY <1>8 DEF BeginPass
<1>9. CASE \E i \in Instances : Cleanup(i)
  BY <1>9 DEF Cleanup
<1>10. CASE \E i \in Instances : EditInstance(i)
  BY <1>10 DEF EditInstance
<1>11. CASE \E i \in Instances : PinVersion(i)
  BY <1>11 DEF PinVersion
<1>12. CASE RolloutOperator
  BY <1>12 DEF RolloutOperator
<1>13. CASE \E r \in Releases : StartUpgrade(r)
  BY <1>13 DEF StartUpgrade
<1>14. CASE \E i \in Instances : CheckInstance(i)
  BY <1>14 DEF CheckInstance
<1>15. CASE \E i \in Instances : CheckUnreadable(i)
  BY <1>15 DEF CheckUnreadable
<1>16. CASE DeployOperator
  BY <1>16 DEF DeployOperator
<1>17. CASE \E r \in Releases : Rollback(r)
  BY <1>17 DEF Rollback
<1>18. CASE PublishRelease
  BY <1>18 DEF PublishRelease
<1>19. CASE UNCHANGED vars
  BY <1>19
<1> QED
  BY <1>1, <1>2, <1>3, <1>4, <1>5, <1>6, <1>7, <1>8, <1>9, <1>10, <1>11, <1>12, <1>13, <1>14, <1>15, <1>16, <1>17, <1>18, <1>19 DEF Next, Pass, Helm

\* What the hook promised stays true.
LEMMA CheckedStep == IInv /\ [Next]_vars => CheckedInWindow'
<1> SUFFICES ASSUME TypeOK, NextIsUpgrade, VerifiedInWindow, CheckedInWindow, [Next]_vars PROVE CheckedInWindow'
  BY DEF IInv
<1> USE VersionsAssumption, ReleasesAssumption, ConfsAssumption, BoundsAssumption DEF TypeOK, CheckedInWindow
<1>1. CASE ReadCR
  BY <1>1 DEF ReadCR
<1>2. CASE ReadOperator
  BY <1>2 DEF ReadOperator
<1>3. CASE DiscoveryFails
  BY <1>3 DEF DiscoveryFails
<1>4. CASE Ask
  BY <1>4 DEF Ask, RequestMaintenance
<1>5. CASE ReadTLS
  BY <1>5 DEF ReadTLS
<1>6. CASE Apply
  <2> SUFFICES ASSUME NEW i \in checked'
               PROVE  ver'[i] # Unpinned /\ InWindow(operator, ver'[i])
    BY <1>6 DEF Apply
  <2>1. i \in checked /\ i \in Instances /\ ver[i] # Unpinned /\ InWindow(operator, ver[i])
    BY <1>6 DEF Apply
  <2>2. CASE ver'[i] = ver[i]
    BY <2>1, <2>2
  <2>3. CASE ver'[i] # ver[i]
    <3>1. i = who /\ next # Unpinned /\ ver'[i] = next
      BY <1>6, <2>1, <2>3 DEF Apply
    <3>2. versionLessThan(ver[i], next)
      BY <1>6, <2>3, <3>1 DEF Apply, NextIsUpgrade
    <3>3. ~versionLessThan(operator, next)
      BY <1>6, <3>1 DEF Apply
    <3> QED
      BY <2>1, <3>1, <3>2, <3>3, WindowUpward
  <2> QED
    BY <2>2, <2>3
<1>7. CASE PassFails
  BY <1>7 DEF PassFails, EndPass
<1>8. CASE \E i \in Instances : BeginPass(i)
  BY <1>8 DEF BeginPass
<1>9. CASE \E i \in Instances : Cleanup(i)
  BY <1>9 DEF Cleanup
<1>10. CASE \E i \in Instances : EditInstance(i)
  BY <1>10 DEF EditInstance
<1>11. CASE \E i \in Instances : PinVersion(i)
  BY <1>11 DEF PinVersion
<1>12. CASE RolloutOperator
  BY <1>12 DEF RolloutOperator
<1>13. CASE \E r \in Releases : StartUpgrade(r)
  BY <1>13 DEF StartUpgrade
<1>14. CASE \E i \in Instances : CheckInstance(i)
  BY <1>14 DEF CheckInstance
<1>15. CASE \E i \in Instances : CheckUnreadable(i)
  BY <1>15 DEF CheckUnreadable
<1>16. CASE DeployOperator
  BY <1>16 DEF DeployOperator, VerifiedInWindow
<1>17. CASE \E r \in Releases : Rollback(r)
  BY <1>17 DEF Rollback
<1>18. CASE PublishRelease
  BY <1>18 DEF PublishRelease
<1>19. CASE UNCHANGED vars
  BY <1>19
<1> QED
  BY <1>1, <1>2, <1>3, <1>4, <1>5, <1>6, <1>7, <1>8, <1>9, <1>10, <1>11, <1>12, <1>13, <1>14, <1>15, <1>16, <1>17, <1>18, <1>19 DEF Next, Pass, Helm

\* The decision on the TLS setting stays good until it is applied.
LEMMA SettingStep == IInv /\ [Next]_vars => SettingDecided'
<1> SUFFICES ASSUME TypeOK, ApprovalsGiven, SettingDecided, [Next]_vars PROVE SettingDecided'
  BY DEF IInv
<1> USE VersionsAssumption, ReleasesAssumption, ConfsAssumption, BoundsAssumption DEF TypeOK, SettingDecided, Allowed
<1>1. CASE ReadCR
  BY <1>1 DEF ReadCR
<1>2. CASE ReadOperator
  BY <1>2 DEF ReadOperator
<1>3. CASE DiscoveryFails
  BY <1>3 DEF DiscoveryFails
<1>4. CASE Ask
  BY <1>4 DEF Ask, RequestMaintenance
<1>5. CASE ReadTLS
  BY <1>5 DEF ReadTLS, withClientCertificatesOptional, RequestMaintenance, ApprovalsGiven,
       acceptsClientsWithoutCertificates, InstanceSpec
<1>6. CASE Apply
  BY <1>6 DEF Apply, EndPass
<1>7. CASE PassFails
  BY <1>7 DEF PassFails, EndPass
<1>8. CASE \E i \in Instances : BeginPass(i)
  BY <1>8 DEF BeginPass
<1>9. CASE \E i \in Instances : Cleanup(i)
  <2>1. NewSpec.approved # clientCertificateOptionalToken
    BY DEF NewSpec, NoToken, clientCertificateOptionalToken
  <2> QED
    BY <1>9, <2>1 DEF Cleanup
<1>10. CASE \E i \in Instances : EditInstance(i)
  BY <1>10 DEF EditInstance
<1>11. CASE \E i \in Instances : PinVersion(i)
  BY <1>11 DEF PinVersion
<1>12. CASE RolloutOperator
  BY <1>12 DEF RolloutOperator
<1>13. CASE \E r \in Releases : StartUpgrade(r)
  BY <1>13 DEF StartUpgrade
<1>14. CASE \E i \in Instances : CheckInstance(i)
  BY <1>14 DEF CheckInstance
<1>15. CASE \E i \in Instances : CheckUnreadable(i)
  BY <1>15 DEF CheckUnreadable
<1>16. CASE DeployOperator
  BY <1>16 DEF DeployOperator
<1>17. CASE \E r \in Releases : Rollback(r)
  BY <1>17 DEF Rollback
<1>18. CASE PublishRelease
  BY <1>18 DEF PublishRelease
<1>19. CASE UNCHANGED vars
  BY <1>19
<1> QED
  BY <1>1, <1>2, <1>3, <1>4, <1>5, <1>6, <1>7, <1>8, <1>9, <1>10, <1>11, <1>12, <1>13, <1>14, <1>15, <1>16, <1>17, <1>18, <1>19 DEF Next, Pass, Helm

\* The strengthened invariant is inductive.
LEMMA IInvInvariant == Spec => []IInv
<1>1. IInv /\ [Next]_vars => IInv'
  BY TypeStep, ApprovalsStep, ReadsStep, NextStep, VerifiedStep, CheckedStep, SettingStep DEF IInv
<1> QED
  BY InitIInv, <1>1, PTL DEF Spec

\* Only Apply moves a pinned CR, to the version that the pass decided on.
LEMMA ApplyBumps ==
    ASSUME TypeOK, Next, NEW i \in Instances, Bump(i)
    PROVE  pc = "apply" /\ i = who /\ next # Unpinned /\ ver'[i] = next
<1> USE DEF TypeOK, Bump
<1>1. Apply
  <2>1. ~\E j \in Instances : PinVersion(j) \/ Cleanup(j)
    BY DEF PinVersion, Cleanup
  <2> QED
    BY <2>1 DEF Next, Pass, Helm, ReadCR, ReadOperator, DiscoveryFails, Ask, ReadTLS,
         PassFails, BeginPass, EditInstance, RolloutOperator, StartUpgrade, CheckInstance,
         CheckUnreadable, DeployOperator, Rollback, PublishRelease
<1> QED
  BY <1>1 DEF Apply

\* A bump is up, and approved.
LEMMA BumpIsApply ==
    ASSUME IInv, Next, NEW i \in Instances, Bump(i)
    PROVE  /\ ver[i] \in Versions /\ ver'[i] \in Versions
           /\ versionLessThan(ver[i], ver'[i])
           /\ Approved(i)
<1>1. pc = "apply" /\ i = who /\ next # Unpinned /\ ver'[i] = next
  BY ApplyBumps DEF IInv
<1> QED
  BY <1>1 DEF IInv, TypeOK, NextIsUpgrade, Bump

\* Only Apply and Cleanup touch the configuration of a CR.
LEMMA SettingWriters ==
    ASSUME Next
    PROVE  Apply \/ (\E i \in Instances : Cleanup(i)) \/ UNCHANGED live
BY DEF Next, Pass, Helm, ReadCR, ReadOperator, DiscoveryFails, Ask, ReadTLS, PassFails,
     BeginPass, EditInstance, PinVersion, RolloutOperator, StartUpgrade, CheckInstance,
     CheckUnreadable, DeployOperator, Rollback, PublishRelease

-----------------------------------------------------------------------------
(***************************************************************************)
(* Every variable keeps its type.                                          *)
(***************************************************************************)
THEOREM TypeCorrect == Spec => []TypeOK
<1>1. IInv => TypeOK
  BY DEF IInv
<1> QED
  BY IInvInvariant, <1>1, PTL

(***************************************************************************)
(* convergedCRVersion is only ever an upgrade, for every chain of releases *)
(* and whatever Helm does while a pass runs: nobody else changes a pinned  *)
(* CR, so the version the pass compared is the one it replaces.            *)
(***************************************************************************)
THEOREM OnlyUpgrades == Spec => NeverDowngrade
<1>1. IInv /\ [Next]_vars
        => [\A i \in Instances : Bump(i) => ~versionLessThan(ver'[i], ver[i])]_vars
  BY BumpIsApply, UpIsNotDown
<1> QED
  BY IInvInvariant, <1>1, PTL DEF NeverDowngrade, Spec

(***************************************************************************)
(* No database restarts for a new version without an approval its owner    *)
(* gave: the approval travels from the Instance through the pass to Apply. *)
(***************************************************************************)
THEOREM NoBumpUnapproved == Spec => BumpsApproved
<1>1. IInv /\ [Next]_vars
        => [\A i \in Instances : Bump(i) => i \in tolerant \/ granted[i] \cap published # {}]_vars
  BY BumpIsApply DEF Approved
<1> QED
  BY IInvInvariant, <1>1, PTL DEF BumpsApproved, Spec

(***************************************************************************)
(* A CR the hook let pass stays inside the skew window of the operator     *)
(* deployed after it: bumps only move it up, towards that operator.        *)
(***************************************************************************)
THEOREM HookHolds == Spec => []CheckedInWindow
<1>1. IInv => CheckedInWindow
  BY DEF IInv
<1> QED
  BY IInvInvariant, <1>1, PTL

(***************************************************************************)
(* A CR that accepts TLS clients without a certificate goes on to, for     *)
(* every sequence of approvals and edits: only Apply writes the setting,   *)
(* and acceptsClientsWithoutCertificates read the CR that it replaces.     *)
(***************************************************************************)
THEOREM AcceptanceStays == Spec => AcceptanceKept
<1>1. IInv /\ [Next]_vars
        => [\A i \in Instances : live[i] = "set" /\ i \in exists' => live'[i] # "unset"]_vars
  <2> SUFFICES ASSUME IInv, Next, NEW i \in Instances, live[i] = "set", i \in exists'
               PROVE  live'[i] # "unset"
    OBVIOUS
  <2> USE DEF IInv, TypeOK
  <2>1. CASE Apply
    BY <2>1 DEF Apply, SettingDecided
  <2>2. CASE \E j \in Instances : Cleanup(j)
    BY <2>2 DEF Cleanup
  <2>3. CASE UNCHANGED live
    BY <2>3
  <2> QED
    BY <2>1, <2>2, <2>3, SettingWriters
<1> QED
  BY IInvInvariant, <1>1, PTL DEF AcceptanceKept, Spec

(***************************************************************************)
(* No CR starts to accept clients without a certificate unless its owner   *)
(* approved that or wrote it: the approval travels with the pass.          *)
(***************************************************************************)
THEOREM NoSettingUnapproved == Spec => SettingApproved
<1>1. IInv /\ [Next]_vars
        => [\A i \in exists :
              live[i] = "unset" /\ live'[i] = "set"
                  => \/ i \in tolerant
                     \/ clientCertificateOptionalToken \in granted[i]
                     \/ want.conf = "explicit"]_vars
  <2> SUFFICES ASSUME IInv, Next, NEW i \in exists, live[i] = "unset", live'[i] = "set"
               PROVE  Allowed(i)
    BY DEF Allowed
  <2> USE DEF IInv, TypeOK
  <2>1. CASE Apply
    BY <2>1 DEF Apply, SettingDecided, Allowed
  <2>2. CASE \E j \in Instances : Cleanup(j)
    BY <2>2 DEF Cleanup
  <2>3. CASE UNCHANGED live
    BY <2>3
  <2> QED
    BY <2>1, <2>2, <2>3, SettingWriters
<1> QED
  BY IInvInvariant, <1>1, PTL DEF SettingApproved, Spec

-----------------------------------------------------------------------------
(***************************************************************************)
(* Where versions come from.                                               *)
(***************************************************************************)

\* The releases whose operator was deployed at some time, and their versions.
Deployed == published \cup (IF helm = "publish" THEN {target} ELSE {})

DeployedVersions == { Bundle[r] : r \in Deployed }

(***************************************************************************)
(* convergedCRVersion moves a CR up, and to the version of an operator     *)
(* that was deployed, though Helm may have replaced that operator since    *)
(* the pass read it.                                                       *)
(***************************************************************************)
BumpsToDeployed ==
    [][\A i \in Instances :
          Bump(i) => versionLessThan(ver[i], ver'[i]) /\ ver'[i] \in DeployedVersions]_vars

(***************************************************************************)
(* No CR is ahead of every operator that was deployed, whatever is rolled  *)
(* back under a pass or an operator that pins (convergedCRVersion).        *)
(***************************************************************************)
NotAheadOfAll ==
    \A i \in Instances :
        ver[i] # Unpinned => \E v \in DeployedVersions : ~versionLessThan(v, ver[i])

\* What is deployed, what runs and what a pass read are deployed versions.
DeployedHeld ==
    /\ release \in published
    /\ operator \in DeployedVersions
    /\ running \in DeployedVersions
    /\ pc = "ask" => op \in DeployedVersions
    /\ pc \in {"readTLS", "apply"} /\ next # Unpinned => next \in {ver[who]} \cup DeployedVersions
    /\ NotAheadOfAll

\* Helm: what was deployed stays deployed at some time.
LEMMA DeployedGrows == TypeOK /\ [Next]_vars => DeployedVersions \subseteq DeployedVersions'
<1> SUFFICES ASSUME TypeOK, [Next]_vars PROVE Deployed \subseteq Deployed'
  BY DEF DeployedVersions
<1>1. CASE Helm
  BY <1>1 DEF Helm, StartUpgrade, Rollback, CheckInstance, CheckUnreadable, DeployOperator,
              PublishRelease, Deployed
<1>2. CASE ~Helm
  <2>1. UNCHANGED <<published, helm, target>>
    BY <1>2 DEF Next, Pass, ReadCR, ReadOperator, DiscoveryFails, Ask, ReadTLS, Apply, PassFails,
                BeginPass, Cleanup, EditInstance, PinVersion, RolloutOperator
  <2> QED
    BY <2>1 DEF Deployed
<1> QED
  BY <1>1, <1>2

\* A CR stays behind an operator that was deployed when its version is kept.
LEMMA NotAheadKept ==
    ASSUME NotAheadOfAll, DeployedVersions \subseteq DeployedVersions', UNCHANGED ver
    PROVE  NotAheadOfAll'
BY DEF NotAheadOfAll

\* A deployed version is not ahead of itself.
LEMMA DeployedNotAhead == TypeOK => \A v \in DeployedVersions : ~versionLessThan(v, v)
<1> SUFFICES ASSUME TypeOK, NEW v \in DeployedVersions PROVE ~versionLessThan(v, v)
  OBVIOUS
<1>1. v \in Versions
  BY ReleasesAssumption DEF TypeOK, DeployedVersions, Deployed
<1> QED
  BY <1>1, VersionsAssumption DEF versionLessThan

\* Every step takes versions from operators that were deployed.
LEMMA DeployedStep == IInv /\ DeployedHeld /\ [Next]_vars => DeployedHeld'
<1> SUFFICES ASSUME IInv, DeployedHeld, [Next]_vars PROVE DeployedHeld'
  OBVIOUS
<1>0. TypeOK /\ DeployedVersions \subseteq DeployedVersions'
  BY DeployedGrows DEF IInv
<1>1. CASE ReadCR
  <2>1. UNCHANGED <<release, published, operator, running, ver>> /\ pc' # "ask" /\ next' = Unpinned
    BY <1>1 DEF ReadCR
  <2> QED
    BY <1>0, <2>1, NotAheadKept DEF DeployedHeld
<1>2. CASE ReadOperator \/ DiscoveryFails
  <2>1. UNCHANGED <<release, published, operator, running, ver, who>>
    BY <1>2 DEF ReadOperator, DiscoveryFails
  <2>2. pc' = "ask" => op' = operator
    BY <1>2 DEF ReadOperator, DiscoveryFails
  <2>3. pc' = "readTLS" => next' = ver[who]
    BY <1>2 DEF ReadOperator, DiscoveryFails, IInv, ReadsHold
  <2>4. pc' \in {"ask", "readTLS"}
    BY <1>2 DEF ReadOperator, DiscoveryFails
  <2> QED
    BY <1>0, <2>1, <2>2, <2>3, <2>4, NotAheadKept DEF DeployedHeld
<1>3. CASE Ask
  <2>1. UNCHANGED <<release, published, operator, running, ver, who>> /\ pc' = "readTLS"
    BY <1>3 DEF Ask
  <2>2. next' \in {ver[who]} \cup DeployedVersions
    BY <1>3 DEF Ask, DeployedHeld, IInv, ReadsHold
  <2> QED
    BY <1>0, <2>1, <2>2, NotAheadKept DEF DeployedHeld
<1>4. CASE ReadTLS
  <2>1. /\ UNCHANGED <<release, published, operator, running, ver, who, next>>
        /\ pc = "readTLS" /\ pc' = "apply"
    BY <1>4 DEF ReadTLS
  <2> QED
    BY <1>0, <2>1, NotAheadKept DEF DeployedHeld
<1>5. CASE Apply
  <2>1. /\ UNCHANGED <<release, published, operator, running, helm, target>>
        /\ pc = "apply" /\ pc' = "idle"
        /\ ver' = IF next = Unpinned THEN ver ELSE [ver EXCEPT ![who] = next]
    BY <1>5 DEF Apply, EndPass
  <2>2. ASSUME NEW i \in Instances, ver'[i] # Unpinned
        PROVE  \E v \in DeployedVersions' : ~versionLessThan(v, ver'[i])
    <3>1. CASE ver'[i] = ver[i]
      BY <1>0, <2>2, <3>1 DEF DeployedHeld, NotAheadOfAll
    <3>2. CASE ver'[i] # ver[i]
      <4>1. ver'[i] = next /\ i = who /\ next # Unpinned
        BY <1>0, <2>1, <3>2 DEF TypeOK
      <4>2. next \in DeployedVersions
        BY <2>1, <3>2, <4>1 DEF DeployedHeld
      <4> QED
        BY <1>0, <4>1, <4>2, DeployedNotAhead
    <3> QED
      BY <3>1, <3>2
  <2>3. NotAheadOfAll'
    BY <2>2 DEF NotAheadOfAll
  <2> QED
    BY <1>0, <2>1, <2>3 DEF DeployedHeld
<1>6. CASE PassFails \/ \E i \in Instances : BeginPass(i)
  <2>1. UNCHANGED <<release, published, operator, running, ver>> /\ pc' \in {"idle", "readCR"}
    BY <1>6 DEF PassFails, EndPass, BeginPass
  <2> QED
    BY <1>0, <2>1, NotAheadKept DEF DeployedHeld
<1>7. ASSUME NEW i \in Instances, Cleanup(i) PROVE DeployedHeld'
  <2>1. /\ UNCHANGED <<release, published, operator, running, pc, who, next, op>> /\ pc = "idle"
        /\ ver' = [ver EXCEPT ![i] = Unpinned]
    BY <1>7 DEF Cleanup
  <2>2. NotAheadOfAll'
    BY <1>0, <2>1 DEF DeployedHeld, NotAheadOfAll, TypeOK
  <2> QED
    BY <1>0, <2>1, <2>2 DEF DeployedHeld
<1>8. ASSUME NEW i \in Instances, PinVersion(i) PROVE DeployedHeld'
  <2>1. /\ UNCHANGED <<release, published, operator, running, pc, who, next, op>>
        /\ ver[i] = Unpinned /\ ver' = [ver EXCEPT ![i] = running]
    BY <1>8 DEF PinVersion
  <2>2. NotAheadOfAll'
    BY <1>0, <2>1, DeployedNotAhead DEF DeployedHeld, NotAheadOfAll, TypeOK
  <2>3. pc \in {"readTLS", "apply"} /\ next # Unpinned => ver'[who] = ver[who]
    BY <1>0, <2>1 DEF IInv, NextIsUpgrade, TypeOK
  <2> QED
    BY <1>0, <2>1, <2>2, <2>3 DEF DeployedHeld
<1>9. CASE RolloutOperator
  <2>1. UNCHANGED <<release, published, operator, ver, pc, who, next, op>> /\ running' = operator
    BY <1>9 DEF RolloutOperator
  <2> QED
    BY <1>0, <2>1, NotAheadKept DEF DeployedHeld
<1>10. CASE Helm
  <2>1. UNCHANGED <<running, ver, pc, who, next, op>>
    BY <1>10 DEF Helm, StartUpgrade, Rollback, CheckInstance, CheckUnreadable, DeployOperator,
                 PublishRelease
  <2>2. release' \in published'
    <3>1. CASE PublishRelease
      BY <3>1 DEF PublishRelease
    <3>2. CASE UNCHANGED <<release, published>>
      BY <3>2 DEF DeployedHeld
    <3> QED
      BY <1>10, <3>1, <3>2 DEF Helm, StartUpgrade, Rollback, CheckInstance, CheckUnreadable,
                               DeployOperator
  <2>3. \/ operator' = operator
        \/ operator' = Bundle[target'] /\ helm' = "publish"
    BY <1>10 DEF Helm, StartUpgrade, Rollback, CheckInstance, CheckUnreadable, DeployOperator,
                 PublishRelease
  <2>4. operator' \in DeployedVersions'
    BY <1>0, <2>3 DEF DeployedHeld, DeployedVersions, Deployed
  <2> QED
    BY <1>0, <2>1, <2>2, <2>4, NotAheadKept DEF DeployedHeld
<1>11. CASE UNCHANGED vars \/ \E i \in Instances : EditInstance(i)
  <2>1. UNCHANGED <<release, published, operator, running, ver, pc, who, next, op>>
    BY <1>11 DEF EditInstance
  <2> QED
    BY <1>0, <2>1, NotAheadKept DEF DeployedHeld
<1> QED
  BY <1>1, <1>2, <1>3, <1>4, <1>5, <1>6, <1>7, <1>8, <1>9, <1>10, <1>11 DEF Next, Pass

\* The versions in use are those of operators that were deployed.
LEMMA DeployedInvariant == Spec => []DeployedHeld
<1>1. Init => DeployedHeld
  <2> SUFFICES ASSUME Init PROVE DeployedHeld
    OBVIOUS
  <2>1. operator \in DeployedVersions
    BY DEF Init, DeployedVersions, Deployed
  <2>2. ASSUME NEW i \in Instances, ver[i] # Unpinned PROVE ~versionLessThan(operator, ver[i])
    BY <2>2 DEF Init, InWindow
  <2>3. NotAheadOfAll
    BY <2>1, <2>2 DEF NotAheadOfAll
  <2> QED
    BY <2>1, <2>3 DEF Init, DeployedHeld
<1> QED
  BY <1>1, DeployedStep, IInvInvariant, PTL DEF Spec

(***************************************************************************)
(* convergedCRVersion: a bump is up, and to the version of an operator     *)
(* that was deployed, for every chain of upgrades and rollbacks.           *)
(***************************************************************************)
THEOREM BumpsAreDeployed == Spec => BumpsToDeployed
<1> DEFINE ToDeployed ==
        \A i \in Instances :
            Bump(i) => versionLessThan(ver[i], ver'[i]) /\ ver'[i] \in DeployedVersions
<1>1. IInv /\ DeployedHeld /\ [Next]_vars => [ToDeployed]_vars
  <2> SUFFICES ASSUME IInv, DeployedHeld, Next, NEW i \in Instances, Bump(i)
               PROVE  versionLessThan(ver[i], ver'[i]) /\ ver'[i] \in DeployedVersions
    OBVIOUS
  <2>1. versionLessThan(ver[i], ver'[i])
    BY BumpIsApply
  <2>2. pc = "apply" /\ ver'[i] = next /\ i = who /\ next # Unpinned
    BY ApplyBumps DEF IInv
  <2> QED
    BY <2>1, <2>2 DEF DeployedHeld, Bump
<1> QED
  BY <1>1, IInvInvariant, DeployedInvariant, PTL DEF Spec, BumpsToDeployed

(***************************************************************************)
(* convergedCRVersion, and the operator that pins: no CR is ever ahead of  *)
(* all operators that were deployed.                                       *)
(***************************************************************************)
THEOREM NeverAheadOfAll == Spec => []NotAheadOfAll
<1>1. DeployedHeld => NotAheadOfAll
  BY DEF DeployedHeld
<1> QED
  BY <1>1, DeployedInvariant, PTL

(***************************************************************************)
(* versionLessThan orders versions strictly and totally, so that at most   *)
(* one of "behind", "level" and "ahead" holds of a CR and an operator and  *)
(* a chain of bumps is itself a bump upward.                               *)
(***************************************************************************)
THEOREM VersionsOrdered ==
    ASSUME NEW a \in Versions, NEW b \in Versions, NEW c \in Versions
    PROVE  /\ ~versionLessThan(a, a)
           /\ versionLessThan(a, b) \/ a = b \/ versionLessThan(b, a)
           /\ versionLessThan(a, b) /\ versionLessThan(b, c) => versionLessThan(a, c)
<1> USE VersionsAssumption DEF versionLessThan
<1>1. ~versionLessThan(a, a)
  OBVIOUS
<1>2. versionLessThan(a, b) \/ a = b \/ versionLessThan(b, a)
  OBVIOUS
<1>3. versionLessThan(a, b) /\ versionLessThan(b, c) => versionLessThan(a, c)
  OBVIOUS
<1> QED
  BY <1>1, <1>2, <1>3
=============================================================================
