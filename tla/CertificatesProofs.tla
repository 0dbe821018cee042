-------------------------- MODULE CertificatesProofs --------------------------
(***************************************************************************)
(* Safety of Certificates for every number of edits, outages, deletions    *)
(* and failures.                                                           *)
(***************************************************************************)
EXTENDS Certificates, TLAPS

USE BoundsAssumption
USE DEF instanceVars, issuerVars, passVars, bounds, vars

(***************************************************************************)
(* What keeps the checks sound from one pass to the next.                  *)
(***************************************************************************)

\* An engine CR names certificates of the user only together with the policy
\* that protects them, and before it exists nothing was issued or started.
CRShape ==
    /\ ~cr.exists => ssl = "none" /\ serving = "down"
    /\ cr.ssl # "" => cr.policy = "UserProvidedOnly" /\ cr.internal # ""

\* Nobody else writes the CR, so what a pass has accepted stays acceptable, and
\* the decision to keep certificates is never one against pinned ones.
PassAccepted ==
    /\ pc \in {"certificates", "apply"} => validateTLS(want) /\ validateTLSChange(want)
    /\ pc = "apply" /\ keep /\ want.secret = "" => tlsEnabled(want.mode) /\ want.issuer = ""
    /\ pc = "apply" /\ pinned => keep

\* Pinned certificates are the operator's own and the CR protects them.
PinnedShape ==
    pinned => /\ cr.exists /\ tlsEnabled(cr.mode) /\ cr.issuer = "" /\ cr.ssl = ""
              /\ cr.policy = "UserProvidedOnly"
              /\ ssl = "operator" /\ ~migrating

\* What was issued, and what the members serve with, is what the CR asks for.
SourceShape ==
    /\ ssl # "none" => (ssl = "issuer") = (cr.issuer # "")
    /\ serving # "down" =>
          /\ (serving = "plain") = ~tlsEnabled(cr.mode)
          /\ tlsEnabled(cr.mode) => (serving = "user") = (cr.ssl # "")
          /\ tlsEnabled(cr.mode) /\ cr.ssl = "" => (serving = "issuer") = (cr.issuer # "")

IInv == TypeOK /\ CRShape /\ PassAccepted /\ PinnedShape /\ SourceShape

-----------------------------------------------------------------------------
\* The initial states satisfy the invariant.
LEMMA InitIInv == Init => IInv
<1> SUFFICES ASSUME Init PROVE IInv
  OBVIOUS
<1>1. Default \in Params
  BY DEF Params, Default
<1>2. Unset \in CRs /\ [Unset EXCEPT !.exists = TRUE] \in CRs
  BY DEF CRs, Unset
<1>3. params \in Params /\ want \in Params /\ cr \in CRs
  BY <1>1, <1>2 DEF Init
<1>4. /\ phased \in BOOLEAN /\ webhook \in BOOLEAN /\ keep \in BOOLEAN /\ pinned \in BOOLEAN
      /\ certManager \in BOOLEAN /\ migrating \in BOOLEAN
  BY Zenon DEF Init
<1>5. TypeOK
  BY <1>3, <1>4 DEF Init, TypeOK, Issued
<1>6. /\ cr.ssl = "" /\ cr.issuer = "" /\ cr.mode = ""
      /\ ~cr.exists => ssl = "none" /\ serving = "down"
  <2>1. CASE cr = Unset /\ ssl = "none" /\ serving = "down"
    BY <2>1 DEF Unset
  <2>2. CASE cr = [Unset EXCEPT !.exists = TRUE]
    BY <2>2 DEF Unset
  <2> QED
    BY <2>1, <2>2 DEF Init
<1>7. ~pinned /\ pc = "idle"
  BY DEF Init
<1>8. CRShape /\ PassAccepted /\ PinnedShape
  BY <1>6, <1>7 DEF CRShape, PassAccepted, PinnedShape
<1>9. SourceShape
  BY <1>6 DEF Init, SourceShape, tlsEnabled
<1> QED
  BY <1>5, <1>8, <1>9 DEF IInv

\* The CR a pass renders from accepted parameters has the source of the one it
\* replaces, if there is one.
LEMMA AppliedAgrees ==
    ASSUME TypeOK, CRShape, PassAccepted, Apply
    PROVE  /\ cr' \in CRs /\ cr'.exists
           /\ cr.exists => /\ tlsEnabled(cr'.mode) = tlsEnabled(cr.mode)
                           /\ cr'.issuer = cr.issuer /\ cr'.ssl = cr.ssl
           /\ cr'.ssl # "" => cr'.policy = "UserProvidedOnly"
           /\ cr'.internal # ""
           /\ cr'.ssl = want.secret /\ cr'.issuer = want.issuer /\ cr'.mode = want.mode
           /\ keep => cr'.policy = "UserProvidedOnly"
<1> USE DEF Apply, configureTLS, internalCertificateSecretName, TypeOK, Params, CRs
<1>1. cr' \in CRs
  OBVIOUS
<1>2. ASSUME cr.exists
      PROVE  /\ tlsEnabled(cr'.mode) = tlsEnabled(cr.mode)
             /\ cr'.issuer = cr.issuer /\ cr'.ssl = cr.ssl
  BY <1>2 DEF validateTLSChange, CRShape, PassAccepted
<1> QED
  BY <1>1, <1>2

\* Every step keeps the type invariant.
LEMMA TypeStep == IInv /\ [Next]_vars => TypeOK'
<1> SUFFICES ASSUME TypeOK, CRShape, PassAccepted, [Next]_vars PROVE TypeOK'
  BY DEF IInv
<1> USE DEF TypeOK, Issued
<1>1. CASE BeginPass
  BY <1>1 DEF BeginPass
<1>2. CASE ReadCertificates
  <2>1. keep' \in BOOLEAN
    BY <1>2, Zenon DEF ReadCertificates, keepCertificates
  <2> QED
    BY <1>2, <2>1 DEF ReadCertificates
<1>3. CASE Apply
  <2>1. migrating' \in BOOLEAN /\ pinned' \in BOOLEAN
    BY <1>3, Zenon DEF Apply
  <2>2. cr' \in CRs
    BY <1>3, AppliedAgrees
  <2> QED
    BY <1>3, <2>1, <2>2 DEF Apply
<1>4. CASE Status
  BY <1>4 DEF Status, tlsConnection
<1>5. CASE PassFails
  BY <1>5 DEF PassFails
<1>6. CASE EditTLS
  BY <1>6 DEF EditTLS
<1>7. CASE EditCertificates
  BY <1>7 DEF EditCertificates
<1>8. CASE Outage
  <2>1. webhook' \in BOOLEAN
    BY <1>8, Zenon DEF Outage
  <2> QED
    BY <1>8, <2>1 DEF Outage
<1>9. CASE Restart
  BY <1>9 DEF Restart
<1>10. CASE DeleteGenerated
  <2>1. migrating' \in BOOLEAN /\ pinned' \in BOOLEAN
    BY <1>10, Zenon DEF DeleteGenerated
  <2> QED
    BY <1>10, <2>1 DEF DeleteGenerated
<1>11. CASE InstallCertManager
  BY <1>11 DEF InstallCertManager
<1>12. CASE Issue
  <2>1. ssl' \in Issued
    BY <1>12 DEF Issue
  <2>2. UNCHANGED <<instanceVars, cr, certManager, migrating, serving, published, passVars,
                    pinned, bounds>>
    BY <1>12 DEF Issue
  <2> QED
    BY <2>1, <2>2
<1>13. CASE Migrate
  <2>1. migrating' \in BOOLEAN
    BY <1>13, Zenon DEF Migrate
  <2>2. ssl' \in Issued
    BY <1>13 DEF Migrate
  <2> QED
    BY <1>13, <2>1, <2>2 DEF Migrate
<1>14. CASE RollOut
  <2>1. CA \in Issued \cup {"none", "plain", "user"}
    BY DEF CA
  <2> QED
    BY <1>14, <2>1 DEF RollOut
<1>15. CASE UNCHANGED vars
  BY <1>15
<1> QED
  BY <1>1, <1>2, <1>3, <1>4, <1>5, <1>6, <1>7, <1>8, <1>9, <1>10, <1>11, <1>12, <1>13, <1>14, <1>15 DEF Next, Pass

\* The CR stays sound.
LEMMA CRStep == IInv /\ [Next]_vars => CRShape'
<1> SUFFICES ASSUME TypeOK, CRShape, PassAccepted, [Next]_vars PROVE CRShape'
  BY DEF IInv
<1>1. CASE Apply
  BY <1>1, AppliedAgrees DEF Apply, CRShape
<1>2. CASE Issue
  BY <1>2 DEF Issue, Issuing, CRShape
<1>3. CASE Migrate
  BY <1>3 DEF Migrate, Issuing, CRShape
<1>4. CASE RollOut
  BY <1>4 DEF RollOut, CRShape
<1>5. CASE DeleteGenerated
  BY <1>5 DEF DeleteGenerated, CRShape
<1>6. CASE UNCHANGED <<cr, ssl, serving>>
  BY <1>6 DEF CRShape
<1> QED
  BY <1>1, <1>2, <1>3, <1>4, <1>5, <1>6 DEF Next, Pass, BeginPass, ReadCertificates, Status,
       PassFails, EditTLS, EditCertificates, Outage, Restart, InstallCertManager

\* What a pass has accepted and decided stays good until it applies it.
LEMMA PassStep == IInv /\ [Next]_vars => PassAccepted'
<1> SUFFICES ASSUME TypeOK, PassAccepted, PinnedShape, [Next]_vars PROVE PassAccepted'
  BY DEF IInv
<1>1. CASE BeginPass
  BY <1>1 DEF BeginPass, Accepted, PassAccepted, validateTLSChange
<1>2. CASE ReadCertificates
  <2>1. validateTLS(want)' /\ validateTLSChange(want)'
    BY <1>2 DEF ReadCertificates, PassAccepted, validateTLS, validateTLSChange
  <2>2. keep' /\ want.secret = "" => tlsEnabled(want.mode) /\ want.issuer = ""
    BY <1>2 DEF ReadCertificates, keepCertificates
  <2>3. pinned => keep'
    BY <1>2 DEF ReadCertificates, keepCertificates, PassAccepted, PinnedShape, validateTLSChange
  <2> QED
    BY <1>2, <2>1, <2>2, <2>3 DEF ReadCertificates, PassAccepted
<1>3. CASE pc' \notin {"certificates", "apply"}
  BY <1>3 DEF PassAccepted
<1>4. CASE UNCHANGED <<cr, passVars, pinned>>
  BY <1>4 DEF PassAccepted, validateTLS, validateTLSChange
<1>5. CASE DeleteGenerated
  BY <1>5 DEF DeleteGenerated, PassAccepted, validateTLS, validateTLSChange
<1> QED
  BY <1>1, <1>2, <1>3, <1>4, <1>5 DEF Next, Pass, Apply, Status, PassFails, EditTLS,
       EditCertificates, Outage, Restart, InstallCertManager, Issue, Migrate, RollOut

\* Pinned certificates stay pinned.
LEMMA PinnedStep == IInv /\ [Next]_vars => PinnedShape'
<1> SUFFICES ASSUME TypeOK, CRShape, PassAccepted, PinnedShape, [Next]_vars PROVE PinnedShape'
  BY DEF IInv
<1>1. CASE Apply
  BY <1>1, AppliedAgrees DEF Apply, PassAccepted, PinnedShape
<1>2. CASE Issue
  BY <1>2 DEF Issue, Issuing, PinnedShape
<1>3. CASE Migrate
  BY <1>3 DEF Migrate, Issuing, PinnedShape
<1>4. CASE DeleteGenerated
  BY <1>4 DEF DeleteGenerated, PinnedShape
<1>5. CASE UNCHANGED <<cr, ssl, migrating, pinned>>
  BY <1>5 DEF PinnedShape
<1> QED
  BY <1>1, <1>2, <1>3, <1>4, <1>5 DEF Next, Pass, BeginPass, ReadCertificates, Status,
       PassFails, EditTLS, EditCertificates, Outage, Restart, InstallCertManager, RollOut

\* The source of what was issued and of what is served stays that of the CR.
LEMMA SourceStep == IInv /\ [Next]_vars => SourceShape'
<1> SUFFICES ASSUME IInv, [Next]_vars PROVE SourceShape'
  OBVIOUS
<1>1. CASE Apply
  <2>1. CASE cr.exists
    BY <1>1, <2>1, AppliedAgrees DEF IInv, Apply, SourceShape
  <2>2. CASE ~cr.exists
    BY <1>1, <2>2 DEF IInv, Apply, CRShape, SourceShape
  <2> QED
    BY <2>1, <2>2
<1>2. CASE Issue
  BY <1>2 DEF IInv, TypeOK, Issue, Issuing, SourceShape
<1>3. CASE Migrate
  BY <1>3 DEF IInv, Migrate, Issuing, SourceShape
<1>4. CASE RollOut
  BY <1>4 DEF IInv, TypeOK, RollOut, CA, Issued, SourceShape
<1>5. CASE DeleteGenerated
  BY <1>5 DEF IInv, DeleteGenerated, SourceShape
<1>6. CASE UNCHANGED <<cr, ssl, serving>>
  BY <1>6 DEF IInv, SourceShape
<1> QED
  BY <1>1, <1>2, <1>3, <1>4, <1>5, <1>6 DEF Next, Pass, BeginPass, ReadCertificates, Status,
       PassFails, EditTLS, EditCertificates, Outage, Restart, InstallCertManager

\* The strengthened invariant is inductive.
LEMMA IInvInvariant == Spec => []IInv
<1>1. IInv /\ [Next]_vars => IInv'
  BY TypeStep, CRStep, PassStep, PinnedStep, SourceStep DEF IInv
<1> QED
  BY InitIInv, <1>1, PTL DEF Spec

-----------------------------------------------------------------------------
(***************************************************************************)
(* Every variable keeps its type.                                          *)
(***************************************************************************)
THEOREM TypeCorrect == Spec => []TypeOK
<1>1. IInv => TypeOK
  BY DEF IInv
<1> QED
  BY IInvInvariant, <1>1, PTL

(***************************************************************************)
(* Admission and passes allow the same edits of a cluster that runs: each  *)
(* compares with another object, the Instance before the edit and the      *)
(* engine CR, and the CR names the source of the parameters it was         *)
(* rendered from.                                                          *)
(***************************************************************************)
THEOREM ChecksMatch == Spec => []ChecksAgree
<1>1. IInv => ChecksAgree
  <2> SUFFICES ASSUME IInv, cr.exists, phased, NEW p \in Params, NEW q \in Params,
                      validateTLS(p), validateTLS(q), validateTLSChange(p)
               PROVE  validateTLSTransition(q, p) <=> validateTLSChange(q)
    BY DEF ChecksAgree
  <2> USE DEF IInv, TypeOK, CRShape, validateTLS, validateTLSChange, validateTLSTransition,
              certificateSource, internalCertificateSecretName, Params, CRs
  <2>1. validateTLSTransition(q, p) => validateTLSChange(q)
    OBVIOUS
  <2>2. validateTLSChange(q) => validateTLSTransition(q, p)
    <3> SUFFICES ASSUME validateTLSChange(q)
                 PROVE  /\ tlsEnabled(p.mode) = tlsEnabled(q.mode)
                        /\ p.issuer = q.issuer /\ p.secret = q.secret /\ p.internal = q.internal
      OBVIOUS
    <3>1. p.issuer = q.issuer /\ p.secret = q.secret /\ tlsEnabled(p.mode) = tlsEnabled(q.mode)
      OBVIOUS
    <3>2. CASE p.secret = ""
      BY <3>1, <3>2
    <3>3. CASE p.secret # ""
      BY <3>1, <3>3
    <3> QED
      BY <3>1, <3>2, <3>3
  <2> QED
    BY <2>1, <2>2
<1> QED
  BY IInvInvariant, <1>1, PTL

(***************************************************************************)
(* Certificates of the operator's own stay from the pass that pins them:   *)
(* every later pass finds them again and keeps them.                       *)
(***************************************************************************)
THEOREM PinnedCertificatesStay == Spec => []PinnedStays
<1>1. IInv => PinnedStays
  BY DEF IInv, PinnedShape, PinnedStays
<1> QED
  BY IInvInvariant, <1>1, PTL

(***************************************************************************)
(* Members never change the source of their CA, however often the webhook  *)
(* is down and whatever is edited then: no pass accepts another source.    *)
(***************************************************************************)
THEOREM MembersKeepCA == Spec => CAKept
<1>1. IInv /\ [Next]_vars
        => [serving' # serving /\ serving # "down" =>
              /\ {serving, serving'} \subseteq {"operator", "certManager"}
              /\ pinned => serving # "operator"]_vars
  <2> SUFFICES ASSUME IInv, Next, serving' # serving, serving # "down"
               PROVE  /\ {serving, serving'} \subseteq {"operator", "certManager"}
                      /\ pinned => serving # "operator"
    OBVIOUS
  <2>1. RollOut
    BY DEF Next, Pass, BeginPass, ReadCertificates, Apply, Status, PassFails, EditTLS,
         EditCertificates, Outage, Restart, DeleteGenerated, InstallCertManager, Issue, Migrate
  <2>2. tlsEnabled(cr.mode) /\ cr.ssl = "" /\ serving' = ssl /\ ssl # "none"
    BY <2>1 DEF IInv, TypeOK, RollOut, CA, Issued, SourceShape
  <2> QED
    BY <2>1, <2>2 DEF IInv, TypeOK, Issued, RollOut, SourceShape, PinnedShape
<1> QED
  BY IInvInvariant, <1>1, PTL DEF CAKept, Spec
-----------------------------------------------------------------------------
(***************************************************************************)
(* The connection secret.                                                  *)
(***************************************************************************)

\* tlsConnection, validateTLSChange: clients are never told to trust a CA of
\* another source than the members serve with, nor to connect without TLS to
\* members that serve it, whatever was edited between the pass that applied the
\* CR and the one that published.  Only between the operator and cert-manager
\* may what is published be behind.
PublishedServes ==
    published # "none" =>
        published = serving \/ {published, serving} \subseteq {"operator", "certManager"}

\* At its last step a pass works on the parameters the CR was rendered from, and
\* what is published has the source the CR names.
PublishedHeld ==
    /\ pc = "status" => /\ cr.exists /\ cr.mode = want.mode
                        /\ cr.issuer = want.issuer /\ cr.ssl = want.secret
    /\ published # "none" =>
          /\ cr.exists /\ serving # "down"
          /\ (published = "plain") = ~tlsEnabled(cr.mode)
          /\ tlsEnabled(cr.mode) => (published = "user") = (cr.ssl # "")
          /\ tlsEnabled(cr.mode) /\ cr.ssl = "" => (published = "issuer") = (cr.issuer # "")

\* Every step keeps it: only a pass writes the CR and the connection secret, and
\* the CR it writes has the source of the one before (AppliedAgrees).
LEMMA PublishedStep == IInv /\ PublishedHeld /\ [Next]_vars => PublishedHeld'
<1> SUFFICES ASSUME IInv, PublishedHeld, [Next]_vars PROVE PublishedHeld'
  OBVIOUS
<1>1. CASE Apply
  BY <1>1, AppliedAgrees DEF IInv, Apply, PublishedHeld
<1>2. CASE Status
  <2>1. CASE serving = "down"
    BY <1>2, <2>1 DEF Status, PublishedHeld
  <2>2. CASE serving # "down"
    <3>1. /\ published' = tlsConnection(want)
          /\ UNCHANGED <<cr, serving, ssl, want>> /\ pc' = "idle"
      BY <1>2, <2>2 DEF Status
    <3>2. cr.exists /\ cr.mode = want.mode /\ cr.issuer = want.issuer /\ cr.ssl = want.secret
      BY <1>2 DEF Status, PublishedHeld
    <3>3. /\ ssl \in Issued \cup {"none"}
          /\ ssl # "none" => (ssl = "issuer") = (cr.issuer # "")
      BY DEF IInv, TypeOK, SourceShape
    <3> QED
      BY <2>2, <3>1, <3>2, <3>3 DEF PublishedHeld, tlsConnection, Issued
  <2> QED
    BY <2>1, <2>2
<1>3. CASE RollOut
  BY <1>3 DEF IInv, TypeOK, RollOut, CA, Issued, PublishedHeld
<1>4. CASE /\ UNCHANGED <<cr, serving, published>>
           /\ pc' # "status" \/ UNCHANGED <<pc, want>>
  BY <1>4 DEF PublishedHeld
<1> QED
  BY <1>1, <1>2, <1>3, <1>4 DEF Next, Pass, BeginPass, ReadCertificates, PassFails, EditTLS,
       EditCertificates, Outage, Restart, DeleteGenerated, InstallCertManager, Issue, Migrate

(***************************************************************************)
(* What the connection secret tells clients to trust never contradicts     *)
(* what the members serve with.                                            *)
(***************************************************************************)
THEOREM PublishedIsServed == Spec => []PublishedServes
<1>1. Init => PublishedHeld
  BY DEF Init, PublishedHeld, Unset, tlsEnabled
<1>2. IInv /\ PublishedHeld => PublishedServes
  BY DEF IInv, TypeOK, Issued, SourceShape, PublishedHeld, PublishedServes
<1> QED
  BY IInvInvariant, <1>1, PublishedStep, <1>2, PTL DEF Spec
=============================================================================
