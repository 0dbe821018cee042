----------------------------- MODULE Certificates -----------------------------
(***************************************************************************)
(* The certificates of an Instance (internal/provider/tls.go): where they  *)
(* come from, who may replace them, and the two checks that keep a running *)
(* cluster on one CA.                                                      *)
(*                                                                         *)
(* The admission webhook compares an edit with the Instance before it      *)
(* (validateTLSTransition) and admits everything while the provider is     *)
(* down; every pass compares the Instance with the engine CR               *)
(* (validateTLSChange).  The operator issues certificates by itself or,    *)
(* where cert-manager is installed, through it.  It moves certificates of  *)
(* its own to a cert-manager that is installed later and never finishes,   *)
(* unless the CR tells it to leave them alone (keepCertificates).          *)
(***************************************************************************)
EXTENDS Naturals

CONSTANTS
    MaxEdits,       \* bound on edits of the Instance
    MaxOutages,     \* bound on times the webhook is down
    MaxDeletes,     \* bound on deletions of the generated secret
    MaxFailures     \* bound on passes that fail half way

ASSUME BoundsAssumption ==
    MaxEdits \in Nat /\ MaxOutages \in Nat /\ MaxDeletes \in Nat /\ MaxFailures \in Nat

VARIABLES
    params,         \* spec.parameters.tls of the Instance
    phased,         \* its status.phase is past Pending
    webhook,        \* the admission webhook answers
    certs,          \* the user's secrets that hold tls.crt, tls.key and ca.crt
    cr,             \* what the engine CR says of TLS
    ssl,            \* who issued the secret <name>-ssl
    certManager,    \* cert-manager is installed
    migrating,      \* the operator is moving its certificates to cert-manager
    serving,        \* whose CA the members serve with
    published,      \* whose CA the connection secret carries
    pc, want, keep, \* the pass: where it is, the parameters it works on, its decision
    pinned,         \* a pass found the operator's certificates and pinned them
    edits, outages, deletes, failures

instanceVars == <<params, phased, webhook, certs>>
issuerVars == <<ssl, certManager, migrating, serving>>
passVars == <<pc, want, keep>>
bounds == <<edits, outages, deletes, failures>>

vars == <<instanceVars, cr, issuerVars, published, passVars, pinned, bounds>>

UserSecrets == {"tls", "tls-internal"}

Params == [mode : {"preferTLS", "requireTLS", "disabled"}, issuer : {"", "corp-ca"},
           secret : {"", "tls"}, internal : {"", "tls-internal"}]

Default == [mode |-> "preferTLS", issuer |-> "", secret |-> "", internal |-> ""]

\* The engine CR: spec.tls.mode, issuerConf and certManagementPolicy, and
\* spec.secrets.ssl and sslInternal.
CRs == [exists : BOOLEAN, mode : {"", "preferTLS", "requireTLS", "disabled"},
        issuer : {"", "corp-ca"}, policy : {"", "UserProvidedOnly"},
        ssl : {"", "tls"}, internal : {"", "ssl-internal", "tls-internal"}]

Unset == [exists |-> FALSE, mode |-> "", issuer |-> "", policy |-> "", ssl |-> "", internal |-> ""]

Issued == {"operator", "certManager", "issuer"}

TypeOK ==
    /\ params \in Params /\ want \in Params
    /\ cr \in CRs
    /\ phased \in BOOLEAN /\ webhook \in BOOLEAN /\ keep \in BOOLEAN /\ pinned \in BOOLEAN
    /\ certManager \in BOOLEAN /\ migrating \in BOOLEAN
    /\ certs \subseteq UserSecrets
    /\ ssl \in Issued \cup {"none"}
    /\ serving \in Issued \cup {"down", "plain", "user"}
    /\ published \in Issued \cup {"none", "plain", "user"}
    /\ pc \in {"idle", "certificates", "apply", "status"}
    /\ edits \in 0..MaxEdits /\ outages \in 0..MaxOutages
    /\ deletes \in 0..MaxDeletes /\ failures \in 0..MaxFailures

-----------------------------------------------------------------------------
(***************************************************************************)
(* The checks.                                                             *)
(***************************************************************************)
tlsEnabled(mode) == mode # "disabled"

validateTLS(p) ==
    /\ ~tlsEnabled(p.mode) => p.issuer = "" /\ p.secret = "" /\ p.internal = ""
    /\ p.internal # "" => p.secret # ""
    /\ p.secret = "" \/ p.issuer = ""

certificateSource(p) == <<p.issuer, p.secret, p.internal>>

\* Faulty variant: another issuer alone is not seen as another source.
validateTLSTransitionIssuer(new, old) ==
    phased => tlsEnabled(old.mode) = tlsEnabled(new.mode) /\ old.secret = new.secret

\* What admission allows on an update: anything before the provider has
\* reported a phase.
validateTLSTransition(new, old) ==
    phased => /\ tlsEnabled(old.mode) = tlsEnabled(new.mode)
              /\ certificateSource(old) = certificateSource(new)

\* Both certificate secrets the Instance names, if any, are complete.
validateTLSReferences(p) == {p.secret, p.internal} \ {""} \subseteq certs

internalCertificateSecretName(p) == IF p.internal # "" THEN p.internal ELSE "ssl-internal"

\* Faulty variant: only certificate secrets are compared.
validateTLSChangeSecrets(p) ==
    cr.exists =>
        /\ tlsEnabled(cr.mode) = tlsEnabled(p.mode)
        /\ (IF cr.policy = "UserProvidedOnly" THEN cr.ssl ELSE "") = p.secret
        /\ cr.internal = "" \/ cr.internal = internalCertificateSecretName(p)

\* Faulty variant: TLS turned on or off is not noticed.
validateTLSChangeMode(p) ==
    cr.exists =>
        /\ cr.issuer = p.issuer
        /\ (IF cr.policy = "UserProvidedOnly" THEN cr.ssl ELSE "") = p.secret
        /\ cr.internal = "" \/ cr.internal = internalCertificateSecretName(p)

\* What a pass allows: the same, against the engine CR.  A CR of an earlier
\* release has no spec.tls, which stands for preferTLS, and no sslInternal.
validateTLSChange(p) ==
    cr.exists =>
        /\ tlsEnabled(cr.mode) = tlsEnabled(p.mode)
        /\ cr.issuer = p.issuer
        /\ (IF cr.policy = "UserProvidedOnly" THEN cr.ssl ELSE "") = p.secret
        /\ cr.internal = "" \/ cr.internal = internalCertificateSecretName(p)

Accepted == validateTLS(params) /\ validateTLSReferences(params) /\ validateTLSChange(params)

\* A new Instance, or one of an earlier release whose cluster runs with
\* certificates that were issued for it.
Init ==
    /\ \/ /\ params \in {p \in Params : validateTLS(p)}
          /\ phased = FALSE /\ cr = Unset
          /\ ssl = "none" /\ serving = "down" /\ published = "none"
          /\ certManager \in BOOLEAN
       \/ /\ params = Default
          /\ phased = TRUE /\ cr = [Unset EXCEPT !.exists = TRUE]
          /\ \/ ssl = "operator" /\ certManager = FALSE
             \/ ssl = "certManager" /\ certManager = TRUE
          /\ serving = ssl /\ published = ssl
    /\ webhook = TRUE /\ certs \in SUBSET UserSecrets
    /\ migrating = FALSE
    /\ pc = "idle" /\ want = Default /\ keep = FALSE
    /\ pinned = FALSE
    /\ edits = 0 /\ outages = 0 /\ deletes = 0 /\ failures = 0

-----------------------------------------------------------------------------
(***************************************************************************)
(* A pass.  A pass that Validate or ValidateReferences rejects only        *)
(* reports why.                                                            *)
(***************************************************************************)
BeginPass ==
    /\ pc = "idle"
    /\ Accepted
    /\ pc' = "certificates"
    /\ want' = params
    /\ UNCHANGED <<instanceVars, cr, issuerVars, published, keep, pinned, bounds>>

\* Faulty variant: certificates of the operator's own need no protection.
keepCertificatesUser(p) == p.secret # ""

\* The user's certificates, and those the operator issued by itself: their
\* secret has no cert-manager annotation.
keepCertificates(p) ==
    \/ p.secret # ""
    \/ tlsEnabled(p.mode) /\ p.issuer = "" /\ ssl = "operator"

ReadCertificates ==
    /\ pc = "certificates"
    /\ pc' = "apply"
    /\ keep' = keepCertificates(want)
    /\ UNCHANGED <<instanceVars, cr, issuerVars, published, want, pinned, bounds>>

configureTLS(p, k) ==
    [exists |-> TRUE, mode |-> p.mode, issuer |-> p.issuer,
     policy |-> IF p.secret # "" \/ k THEN "UserProvidedOnly" ELSE "",
     ssl |-> p.secret, internal |-> internalCertificateSecretName(p)]

Apply ==
    /\ pc = "apply"
    /\ pc' = "status"
    /\ cr' = configureTLS(want, keep)
    /\ migrating' = (migrating /\ cr'.policy = "")
    /\ pinned' = (pinned \/ (keep /\ want.secret = "" /\ ssl = "operator"))
    /\ UNCHANGED <<instanceVars, ssl, certManager, serving, published, want, keep, bounds>>

\* Whose CA clients are told to trust.
tlsConnection(p) ==
    CASE ~tlsEnabled(p.mode) -> "plain"
      [] tlsEnabled(p.mode) /\ p.secret # "" -> IF p.secret \in certs THEN "user" ELSE "none"
      [] tlsEnabled(p.mode) /\ p.secret = "" -> ssl

\* Faulty variant: connection details are published once.
StatusOnce ==
    /\ pc = "status"
    /\ pc' = "idle"
    /\ phased' = TRUE
    /\ published' = IF serving # "down" /\ published = "none" THEN tlsConnection(want) ELSE published
    /\ UNCHANGED <<params, webhook, certs, cr, issuerVars, want, keep, pinned, bounds>>

\* StatusPSMDB: the phase, and the connection details of an engine that is up.
Status ==
    /\ pc = "status"
    /\ pc' = "idle"
    /\ phased' = TRUE
    /\ published' = IF serving # "down" THEN tlsConnection(want) ELSE published
    /\ UNCHANGED <<params, webhook, certs, cr, issuerVars, want, keep, pinned, bounds>>

PassFails ==
    /\ pc # "idle"
    /\ failures < MaxFailures
    /\ failures' = failures + 1
    /\ pc' = "idle"
    /\ UNCHANGED <<instanceVars, cr, issuerVars, published, want, keep, pinned, edits, outages, deletes>>

-----------------------------------------------------------------------------
(***************************************************************************)
(* The user.                                                               *)
(***************************************************************************)
EditTLS ==
    /\ edits < MaxEdits
    /\ edits' = edits + 1
    /\ \E p \in Params \ {params} :
          /\ webhook => validateTLS(p) /\ validateTLSTransition(p, params)
          /\ params' = p
    /\ UNCHANGED <<phased, webhook, certs, cr, issuerVars, published, passVars, pinned,
                   outages, deletes, failures>>

EditCertificates ==
    /\ certs' \in SUBSET UserSecrets \ {certs}
    /\ UNCHANGED <<params, phased, webhook, cr, issuerVars, published, passVars, pinned, bounds>>

\* The provider goes down, its pass with it, and comes back.
Outage ==
    /\ webhook
    /\ outages < MaxOutages
    /\ outages' = outages + 1
    /\ webhook' = FALSE
    /\ pc' = "idle"
    /\ UNCHANGED <<params, phased, certs, cr, issuerVars, published, want, keep, pinned,
                   edits, deletes, failures>>

Restart ==
    /\ ~webhook
    /\ webhook' = TRUE
    /\ UNCHANGED <<params, phased, certs, cr, issuerVars, published, passVars, pinned, bounds>>

DeleteGenerated ==
    /\ ssl # "none"
    /\ deletes < MaxDeletes
    /\ deletes' = deletes + 1
    /\ ssl' = "none"
    /\ migrating' = FALSE
    /\ pinned' = FALSE
    /\ UNCHANGED <<instanceVars, cr, certManager, serving, published, passVars,
                   edits, outages, failures>>

-----------------------------------------------------------------------------
(***************************************************************************)
(* The operator and cert-manager, which are not this repository's code.    *)
(***************************************************************************)
InstallCertManager ==
    /\ ~certManager
    /\ certManager' = TRUE
    /\ UNCHANGED <<instanceVars, cr, ssl, migrating, serving, published, passVars, pinned, bounds>>

Issuing == cr.exists /\ tlsEnabled(cr.mode) /\ cr.policy = ""

\* With an issuer cert-manager issues from it, whatever is there.
Issue ==
    /\ Issuing
    /\ \/ /\ cr.issuer = "" /\ ssl = "none"
          /\ ssl' = IF certManager THEN "certManager" ELSE "operator"
       \/ /\ cr.issuer # "" /\ certManager /\ ssl # "issuer"
          /\ ssl' = "issuer"
    /\ UNCHANGED <<instanceVars, cr, certManager, migrating, serving, published, passVars, pinned, bounds>>

\* The migration: the operator and cert-manager overwrite each other's secret.
Migrate ==
    /\ Issuing /\ cr.issuer = "" /\ certManager
    /\ \/ ssl = "operator" /\ ssl' = "certManager" /\ migrating' = TRUE
       \/ ssl = "certManager" /\ migrating /\ ssl' = "operator" /\ UNCHANGED migrating
    /\ UNCHANGED <<instanceVars, cr, certManager, serving, published, passVars, pinned, bounds>>

\* The CA the CR leads to.
CA ==
    CASE ~tlsEnabled(cr.mode) -> "plain"
      [] tlsEnabled(cr.mode) /\ cr.ssl # "" -> IF cr.ssl \in certs THEN "user" ELSE "none"
      [] tlsEnabled(cr.mode) /\ cr.ssl = "" -> ssl

\* Members start, or restart one by one, once their certificates are there.
RollOut ==
    /\ cr.exists
    /\ CA \notin {serving, "none"}
    /\ serving' = CA
    /\ UNCHANGED <<instanceVars, cr, ssl, certManager, migrating, published, passVars, pinned, bounds>>

-----------------------------------------------------------------------------
Pass == BeginPass \/ ReadCertificates \/ Apply \/ Status

Next ==
    \/ webhook /\ Pass
    \/ PassFails
    \/ EditTLS
    \/ EditCertificates
    \/ Outage
    \/ Restart
    \/ DeleteGenerated
    \/ InstallCertManager
    \/ Issue
    \/ Migrate
    \/ RollOut

Spec == Init /\ [][Next]_vars

(***************************************************************************)
(* The provider comes back and keeps making passes (the operator's status  *)
(* and the resync bring them); the operator issues certificates and rolls  *)
(* them out.                                                               *)
(***************************************************************************)
Fairness ==
    /\ WF_vars(webhook /\ Pass)
    /\ WF_vars(Restart)
    /\ WF_vars(Issue)
    /\ WF_vars(RollOut)

FairSpec == Spec /\ Fairness

-----------------------------------------------------------------------------
(***************************************************************************)
(* Properties.                                                             *)
(***************************************************************************)

\* validateTLSTransition and validateTLSChange: from parameters the engine CR
\* agrees with, admission allows exactly the edits that a pass accepts.
ChecksAgree ==
    cr.exists /\ phased =>
        \A p, q \in {v \in Params : validateTLS(v)} :
            validateTLSChange(p) => (validateTLSTransition(q, p) <=> validateTLSChange(q))

\* validateTLSChange and keepCertificates: members that have started never
\* change their CA, nor turn TLS on or off, whatever is edited while the
\* webhook is down.  Only certificates issued for the Instance may move between
\* the operator and cert-manager, and not off those that a pass has pinned.
CAKept ==
    [][serving' # serving /\ serving # "down" =>
          /\ {serving, serving'} \subseteq {"operator", "certManager"}
          /\ pinned => serving # "operator"]_vars

\* keepCertificates: certificates of the operator's own that a pass has pinned
\* stay until their secret is deleted, also when cert-manager is installed.
PinnedStays == pinned => ssl = "operator" /\ ~migrating

\* keepCertificates: certificates of the operator's own that stay are pinned
\* in the end, while the Instance is one that passes accept.
PinnedEventually ==
    <>[](ssl = "operator" /\ cr.exists /\ Accepted) => <>[](cr.policy = "UserProvidedOnly")

\* tlsConnection: once the CA has settled, clients are told to trust the one
\* the members serve with.
PublishedEventually ==
    <>[](CA = serving /\ cr.exists /\ Accepted) => <>[](published = serving)
=============================================================================
