--------------------------- MODULE MonitoringProofs ---------------------------
(***************************************************************************)
(* Proofs that the safety properties of Monitoring hold for every set of   *)
(* servers, requested resources and bounds.  What a pass decides rests on  *)
(* a read of the cache; the invariant carries the decision to Apply.       *)
(***************************************************************************)
EXTENDS Monitoring, TLAPS

Rendering == {"pmm", "token", "removeToken", "apply"}

Fits(p) == p.limit # 0 => p.request <= p.limit

\* All copies of the CR have resources that fit.
AllFit == Fits(cr.pmm) /\ Fits(cache.pmm) /\ Fits(psmdb.pmm)

\* A pass that read the CR as it is renders what it keeps as it is.
KeptAsRead ==
    pc \in Rendering /\ fresh =>
        /\ "exporter" \in kept => psmdb.exporter = cr.exporter
        /\ pc = "apply" /\ "pmm" \in kept => psmdb.pmm = cr.pmm

\* The token is that of a server, and goes after PMM.
TokenHeld ==
    /\ pc = "token" => psmdb.pmm.server \in Servers
    /\ pc = "removeToken" /\ fresh => cr.pmm = Off

\* Only an unresolved or unrenderable PMM is kept, and that is decided once.
KeptSoFar == pc \in {"pmm", "token", "removeToken"} => "pmm" \notin kept

IInv == TypeOK /\ AllFit /\ KeptAsRead /\ TokenHeld /\ KeptSoFar

-----------------------------------------------------------------------------
\* DefaultRequest, mergeResources: what is merged is numbers, and fits.
LEMMA MergeFits ==
    ASSUME NEW r \in [request : Nat, limit : Nat], NEW t \in Tiers
    PROVE  /\ mergeResources(r, t).request \in Nat
           /\ mergeResources(r, t).limit \in Nat
           /\ Fits(mergeResources(r, t))
<1>1. DefaultRequest(t) \in Nat
  BY TiersAssumption DEF DefaultRequest
<1>2. MergedRequest(r, t) \in Nat
  BY <1>1 DEF MergedRequest
<1> QED
  BY <1>2 DEF mergeResources, Fits, Exceeds

\* An engine CR in which PMM is off is one.
LEMMA NothingTyped == Nothing \in CRs /\ Fits(Nothing.pmm) /\ Nothing.pmm = Off
BY DEF Nothing, Off, CRs, Fits

\* The invariant holds of a new Instance.
LEMMA InitIInv == Init => IInv
<1> SUFFICES ASSUME Init PROVE IInv
  OBVIOUS
<1>1. TypeOK
  BY NothingTyped, BoundsAssumption DEF Init, TypeOK
<1>2. AllFit
  BY NothingTyped DEF Init, AllFit
<1> QED
  BY <1>1, <1>2 DEF Init, IInv, KeptAsRead, TokenHeld, KeptSoFar, Rendering

\* applyPMMBindings keeps the invariant, in each of its three cases.
LEMMA PMMStep ==
    ASSUME IInv, applyPMMBindings
    PROVE  IInv'
<1> USE DEF IInv
<1>0. /\ UNCHANGED <<inputVars, cr, cache, token, sources, bounds>>
      /\ pc = "pmm" /\ fresh' = (fresh /\ cache = cr)
  BY DEF applyPMMBindings
<1>1. CASE RenderPMM /\ Renderable
  <2> DEFINE fit == mergeResources(binding.resources, tier)
  <2>1. binding.resources \in [request : Nat, limit : Nat] /\ binding.server \in Servers
    BY RequestedAssumption DEF TypeOK, Bindings
  <2>2. fit.request \in Nat /\ fit.limit \in Nat /\ Fits(fit)
    BY <2>1, MergeFits DEF TypeOK
  <2>3. /\ pc' = "token" /\ kept' = kept /\ result' = result
        /\ psmdb' = [psmdb EXCEPT !.pmm = [server |-> binding.server, request |-> fit.request,
                                           limit |-> fit.limit]]
    BY <1>1 DEF RenderPMM
  <2> HIDE DEF fit
  <2>4. psmdb' \in CRs /\ psmdb'.pmm.server \in Servers /\ Fits(psmdb'.pmm)
        /\ psmdb'.exporter = psmdb.exporter
    BY <2>1, <2>2, <2>3 DEF TypeOK, CRs, Fits
  <2>5. TypeOK'
    BY <1>0, <2>3, <2>4 DEF TypeOK, inputVars, bounds
  <2> QED
    BY <1>0, <2>3, <2>4, <2>5 DEF AllFit, KeptAsRead, TokenHeld, KeptSoFar, Rendering
<1>2. CASE (RenderPMM /\ ~Renderable) \/ KeepPMM
  <2>1. /\ pc' = "apply" /\ kept' = kept \cup {"pmm"}
        /\ result' \in {result, "RenderFailed"}
        /\ psmdb' = [psmdb EXCEPT !.pmm = cache.pmm]
    BY <1>2 DEF RenderPMM, KeepPMM
  <2>2. psmdb' \in CRs /\ psmdb'.pmm = cache.pmm /\ psmdb'.exporter = psmdb.exporter
    BY <2>1 DEF TypeOK, CRs
  <2>3. TypeOK'
    BY <1>0, <2>1, <2>2 DEF TypeOK, inputVars, bounds
  <2> QED
    BY <1>0, <2>1, <2>2, <2>3 DEF AllFit, KeptAsRead, TokenHeld, KeptSoFar, Rendering, Fits
<1>3. CASE DropPMM
  <2>1. /\ pc' = IF cache.pmm = Off THEN "removeToken" ELSE "apply"
        /\ psmdb' = psmdb /\ kept' = kept /\ result' = result
    BY <1>3 DEF DropPMM
  <2>2. TypeOK'
    BY <1>0, <2>1 DEF TypeOK, inputVars, bounds
  <2> QED
    BY <1>0, <2>1, <2>2 DEF AllFit, KeptAsRead, TokenHeld, KeptSoFar, Rendering
<1> QED
  BY <1>1, <1>2, <1>3 DEF applyPMMBindings

\* Every step keeps the invariant.
LEMMA StepIInv == IInv /\ [Next]_vars => IInv'
<1> SUFFICES ASSUME IInv, [Next]_vars PROVE IInv'
  OBVIOUS
<1> USE DEF IInv
<1>1. CASE configureMetricsExporter
  <2>1. metricsExporterRequired \in BOOLEAN
    BY DEF metricsExporterRequired, Else, TypeOK, CRs
  <2>2. /\ psmdb' \in CRs /\ psmdb'.pmm = Off
        /\ psmdb'.exporter = metricsExporterRequired
    BY <1>1, <2>1, NothingTyped DEF configureMetricsExporter, CRs, Nothing
  <2>3. kept' = {"exporter"} => metricsExporterRequired = cache.exporter
    BY <1>1 DEF configureMetricsExporter, metricsExporterRequired, Else, TypeOK, CRs
  <2>4. kept' \in {{}, {"exporter"}} /\ pc' = "pmm" /\ fresh' = (cache = cr)
    BY <1>1 DEF configureMetricsExporter
  <2>5. UNCHANGED <<inputVars, cr, cache, token, result, sources, bounds>>
    BY <1>1 DEF configureMetricsExporter
  <2>6. TypeOK'
    BY <2>2, <2>4, <2>5 DEF TypeOK, inputVars, bounds
  <2>7. Fits(psmdb'.pmm)
    BY <2>2, NothingTyped
  <2> QED
    BY <2>2, <2>3, <2>4, <2>5, <2>6, <2>7 DEF AllFit, KeptAsRead, TokenHeld, KeptSoFar, Rendering
<1>2. CASE applyPMMBindings
  BY <1>2, PMMStep
<1>3. CASE ApplyToken
  <2>1. TypeOK'
    BY <1>3 DEF ApplyToken, TypeOK, TokenHeld, inputVars, bounds
  <2> QED
    BY <1>3, <2>1 DEF ApplyToken, AllFit, KeptAsRead, TokenHeld, KeptSoFar, Rendering
<1>4. CASE removeSecretData
  <2>1. TypeOK'
    BY <1>4 DEF removeSecretData, TypeOK, inputVars, bounds
  <2> QED
    BY <1>4, <2>1 DEF removeSecretData, AllFit, KeptAsRead, TokenHeld, KeptSoFar, Rendering
<1>5. CASE Apply
  <2>1. TypeOK'
    BY <1>5, NothingTyped DEF Apply, Forget, TypeOK, inputVars, bounds
  <2> QED
    BY <1>5, <2>1, NothingTyped
    DEF Apply, Forget, AllFit, KeptAsRead, TokenHeld, KeptSoFar, Rendering
<1>6. CASE MonitoringSources
  <2>1. TypeOK'
    BY <1>6 DEF MonitoringSources, TypeOK, inputVars, bounds
  <2> QED
    BY <1>6, <2>1 DEF MonitoringSources, AllFit, KeptAsRead, TokenHeld, KeptSoFar, Rendering
<1>7. CASE PassFails
  <2>1. TypeOK'
    BY <1>7, NothingTyped, BoundsAssumption DEF PassFails, Forget, TypeOK, inputVars
  <2> QED
    BY <1>7, <2>1, NothingTyped
    DEF PassFails, Forget, AllFit, KeptAsRead, TokenHeld, KeptSoFar, Rendering
<1>8. CASE EditDestination
  <2>1. TypeOK'
    BY <1>8, BoundsAssumption DEF EditDestination, TypeOK, passVars
  <2> QED
    BY <1>8, <2>1 DEF EditDestination, passVars, AllFit, KeptAsRead, TokenHeld, KeptSoFar, Rendering
<1>9. CASE Resolve
  <2>1. PICK r \in Requirements : \/ req' = [req EXCEPT !.pmm = r]
                                  \/ req' = [req EXCEPT !.metrics = r]
    BY <1>9 DEF Resolve
  <2>2. req' \in [pmm : Requirements, metrics : Requirements]
    BY <2>1 DEF TypeOK
  <2>3. TypeOK'
    BY <1>9, <2>2, BoundsAssumption DEF Resolve, TypeOK, passVars
  <2> QED
    BY <1>9, <2>3 DEF Resolve, passVars, AllFit, KeptAsRead, TokenHeld, KeptSoFar, Rendering
<1>10. CASE CacheCatchesUp
  <2>1. TypeOK'
    BY <1>10 DEF CacheCatchesUp, TypeOK, inputVars, passVars, bounds
  <2> QED
    BY <1>10, <2>1 DEF CacheCatchesUp, passVars, AllFit, KeptAsRead, TokenHeld, KeptSoFar, Rendering
<1>11. CASE PodsReady
  <2>1. TypeOK'
    BY <1>11 DEF PodsReady, TypeOK, passVars, bounds
  <2> QED
    BY <1>11, <2>1 DEF PodsReady, passVars, AllFit, KeptAsRead, TokenHeld, KeptSoFar, Rendering
<1>12. CASE UNCHANGED vars
  <2>1. TypeOK'
    BY <1>12 DEF vars, TypeOK, inputVars, passVars, bounds
  <2> QED
    BY <1>12, <2>1 DEF vars, passVars, AllFit, KeptAsRead, TokenHeld, KeptSoFar, Rendering
<1> QED
  BY <1>1, <1>2, <1>3, <1>4, <1>5, <1>6, <1>7, <1>8, <1>9, <1>10, <1>11, <1>12 DEF Next, Pass

\* The invariant holds in every state.
LEMMA IInvInvariant == Spec => []IInv
BY InitIInv, StepIInv, PTL DEF Spec

-----------------------------------------------------------------------------
\* A pass over PMM and the exporter keeps every variable in its type.
THEOREM TypeCorrect == Spec => []TypeOK
<1>1. IInv => TypeOK
  BY DEF IInv
<1> QED
  BY <1>1, IInvInvariant, PTL

\* mergeResources: no CR asks for more than its limit, for all resources that
\* can be asked for and however the engine is resized.
THEOREM RequestsFit == Spec => []ResourcesFit
<1>1. IInv => ResourcesFit
  BY DEF IInv, AllFit, Fits, ResourcesFit
<1> QED
  BY <1>1, IInvInvariant, PTL

\* applyPMMBindings, metricsExporterRequired: what is unresolved or cannot be
\* rendered stays as it is, by a pass that read the CR as it is.
THEOREM KeepsUnresolved == Spec => UnresolvedKeeps
<1> DEFINE Keeps ==
        pc = "apply" /\ pc' = "sources" /\ fresh =>
            /\ "pmm" \in kept => cr'.pmm = cr.pmm
            /\ "exporter" \in kept => cr'.exporter = cr.exporter
<1>1. IInv /\ [Next]_vars => [Keeps]_vars
  <2> SUFFICES ASSUME IInv, Next, pc = "apply", pc' = "sources", fresh
               PROVE  /\ "pmm" \in kept => cr'.pmm = cr.pmm
                      /\ "exporter" \in kept => cr'.exporter = cr.exporter
    OBVIOUS
  <2>1. Apply
    BY DEF Next, Pass, configureMetricsExporter, applyPMMBindings, ApplyToken, removeSecretData,
           MonitoringSources, PassFails, EditDestination, Resolve, CacheCatchesUp, PodsReady, passVars
  <2> QED
    BY <2>1 DEF Apply, IInv, KeptAsRead, Rendering
<1> QED
  BY <1>1, IInvInvariant, PTL DEF Spec, UnresolvedKeeps

\* applyPMMBindings: the token leaves the users secret only when PMM is off in
\* the cluster, by a pass that read the CR as it is.
THEOREM TokenGoesLast == Spec => TokenOutlivesPMM
<1> DEFINE Last == token # "none" /\ token' = "none" /\ fresh => cr.pmm = Off
<1>1. IInv /\ [Next]_vars => [Last]_vars
  <2> SUFFICES ASSUME IInv, Next, token # "none", token' = "none", fresh
               PROVE  cr.pmm = Off
    OBVIOUS
  <2>1. ApplyToken \/ removeSecretData
    BY DEF Next, Pass, configureMetricsExporter, applyPMMBindings, Apply,
           MonitoringSources, PassFails, EditDestination, Resolve, CacheCatchesUp, PodsReady
  <2>2. ~ApplyToken
    BY ServersAssumption DEF ApplyToken, IInv, TokenHeld
  <2> QED
    BY <2>1, <2>2 DEF removeSecretData, IInv, TokenHeld
<1> QED
  BY <1>1, IInvInvariant, PTL DEF Spec, TokenOutlivesPMM
-----------------------------------------------------------------------------
(***************************************************************************)
(* The token comes first.                                                  *)
(***************************************************************************)

\* renderPMMBinding: a pass that read the CR as it is points the cluster to a
\* PMM server only when the users secret already holds that server's token, also
\* when the binding moves from one server to another or is edited during the pass.
TokenPrecedesPMM ==
    [][cr'.pmm.server \notin {cr.pmm.server, "none"} /\ fresh => token = cr'.pmm.server]_vars

\* From the write of the token to Apply the secret holds the token of what the
\* pass has rendered; a pass that drops PMM renders none.
TokenReady ==
    /\ pc \in {"pmm", "removeToken"} => psmdb.pmm = Off
    /\ pc = "apply" /\ "pmm" \notin kept => psmdb.pmm.server \in {token, "none"}

\* Every step keeps it: only the pass itself writes the token.
LEMMA TokenReadyStep == IInv /\ TokenReady /\ [Next]_vars => TokenReady'
<1> SUFFICES ASSUME IInv, TokenReady, [Next]_vars PROVE TokenReady'
  OBVIOUS
<1>1. CASE configureMetricsExporter
  <2>1. psmdb'.pmm = Off /\ pc' = "pmm"
    BY <1>1, NothingTyped DEF configureMetricsExporter, Nothing
  <2> QED
    BY <2>1 DEF TokenReady
<1>2. CASE applyPMMBindings
  <2>1. psmdb.pmm = Off /\ token' = token
    BY <1>2 DEF applyPMMBindings, TokenReady
  <2>2. CASE RenderPMM \/ KeepPMM
    BY <2>2 DEF RenderPMM, KeepPMM, TokenReady
  <2>3. CASE DropPMM
    BY <2>1, <2>3 DEF DropPMM, TokenReady, Off
  <2> QED
    BY <1>2, <2>2, <2>3 DEF applyPMMBindings
<1>3. CASE ApplyToken
  BY <1>3 DEF ApplyToken, TokenReady
<1>4. CASE removeSecretData
  BY <1>4 DEF removeSecretData, TokenReady, Off
<1>5. CASE pc' \in {"idle", "sources"}
  BY <1>5 DEF TokenReady
<1>6. CASE UNCHANGED <<token, passVars>>
  BY <1>6 DEF TokenReady, passVars
<1> QED
  BY <1>1, <1>2, <1>3, <1>4, <1>5, <1>6 DEF Next, Pass, Apply, MonitoringSources, PassFails,
       EditDestination, Resolve, CacheCatchesUp, PodsReady, vars

\* renderPMMBinding: no cluster is pointed to a PMM server whose token the users
\* secret does not hold, by a pass that read the CR as it is.
THEOREM TokenComesFirst == Spec => TokenPrecedesPMM
<1> DEFINE First ==
        cr'.pmm.server \notin {cr.pmm.server, "none"} /\ fresh => token = cr'.pmm.server
<1>1. IInv /\ TokenReady /\ [Next]_vars => [First]_vars
  <2> SUFFICES ASSUME IInv, TokenReady, Next, fresh,
                      cr'.pmm.server \notin {cr.pmm.server, "none"}
               PROVE  token = cr'.pmm.server
    OBVIOUS
  <2>1. Apply
    BY DEF Next, Pass, configureMetricsExporter, applyPMMBindings, ApplyToken, removeSecretData,
           MonitoringSources, PassFails, EditDestination, Resolve, CacheCatchesUp, PodsReady
  <2>2. pc = "apply" /\ cr' = psmdb
    BY <2>1 DEF Apply
  <2>3. "pmm" \notin kept
    BY <2>2 DEF IInv, KeptAsRead, Rendering
  <2> QED
    BY <2>2, <2>3 DEF TokenReady
<1>2. Init => TokenReady
  BY DEF Init, TokenReady
<1> QED
  BY <1>1, <1>2, TokenReadyStep, IInvInvariant, PTL DEF Spec, TokenPrecedesPMM
=============================================================================
