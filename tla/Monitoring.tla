------------------------------ MODULE Monitoring ------------------------------
(***************************************************************************)
(* Monitoring of an Instance: PMM, rendered into the engine CR with a      *)
(* token in the users secret (internal/provider/pmm.go), the exporter      *)
(* sidecars (metrics.go) and the endpoints published for them              *)
(* (monitoring_sources.go).                                                *)
(*                                                                         *)
(* The runtime tells a pass whether PMM and metrics are required, not      *)
(* required, or unresolved while it cannot tell.  Every change of the CR   *)
(* here restarts the pods, so what is unresolved, or cannot be rendered,   *)
(* keeps what the cluster has.  What it has is read from a cache that      *)
(* trails behind the provider's own writes.                                *)
(*                                                                         *)
(* Memory stands for the two resources of the PMM client, which are merged *)
(* one by one with the same rule; 0 is a quantity that is not set.         *)
(***************************************************************************)
EXTENDS Naturals

CONSTANTS
    Servers,        \* PMM servers, each with its token
    Requested,      \* resources the destination entry of the Instance may ask for
    Tiers,          \* sizes of the engine's memory
    MaxEdits,       \* bound on edits of the Instance and its destinations
    MaxResolutions, \* bound on changes of what is required
    MaxFailures     \* bound on passes that fail half way

ASSUME ServersAssumption == "none" \notin Servers
ASSUME RequestedAssumption == Requested \subseteq [request : Nat, limit : Nat]
ASSUME TiersAssumption == Tiers \subseteq {"small", "medium", "large"}
ASSUME BoundsAssumption == MaxEdits \in Nat /\ MaxResolutions \in Nat /\ MaxFailures \in Nat

VARIABLES
    req,            \* req.pmm, req.metrics: what the runtime resolved
    binding,        \* the pmm binding of the Instance
    tier,           \* the engine's memory
    ready,          \* components with a ready pod
    cr,             \* spec.pmm and the sidecars of the engine CR
    cache,          \* the engine CR as c.Get returns it
    token,          \* PMM_SERVER_TOKEN of the users secret
    result,         \* what is reported of the binding
    sources,        \* components whose endpoint is published
    pc,             \* where the pass is
    psmdb,          \* the CR it is rendering
    kept,           \* the parts of it that are to stay as they are
    fresh,          \* what it read of the CR was the CR
    edits, resolutions, failures

inputVars == <<req, binding, tier, ready>>
passVars == <<pc, psmdb, kept, fresh>>
bounds == <<edits, resolutions, failures>>

vars == <<inputVars, cr, cache, token, result, sources, passVars, bounds>>

Requirements == {"Required", "NotRequired", "Unresolved"}
Components == {"engine"}   \* it stands for every component with an exporter
Off == [server |-> "none", request |-> 0, limit |-> 0]
Bindings == [server : Servers, sound : BOOLEAN, resources : Requested]
CRs == [pmm : [server : Servers \cup {"none"}, request : Nat, limit : Nat], exporter : BOOLEAN]

TypeOK ==
    /\ req \in [pmm : Requirements, metrics : Requirements]
    /\ binding \in Bindings
    /\ tier \in Tiers
    /\ ready \subseteq Components /\ sources \subseteq Components
    /\ cr \in CRs /\ cache \in CRs /\ psmdb \in CRs
    /\ token \in Servers \cup {"none"}
    /\ result \in {"none", "RenderFailed", "AgentTLSNotVerified"}
    /\ pc \in {"idle", "pmm", "token", "removeToken", "apply", "sources"}
    /\ kept \subseteq {"pmm", "exporter"}
    /\ fresh \in BOOLEAN
    /\ edits \in 0..MaxEdits /\ resolutions \in 0..MaxResolutions /\ failures \in 0..MaxFailures

Nothing == [pmm |-> Off, exporter |-> FALSE]

Init ==
    /\ req \in [pmm : Requirements, metrics : Requirements]
    /\ binding \in Bindings
    /\ tier \in Tiers
    /\ ready = {} /\ sources = {}
    /\ cr = Nothing /\ cache = Nothing /\ psmdb = Nothing
    /\ token = "none" /\ result = "none"
    /\ pc = "idle" /\ kept = {} /\ fresh = TRUE
    /\ edits = 0 /\ resolutions = 0 /\ failures = 0

-----------------------------------------------------------------------------
(***************************************************************************)
(* Resources of the PMM client.                                            *)
(***************************************************************************)

\* Multiples of about 97 MiB.
DefaultRequest(t) ==
    CASE t = "small"  -> 1
      [] t = "medium" -> 2
      [] t = "large"  -> 8

\* What is asked for, and the default for what is not; there is no default limit.
MergedRequest(r, t) == IF r.request # 0 THEN r.request ELSE DefaultRequest(t)

Exceeds(r, t) == r.limit # 0 /\ MergedRequest(r, t) > r.limit

\* A request that was asked for is not lowered.
Mergeable(r, t) == Exceeds(r, t) => r.request = 0

\* Faulty variant: the default is taken as it is.
mergeResourcesUnfit(r, t) == [request |-> MergedRequest(r, t), limit |-> r.limit]

mergeResources(r, t) ==
    [request |-> IF Exceeds(r, t) THEN r.limit ELSE MergedRequest(r, t), limit |-> r.limit]

\* The class has an image, the destination a URL, and its credentials a token.
Renderable == binding.sound /\ Mergeable(binding.resources, tier)

-----------------------------------------------------------------------------
(***************************************************************************)
(* A pass.                                                                 *)
(***************************************************************************)
Forget == psmdb' = Nothing /\ kept' = {} /\ fresh' = TRUE

\* What is required wins; unresolved, the live value.
Else(r, live) == r = "Required" \/ (r = "Unresolved" /\ live)

\* Faulty variant: sidecars are for what is known to be required.
metricsExporterRequiredNow == req.metrics = "Required"

metricsExporterRequired == Else(req.metrics, cache.exporter)

configureMetricsExporter ==
    /\ pc = "idle"
    /\ pc' = "pmm"
    /\ psmdb' = [Nothing EXCEPT !.exporter = metricsExporterRequired]
    /\ kept' = IF req.metrics = "Unresolved" THEN {"exporter"} ELSE {}
    /\ fresh' = (cache = cr)
    /\ UNCHANGED <<inputVars, cr, cache, token, result, sources, bounds>>

\* renderPMMBinding up to the token, or the failure of it.
RenderPMM ==
    /\ req.pmm = "Required"
    /\ \/ /\ Renderable
          /\ pc' = "token"
          /\ LET fit == mergeResources(binding.resources, tier) IN
             psmdb' = [psmdb EXCEPT !.pmm = [server |-> binding.server, request |-> fit.request,
                                             limit |-> fit.limit]]
          /\ UNCHANGED <<kept, result>>
       \/ /\ ~Renderable
          /\ pc' = "apply"
          /\ psmdb' = [psmdb EXCEPT !.pmm = cache.pmm]
          /\ kept' = kept \cup {"pmm"}
          /\ result' = "RenderFailed"

KeepPMM ==
    /\ req.pmm = "Unresolved"
    /\ pc' = "apply"
    /\ psmdb' = [psmdb EXCEPT !.pmm = cache.pmm]
    /\ kept' = kept \cup {"pmm"}
    /\ UNCHANGED result

\* Faulty variant: the token goes together with PMM.
DropPMMAndToken ==
    /\ req.pmm = "NotRequired"
    /\ pc' = "removeToken"
    /\ UNCHANGED <<psmdb, kept, result>>

\* PMM goes first and the token in a later pass.
DropPMM ==
    /\ req.pmm = "NotRequired"
    /\ pc' = IF cache.pmm = Off THEN "removeToken" ELSE "apply"
    /\ UNCHANGED <<psmdb, kept, result>>

applyPMMBindings ==
    /\ pc = "pmm"
    /\ RenderPMM \/ KeepPMM \/ DropPMM
    /\ fresh' = (fresh /\ cache = cr)
    /\ UNCHANGED <<inputVars, cr, cache, token, sources, bounds>>

\* Faulty variant: a token that is there is good enough.
ApplyTokenOnce ==
    /\ pc = "token"
    /\ pc' = "apply"
    /\ token' = IF token = "none" THEN psmdb.pmm.server ELSE token
    /\ result' = "AgentTLSNotVerified"
    /\ UNCHANGED <<inputVars, cr, cache, sources, psmdb, kept, fresh, bounds>>

ApplyToken ==
    /\ pc = "token"
    /\ pc' = "apply"
    /\ token' = psmdb.pmm.server
    /\ result' = "AgentTLSNotVerified"
    /\ UNCHANGED <<inputVars, cr, cache, sources, psmdb, kept, fresh, bounds>>

removeSecretData ==
    /\ pc = "removeToken"
    /\ pc' = "apply"
    /\ token' = "none"
    /\ UNCHANGED <<inputVars, cr, cache, result, sources, psmdb, kept, fresh, bounds>>

Apply ==
    /\ pc = "apply"
    /\ pc' = "sources"
    /\ cr' = psmdb
    /\ Forget
    /\ UNCHANGED <<inputVars, cache, token, result, sources, bounds>>

\* Faulty variant: endpoints, once published, stay until the Instance goes.
MonitoringSourcesGrow ==
    /\ pc = "sources"
    /\ pc' = "idle"
    /\ sources' = IF cache.exporter THEN ready ELSE sources
    /\ UNCHANGED <<inputVars, cr, cache, token, result, psmdb, kept, fresh, bounds>>

MonitoringSources ==
    /\ pc = "sources"
    /\ pc' = "idle"
    /\ sources' = IF cache.exporter THEN ready ELSE {}
    /\ UNCHANGED <<inputVars, cr, cache, token, result, psmdb, kept, fresh, bounds>>

\* A call fails, or the provider stops.
PassFails ==
    /\ pc # "idle"
    /\ failures < MaxFailures
    /\ failures' = failures + 1
    /\ pc' = "idle"
    /\ Forget
    /\ UNCHANGED <<inputVars, cr, cache, token, result, sources, edits, resolutions>>

-----------------------------------------------------------------------------
(***************************************************************************)
(* The user, and what is not this repository's code: the runtime that      *)
(* resolves bindings, the cache, and the pods.                             *)
(***************************************************************************)
EditDestination ==
    /\ edits < MaxEdits
    /\ edits' = edits + 1
    /\ \/ binding' \in Bindings \ {binding} /\ UNCHANGED tier
       \/ tier' \in Tiers \ {tier} /\ UNCHANGED binding
    /\ UNCHANGED <<req, ready, cr, cache, token, result, sources, passVars, resolutions, failures>>

Resolve ==
    /\ resolutions < MaxResolutions
    /\ resolutions' = resolutions + 1
    /\ \E r \in Requirements :
          \/ r # req.pmm /\ req' = [req EXCEPT !.pmm = r]
          \/ r # req.metrics /\ req' = [req EXCEPT !.metrics = r]
    /\ UNCHANGED <<binding, tier, ready, cr, cache, token, result, sources, passVars, edits, failures>>

CacheCatchesUp ==
    /\ cache # cr
    /\ cache' = cr
    /\ UNCHANGED <<inputVars, cr, token, result, sources, passVars, bounds>>

\* A component has a ready pod from some time on.
PodsReady ==
    /\ \E c \in Components \ ready : ready' = ready \cup {c}
    /\ UNCHANGED <<req, binding, tier, cr, cache, token, result, sources, passVars, bounds>>

-----------------------------------------------------------------------------
Pass ==
    \/ configureMetricsExporter
    \/ applyPMMBindings
    \/ ApplyToken
    \/ removeSecretData
    \/ Apply
    \/ MonitoringSources

Next ==
    \/ Pass
    \/ PassFails
    \/ EditDestination
    \/ Resolve
    \/ CacheCatchesUp
    \/ PodsReady

Spec == Init /\ [][Next]_vars

(***************************************************************************)
(* Passes keep coming, with every change of the CR and with the resync of  *)
(* the runtime, and the cache does not stay behind for ever.               *)
(***************************************************************************)
Fairness == WF_vars(Pass) /\ WF_vars(CacheCatchesUp)

FairSpec == Spec /\ Fairness

-----------------------------------------------------------------------------
(***************************************************************************)
(* Properties.                                                             *)
(***************************************************************************)

\* mergeResources: the CR never asks for more than the limit it sets, whatever
\* is asked for and however the engine is resized between passes.
ResourcesFit == cr.pmm.limit # 0 => cr.pmm.request <= cr.pmm.limit

\* applyPMMBindings and metricsExporterRequired: while a requirement is
\* unresolved, or the binding cannot be rendered, a pass that read the CR as it
\* is leaves that part of it alone, so that no pod restarts.
UnresolvedKeeps ==
    [][pc = "apply" /\ pc' = "sources" /\ fresh =>
          /\ "pmm" \in kept => cr'.pmm = cr.pmm
          /\ "exporter" \in kept => cr'.exporter = cr.exporter]_vars

\* applyPMMBindings: a pass that read the CR as it is takes the token away only
\* when the cluster no longer reports to PMM.
TokenOutlivesPMM ==
    [][token # "none" /\ token' = "none" /\ fresh => cr.pmm = Off]_vars

\* applyPMMBindings: once it is settled whether PMM is required, the CR and the
\* users secret agree on it, through failed passes and a trailing cache: on
\* the same server with what was asked for, or neither of them.
PMMSettles ==
    /\ <>[](req.pmm = "NotRequired") => <>[](cr.pmm = Off /\ token = "none")
    /\ <>[](req.pmm = "Required" /\ Renderable) /\ <>[][FALSE]_<<binding, tier>> =>
          <>[](/\ cr.pmm.server = binding.server /\ token = binding.server
               /\ cr.pmm.limit = binding.resources.limit
               /\ binding.resources.request \in {0, cr.pmm.request})
    /\ <>[](req.pmm = "Required" /\ ~Renderable) => <>[](result = "RenderFailed")

\* configureMetricsExporter and MonitoringSources: once it is settled whether
\* metrics are required, exactly the components that serve them are published.
SourcesSettle ==
    /\ <>[](req.metrics = "NotRequired") => <>[](~cr.exporter /\ sources = {})
    /\ <>[](req.metrics = "Required" /\ ready # {}) => <>[](cr.exporter /\ sources = ready)
=============================================================================
