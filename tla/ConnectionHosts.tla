--------------------------- MODULE ConnectionHosts ---------------------------
(***************************************************************************)
(* The hosts in the connection secret of an Instance with hidden members   *)
(* (withoutHiddenHosts, internal/provider/hidden.go).  The operator lists  *)
(* every member it runs in status.host; the provider drops those whose     *)
(* name, or the address of the Service named like it, is that of a hidden  *)
(* pod it finds.  It reads the pods later than the operator did.           *)
(*                                                                         *)
(* The engine's own members are always listed and never dropped, so only   *)
(* the hidden ones are kept track of.                                      *)
(***************************************************************************)
EXTENDS Naturals

CONSTANTS
    Hidden,         \* the hidden members
    MaxStops        \* bound on the hidden pods that stop

ASSUME StopsAssumption == MaxStops \in Nat

VARIABLES
    pods,       \* hidden members with a pod
    hosts,      \* hidden members in status.host of the PerconaServerMongoDB
    published,  \* hidden members in the connection secret
    stops

hostVars == <<pods, hosts, published, stops>>

HostsTypeOK ==
    /\ pods \subseteq Hidden /\ hosts \subseteq Hidden /\ published \subseteq Hidden
    /\ stops \in 0..MaxStops

HostsInit == pods = {} /\ hosts = {} /\ published = {} /\ stops = 0

withoutHiddenHosts == hosts \ pods

-----------------------------------------------------------------------------
(***************************************************************************)
(* The cluster, which is not this repository's code.                       *)
(***************************************************************************)
HiddenPodStarts(h) ==
    /\ h \notin pods
    /\ pods' = pods \cup {h}
    /\ UNCHANGED <<hosts, published, stops>>

\* It is evicted, or its member removed.
HiddenPodStops(h) ==
    /\ h \in pods
    /\ stops < MaxStops
    /\ stops' = stops + 1
    /\ pods' = pods \ {h}
    /\ UNCHANGED <<hosts, published>>

RefreshHosts ==
    /\ hosts # pods
    /\ hosts' = pods
    /\ UNCHANGED <<pods, published, stops>>
=============================================================================
