---------------------------- MODULE HiddenMembers ----------------------------
(***************************************************************************)
(* The hidden members of one replica-set Instance and the volumes they     *)
(* leave behind: internal/provider/hidden.go and the parts of SyncPSMDB    *)
(* (internal/provider/provider.go) that call it.                           *)
(*                                                                         *)
(* A pass of Sync is not atomic.  It works on the Instance it was started  *)
(* with, lists the hidden volumes and then the hidden pods, deletes the    *)
(* volumes it took for unused one by one, applies the engine CR, and lists *)
(* and deletes once more.  Every one of those calls is a step here; the    *)
(* user, the operator, the StatefulSet controller and the volume           *)
(* protection of the cluster act in between.                               *)
(*                                                                         *)
(* Members are named by their StatefulSet ordinal, as the code does.       *)
(***************************************************************************)
EXTENDS Integers

CONSTANTS
    MaxReplicas,    \* bound on the hidden replicas an Instance asks for
    Sizes,          \* the hidden replica counts the user picks from
    Classes,        \* storage classes
    Seeded,         \* TRUE when the Instance has a spec.dataSource
    MaxEdits,       \* bound on the edits of the Instance
    Evictable,      \* the ordinals whose pod may be evicted
    MaxFaults       \* bound on the evictions and the API calls that fail

ASSUME ReplicasAssumption == MaxReplicas \in Nat /\ Sizes \subseteq 0..MaxReplicas

ASSUME BoundsAssumption ==
    MaxEdits \in Nat /\ MaxFaults \in Nat

ASSUME SeededAssumption == Seeded \in BOOLEAN

Ordinals == 0..(MaxReplicas - 1)

(***************************************************************************)
(* rs.Hidden of the engine CR.  An absent CR reads as hidden members off.  *)
(***************************************************************************)
NoClass == "no class"

HiddenSpec == [enabled : BOOLEAN, size : 0..MaxReplicas, class : Classes \cup {NoClass}]

Off == [enabled |-> FALSE, size |-> 0, class |-> NoClass]

On(n, k) == [enabled |-> TRUE, size |-> n, class |-> k]

VARIABLES
    desired,    \* spec.components[hidden] of the Instance: replicas, class
    cr,         \* rs.Hidden of the live engine CR
    sts,        \* the hidden StatefulSet, in the shape of the spec it came from
    pod,        \* pod[o]: none, running, or terminating; a list shows the last two
    pvc,        \* pvc[o]: the volume of ordinal o: none, present, or deleting
    left,       \* volumes whose member was removed from the replica set
    gate,       \* the data source block of Sync runs to its end
    queued,     \* a reconcile request for the Instance is waiting
    pc,         \* where the running pass is
    want,       \* the Instance the pass works on
    next,       \* rs.Hidden the pass will apply
    listed,     \* ordinals from keepBelow up that the pass listed a volume for
    doomed,     \* those of them the pass will delete
    abandoned,  \* volumes a pass found left behind by hidden members turned off
    edits, evictions, failures


\* What a step of the pass leaves alone, and what everybody else does.
outside == <<desired, sts, pod, left, gate, edits, evictions>>
pass == <<cr, pc, want, next, listed, doomed, abandoned, failures>>

vars == <<desired, cr, sts, pod, pvc, left, gate, queued, pc, want, next, listed,
          doomed, abandoned, edits, evictions, failures>>

Exists(o) == pvc[o] # "none"

\* Ordinal o is a member of the hidden members a spec describes.
IsMember(h, o) == h.enabled /\ o < h.size

StartSteps == {"listForStart", "podsForStart", "deleteForStart"}
TrimSteps == {"listForTrim", "podsForTrim", "deleteForTrim"}
Steps == {"idle", "apply", "finish"} \cup StartSteps \cup TrimSteps

TypeOK ==
    /\ desired \in [size : Sizes, class : Classes]
    /\ want \in [size : Sizes, class : Classes]
    /\ cr \in HiddenSpec
    /\ sts \in HiddenSpec
    /\ next \in HiddenSpec
    /\ pod \in [Ordinals -> {"none", "running", "terminating"}]
    /\ pvc \in [Ordinals -> {"none", "present", "deleting"}]
    /\ left \subseteq Ordinals
    /\ gate \in BOOLEAN
    /\ queued \in BOOLEAN
    /\ pc \in Steps
    /\ listed \subseteq Ordinals
    /\ doomed \subseteq listed
    /\ abandoned \subseteq Ordinals
    /\ edits \in 0..MaxEdits
    /\ evictions \in 0..MaxFaults
    /\ failures \in 0..MaxFaults

Init ==
    /\ desired \in [size : Sizes, class : Classes]
    /\ want = desired
    /\ cr = Off
    /\ sts = Off
    /\ next = Off
    /\ pod = [o \in Ordinals |-> "none"]
    /\ pvc = [o \in Ordinals |-> "none"]
    /\ left = {}
    /\ gate = ~Seeded
    /\ queued = TRUE
    /\ pc = "idle"
    /\ listed = {}
    /\ doomed = {}
    /\ abandoned = {}
    /\ edits = 0
    /\ evictions = 0
    /\ failures = 0

-----------------------------------------------------------------------------
(***************************************************************************)
(* A pass of Sync.                                                         *)
(***************************************************************************)

(***************************************************************************)
(* The pass takes the Instance as it is now, and configureHidden reads the *)
(* live engine CR.  Nobody but the pass writes rs.Hidden, so the two reads *)
(* are one step.  Running hidden members keep their class and take the new *)
(* size at once; hidden members to be turned on first look for volumes.    *)
(***************************************************************************)
\* Faulty variant: the requested class replaces that of running members.
BeginPassTakesClass ==
    /\ pc = "idle"
    /\ queued
    /\ queued' = FALSE
    /\ want' = desired
    /\ \/ /\ desired.size = 0 \/ cr.enabled
          /\ next' = IF desired.size = 0 THEN Off ELSE On(desired.size, desired.class)
          /\ pc' = "apply"
       \/ /\ desired.size > 0 /\ ~cr.enabled
          /\ next' = Off
          /\ pc' = "listForStart"
    /\ UNCHANGED <<outside, cr, pvc, listed, doomed, abandoned, failures>>

BeginPass ==
    /\ pc = "idle"
    /\ queued
    /\ queued' = FALSE
    /\ want' = desired
    /\ \/ /\ desired.size = 0
          /\ next' = Off
          /\ pc' = "apply"
       \/ /\ desired.size > 0
          /\ cr.enabled
          /\ next' = On(desired.size, cr.class)
          /\ pc' = "apply"
       \/ /\ desired.size > 0
          /\ ~cr.enabled
          /\ next' = Off
          /\ pc' = "listForStart"
    /\ UNCHANGED <<outside, cr, pvc, listed, doomed, abandoned, failures>>

(***************************************************************************)
(* deleteHiddenVolumes(c, keepBelow) lists the volumes, then the pods, and *)
(* deletes one by one what it took for unused.  It goes by what it listed, *)
(* however old that is by then.  Its result is the number of volumes       *)
(* listed, those it deletes itself included.                               *)
(***************************************************************************)
\* Faulty variant: the first ordinal to go is missed.
ListedAbove(keepBelow) == { o \in Ordinals : o > keepBelow /\ Exists(o) }

Listed(keepBelow) == { o \in Ordinals : o >= keepBelow /\ Exists(o) }

ListVolumes(keepBelow) ==
    /\ listed' = Listed(keepBelow)
    /\ doomed' = { o \in Listed(keepBelow) : pvc[o] = "present" }
    /\ UNCHANGED <<outside, cr, pvc, queued, want, failures>>

ListPods ==
    /\ doomed' = { o \in doomed : pod[o] = "none" }
    /\ UNCHANGED <<outside, cr, pvc, queued, want, next, listed, abandoned, failures>>

\* A deleted volume stays, with its DeletionTimestamp, until it is released.
DeleteVolume ==
    /\ \E o \in doomed :
          /\ doomed' = doomed \ {o}
          /\ pvc' = IF Exists(o) THEN [pvc EXCEPT ![o] = "deleting"] ELSE pvc
    /\ UNCHANGED <<outside, cr, queued, pc, want, next, listed, abandoned, failures>>

\* The caller goes on once every delete was sent.
DeletesSent ==
    /\ doomed = {}
    /\ UNCHANGED <<outside, cr, pvc, queued, want, next, listed, doomed, abandoned, failures>>

\* Faulty variant: a volume that is still in use is not counted.
HoldStartUnused == { o \in Listed(0) : pod[o] = "none" } # {}

\* configureHidden holds the start back while deleteHiddenVolumes(c, 0) is above zero.
HoldStart == Listed(0) # {}

\* Volumes are abandoned when the operator has already removed the StatefulSet.
ListVolumesForStart ==
    /\ pc = "listForStart"
    /\ ListVolumes(0)
    /\ next' = IF HoldStart THEN Off ELSE On(want.size, want.class)
    /\ pc' = IF Listed(0) = {} THEN "apply" ELSE "podsForStart"
    /\ abandoned' = IF sts.enabled THEN abandoned ELSE abandoned \cup Listed(0)

ListPodsForStart ==
    /\ pc = "podsForStart"
    /\ ListPods
    /\ pc' = "deleteForStart"

DeleteForStart ==
    /\ pc = "deleteForStart"
    /\ \/ DeleteVolume
       \/ DeletesSent /\ pc' = "apply"

\* c.Apply writes the engine CR.
Apply ==
    /\ pc = "apply"
    /\ cr' = next
    /\ pc' = "listForTrim"
    /\ UNCHANGED <<outside, pvc, queued, want, next, listed, doomed, abandoned, failures>>

\* Faulty variant: one volume too many.
ListVolumesForTrimTooLow ==
    /\ pc = "listForTrim"
    /\ ListVolumes(want.size - 1)
    /\ pc' = IF Listed(want.size - 1) = {} THEN "finish" ELSE "podsForTrim"
    /\ UNCHANGED <<next, abandoned>>

\* deleteUnusedHiddenVolumes, with the replicas of the Instance the pass works on.
ListVolumesForTrim ==
    /\ pc = "listForTrim"
    /\ ListVolumes(want.size)
    /\ pc' = IF Listed(want.size) = {} THEN "finish" ELSE "podsForTrim"
    /\ UNCHANGED <<next, abandoned>>

ListPodsForTrim ==
    /\ pc = "podsForTrim"
    /\ ListPods
    /\ pc' = "deleteForTrim"

DeleteForTrim ==
    /\ pc = "deleteForTrim"
    /\ \/ DeleteVolume
       \/ DeletesSent /\ pc' = "finish"

EndPass ==
    /\ pc' = "idle"
    /\ next' = Off
    /\ listed' = {}
    /\ doomed' = {}

hiddenStartPending == want.size > 0 /\ ~next.enabled

\* Faulty variant: the pass returns nil although a start is held back.
FinishWithoutWait ==
    /\ pc = "finish"
    /\ EndPass
    /\ UNCHANGED <<outside, cr, pvc, queued, want, abandoned, failures>>

(***************************************************************************)
(* The end of the pass.  A start held back asks for another pass with      *)
(* WaitFor, unless the data source block returned before that: it does     *)
(* while the engine is not ready or rejects the credentials.               *)
(***************************************************************************)
Finish ==
    /\ pc = "finish"
    /\ queued' = (queued \/ (gate /\ hiddenStartPending))
    /\ EndPass
    /\ UNCHANGED <<outside, cr, pvc, want, abandoned, failures>>

\* An API call of the pass fails: Sync returns the error and is retried.
PassFails ==
    /\ pc \notin {"idle", "finish"}
    /\ evictions + failures < MaxFaults
    /\ failures' = failures + 1
    /\ queued' = TRUE
    /\ EndPass
    /\ UNCHANGED <<outside, cr, pvc, want, abandoned>>

Pass ==
    \/ BeginPass
    \/ ListVolumesForStart
    \/ ListPodsForStart
    \/ DeleteForStart
    \/ Apply
    \/ ListVolumesForTrim
    \/ ListPodsForTrim
    \/ DeleteForTrim
    \/ Finish

-----------------------------------------------------------------------------
(***************************************************************************)
(* The user.                                                               *)
(***************************************************************************)
EditInstance ==
    /\ edits < MaxEdits
    /\ edits' = edits + 1
    /\ desired' \in [size : Sizes, class : Classes]
    /\ desired' # desired
    /\ queued' = TRUE
    /\ UNCHANGED <<pass, sts, pod, pvc, left, gate, evictions>>

-----------------------------------------------------------------------------
(***************************************************************************)
(* The cluster, which is not this repository's code: the operator, the     *)
(* StatefulSet controller, evictions and the protection of volumes in use. *)
(***************************************************************************)

\* The members of a set of ordinals are removed and leave their volumes behind.
Leave(os) == left' = left \cup { o \in os : Exists(o) }

OperatorCreates ==
    /\ cr.enabled
    /\ ~sts.enabled
    /\ sts' = cr
    /\ UNCHANGED <<pass, desired, pod, pvc, left, gate, queued, edits, evictions>>

\* The class of an existing StatefulSet is immutable: with another class the
\* operator is stuck and this action is not enabled.
OperatorScales ==
    /\ cr.enabled
    /\ sts.enabled
    /\ sts.class = cr.class
    /\ sts.size # cr.size
    /\ sts' = cr
    /\ Leave({ o \in Ordinals : o >= cr.size /\ pod[o] = "none" })
    /\ UNCHANGED <<pass, desired, pod, pvc, gate, queued, edits, evictions>>

\* Turned off, the StatefulSet goes with its pods and the volumes stay.
OperatorDeletes ==
    /\ ~cr.enabled
    /\ sts.enabled
    /\ sts' = Off
    /\ pod' = [o \in Ordinals |-> IF pod[o] = "none" THEN "none" ELSE "terminating"]
    /\ Leave(Ordinals)
    /\ UNCHANGED <<pass, desired, pvc, gate, queued, edits, evictions>>

\* Pods start in order; a member binds the volume of its ordinal if there is
\* one, and waits while that one is being deleted.
StartPod(o) ==
    /\ IsMember(sts, o)
    /\ pod[o] = "none"
    /\ \A p \in Ordinals : p < o => pod[p] = "running"
    /\ pvc[o] # "deleting"
    /\ pod' = [pod EXCEPT ![o] = "running"]
    /\ pvc' = [pvc EXCEPT ![o] = "present"]
    /\ left' = left \ {o}
    /\ UNCHANGED <<pass, desired, sts, gate, queued, edits, evictions>>

\* Scaling down removes the members from the new size up.
RemoveMember(o) ==
    /\ sts.enabled
    /\ o >= sts.size
    /\ pod[o] = "running"
    /\ pod' = [pod EXCEPT ![o] = "terminating"]
    /\ Leave({o})
    /\ UNCHANGED <<pass, desired, sts, pvc, gate, queued, edits, evictions>>

\* The member of an evicted pod comes back on its volume.
EvictPod(o) ==
    /\ o \in Evictable
    /\ evictions + failures < MaxFaults
    /\ evictions' = evictions + 1
    /\ pod[o] = "running"
    /\ pod' = [pod EXCEPT ![o] = "terminating"]
    /\ UNCHANGED <<pass, desired, sts, pvc, left, gate, queued, edits>>

PodGone(o) ==
    /\ pod[o] = "terminating"
    /\ pod' = [pod EXCEPT ![o] = "none"]
    /\ UNCHANGED <<pass, desired, sts, pvc, left, gate, queued, edits, evictions>>

\* A volume being deleted is held while a pod uses it.
ReleaseVolume(o) ==
    /\ pvc[o] = "deleting"
    /\ pod[o] = "none"
    /\ pvc' = [pvc EXCEPT ![o] = "none"]
    /\ left' = left \ {o}
    /\ abandoned' = abandoned \ {o}
    /\ UNCHANGED <<desired, cr, sts, pod, gate, queued, pc, want, next, listed, doomed,
                   edits, evictions, failures>>

\* The engine of a seeded Instance becomes ready, or stops being ready.  Both
\* change the status of the engine CR, which the provider watches.
EngineReadiness ==
    /\ Seeded
    /\ gate' = ~gate
    /\ queued' = TRUE
    /\ UNCHANGED <<pass, desired, sts, pod, pvc, left, edits, evictions>>

\* Any other event on a watched object, or the resync of the informers.  Pods
\* and volumes are not watched.
Resync ==
    /\ ~queued
    /\ queued' = TRUE
    /\ UNCHANGED <<pass, desired, sts, pod, pvc, left, gate, edits, evictions>>

Cluster ==
    \/ OperatorCreates
    \/ OperatorScales
    \/ OperatorDeletes
    \/ \E o \in Ordinals :
          StartPod(o) \/ RemoveMember(o) \/ PodGone(o) \/ ReleaseVolume(o)

Environment ==
    \/ EditInstance
    \/ EngineReadiness
    \/ Resync
    \/ \E o \in Ordinals : EvictPod(o)

Next == Pass \/ PassFails \/ Cluster \/ Environment

Spec == Init /\ [][Next]_vars

(***************************************************************************)
(* The fairness the scheduling gives.  A pass that was started runs on, a  *)
(* request that is queued is served, and the cluster does its part.  The   *)
(* user, evictions and failing calls are owed nothing, and neither is a    *)
(* resync: a start held back must not depend on one.                       *)
(***************************************************************************)
Operator == OperatorCreates \/ OperatorScales \/ OperatorDeletes

Fairness ==
    /\ WF_vars(Pass)
    /\ WF_vars(Operator)
    /\ WF_vars(EngineReadiness /\ gate')
    /\ \A o \in Ordinals :
          /\ WF_vars(StartPod(o))
          /\ WF_vars(RemoveMember(o))
          /\ WF_vars(PodGone(o))
          /\ WF_vars(ReleaseVolume(o))

FairSpec == Spec /\ Fairness

-----------------------------------------------------------------------------
Starts(o) == pod[o] = "none" /\ pod'[o] = "running"

(***************************************************************************)
(* Turned on again, hidden members never start on a volume that a pass     *)
(* found left behind by earlier ones: configureHidden holds them back      *)
(* until deleteHiddenVolumes reports none, and that count includes the     *)
(* volumes in use and those being deleted.                                 *)
(***************************************************************************)
NoStaleStart == [][\A o \in Ordinals : Starts(o) => o \notin abandoned]_vars

(***************************************************************************)
(* The provider only ever deletes the volume of an ordinal that the engine *)
(* CR no longer counts as a hidden member, whatever the user, the operator *)
(* and evictions do between the listing and the delete: SyncPSMDB applies  *)
(* the CR before it calls deleteUnusedHiddenVolumes with the same size.    *)
(***************************************************************************)
OnlyRemovedMembersLoseVolumes ==
    [][\A o \in Ordinals :
          pvc[o] = "present" /\ pvc'[o] = "deleting" => ~IsMember(cr, o)]_vars

(***************************************************************************)
(* The class in the engine CR never changes under running hidden members,  *)
(* however often the user edits it: configureHidden keeps the live class.  *)
(***************************************************************************)
RunningClassKept == [][cr.enabled /\ cr'.enabled => cr'.class = cr.class]_vars

(***************************************************************************)
(* Hidden members the Instance keeps asking for are started in the end:    *)
(* the volumes that hold the start back are all deleted, and the WaitFor   *)
(* of the pass that held it back brings the next one.                      *)
(***************************************************************************)
StartEventually == <>[](desired.size > 0) => <>[]cr.enabled

\* The operator cannot apply a class to a StatefulSet of another.
OperatorStuck == sts.enabled /\ cr.enabled /\ sts.class # cr.class

(***************************************************************************)
(* The volumes of removed hidden members are deleted in the end: those     *)
(* beyond the size the Instance settles on, all of them when it is zero    *)
(* (deleteUnusedHiddenVolumes).  Pods and volumes are not watched and the  *)
(* trim does not wait for them, so this takes passes that keep coming.     *)
(***************************************************************************)
TrimEventually ==
    \A n \in Sizes :
        []<>queued /\ <>[](desired.size = n /\ ~OperatorStuck)
            => <>[](\A o \in Ordinals : o >= n => pvc[o] = "none")

(***************************************************************************)
(* README.md: "The provider deletes the hidden members' volumes once their *)
(* pods are gone - also those left by scaling down - so hidden members     *)
(* added later start from a fresh copy."  A member that starts does not    *)
(* bind the volume of a removed one.                                       *)
(***************************************************************************)
FreshCopy == [][\A o \in Ordinals : Starts(o) => o \notin left]_vars

=============================================================================
