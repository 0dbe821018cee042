------------------------- MODULE HiddenMembersProofs -------------------------
(***************************************************************************)
(* Safety of HiddenMembers for every number of replicas, every set of      *)
(* sizes and classes, and every bound on edits, evictions and failures.    *)
(***************************************************************************)
EXTENDS HiddenMembers, TLAPS

USE DEF Ordinals, StartSteps, TrimSteps, Steps

(***************************************************************************)
(* What one step needs to know about the steps before it.  None of the     *)
(* three properties is inductive by itself: a volume is deleted, and the   *)
(* CR applied, several steps after the reads they rest on.                 *)
(***************************************************************************)

\* While a volume found abandoned is there, hidden members are off in the CR
\* and in the cluster, and no pass is about to turn them on.
HeldBack ==
    /\ \A o \in abandoned : Exists(o)
    /\ abandoned # {} => ~cr.enabled /\ ~sts.enabled /\ ~next.enabled

\* Before Apply the pass goes by the CR it read, after Apply by the CR it wrote.
PassMatchesCR ==
    /\ pc \in StartSteps => ~cr.enabled
    /\ pc \in TrimSteps => cr = next
    /\ pc = "apply" /\ cr.enabled /\ next.enabled => next.class = cr.class
    /\ next.enabled => next.size = want.size

\* A trim has its eyes on the ordinals from the wanted size up only.
TrimAboveSize ==
    pc \in {"podsForTrim", "deleteForTrim"} => \A o \in listed : o >= want.size

IInv == TypeOK /\ HeldBack /\ PassMatchesCR /\ TrimAboveSize

\* Sizes are numbers.
LEMMA SizesAreIntegers == \A n \in Sizes : n \in Int
BY ReplicasAssumption

\* The initial states satisfy the invariant.
LEMMA InitIInv == Init => IInv
BY ReplicasAssumption, BoundsAssumption, SeededAssumption
   DEF Init, IInv, TypeOK, HeldBack, PassMatchesCR, TrimAboveSize, HiddenSpec, Off, Exists

\* Every step keeps the type invariant.
LEMMA TypeStep == TypeOK /\ [Next]_vars => TypeOK'
<1> SUFFICES ASSUME TypeOK, [Next]_vars PROVE TypeOK'
  BY DEF IInv
<1> USE ReplicasAssumption, BoundsAssumption, SeededAssumption DEF TypeOK
<1>1. CASE BeginPass
  <2>1. next' \in HiddenSpec
    <3>1. desired.size \in 0..MaxReplicas /\ cr.class \in Classes \cup {NoClass}
      BY DEF HiddenSpec
    <3>2. On(desired.size, cr.class) \in HiddenSpec
      BY <3>1 DEF HiddenSpec, On
    <3>3. Off \in HiddenSpec
      BY DEF HiddenSpec, Off
    <3> QED
      BY <1>1, <3>2, <3>3 DEF BeginPass
  <2> QED
    BY <1>1, <2>1 DEF BeginPass, outside
<1>2. CASE ListVolumesForStart
  <2>1. next' \in HiddenSpec
    <3>1. want.size \in 0..MaxReplicas /\ want.class \in Classes \cup {NoClass}
      OBVIOUS
    <3>2. On(want.size, want.class) \in HiddenSpec
      BY <3>1 DEF HiddenSpec, On
    <3>3. Off \in HiddenSpec
      BY DEF HiddenSpec, Off
    <3> QED
      BY <1>2, <3>2, <3>3 DEF ListVolumesForStart
  <2> QED
    BY <1>2, <2>1 DEF ListVolumesForStart, ListVolumes, Listed, outside
<1>3. CASE ListPodsForStart
  BY <1>3 DEF ListPodsForStart, ListPods, outside, pass
<1>4. CASE DeleteForStart
  BY <1>4 DEF DeleteForStart, DeleteVolume, DeletesSent, Exists, outside, pass
<1>5. CASE Apply
  BY <1>5 DEF Apply, outside, pass
<1>6. CASE ListVolumesForTrim
  BY <1>6 DEF ListVolumesForTrim, ListVolumes, Listed, Exists, outside, pass
<1>7. CASE ListPodsForTrim
  BY <1>7 DEF ListPodsForTrim, ListPods, outside, pass
<1>8. CASE DeleteForTrim
  BY <1>8 DEF DeleteForTrim, DeleteVolume, DeletesSent, Exists, outside, pass
<1>9. CASE Finish
  BY <1>9 DEF Finish, EndPass, HiddenSpec, Off, outside
<1>10. CASE PassFails
  BY <1>10 DEF PassFails, EndPass, HiddenSpec, Off, outside
<1>11. CASE EditInstance
  BY <1>11 DEF EditInstance, outside, pass
<1>12. CASE OperatorCreates
  BY <1>12 DEF OperatorCreates, outside, pass
<1>13. CASE OperatorScales
  BY <1>13 DEF OperatorScales, Leave, outside, pass
<1>14. CASE OperatorDeletes
  <2>1. pod' \in [Ordinals -> {"none", "running", "terminating"}]
    BY <1>14 DEF OperatorDeletes
  <2>2. sts' \in HiddenSpec
    BY <1>14 DEF OperatorDeletes, HiddenSpec, Off
  <2> QED
    BY <1>14, <2>1, <2>2 DEF OperatorDeletes, Leave, pass
<1>15. CASE EngineReadiness
  BY <1>15 DEF EngineReadiness, outside, pass
<1>16. CASE Resync
  BY <1>16 DEF Resync, outside, pass
<1>17. CASE \E o \in Ordinals : StartPod(o)
  BY <1>17 DEF StartPod, IsMember, outside, pass
<1>18. CASE \E o \in Ordinals : RemoveMember(o)
  BY <1>18 DEF RemoveMember, Leave, outside, pass
<1>19. CASE \E o \in Ordinals : EvictPod(o)
  BY <1>19 DEF EvictPod, outside, pass
<1>20. CASE \E o \in Ordinals : PodGone(o)
  BY <1>20 DEF PodGone, outside, pass
<1>21. CASE \E o \in Ordinals : ReleaseVolume(o)
  BY <1>21 DEF ReleaseVolume, outside, pass
<1>22. CASE UNCHANGED vars
  BY <1>22 DEF vars
<1>23. QED
  BY <1>1, <1>2, <1>3, <1>4, <1>5, <1>6, <1>7, <1>8, <1>9, <1>10, <1>11, <1>12, <1>13, <1>14, <1>15, <1>16, <1>17, <1>18, <1>19, <1>20, <1>21, <1>22 DEF Next, Pass, Cluster, Environment

\* The start stays held back.
LEMMA HeldStep == IInv /\ [Next]_vars => HeldBack'
<1> SUFFICES ASSUME TypeOK, HeldBack, PassMatchesCR, [Next]_vars PROVE HeldBack'
  BY DEF IInv
<1> USE ReplicasAssumption, BoundsAssumption, SeededAssumption DEF HeldBack, TypeOK, PassMatchesCR, Exists, HiddenSpec
<1>1. CASE BeginPass
  BY <1>1 DEF BeginPass, On, Off, outside, pass
<1>2. CASE ListVolumesForStart
  <2>1. ~cr.enabled /\ cr' = cr /\ sts' = sts /\ pvc' = pvc
    BY <1>2 DEF ListVolumesForStart, ListVolumes, outside
  <2>2. abandoned \subseteq Listed(0)
    BY DEF Listed
  <2>3. CASE Listed(0) = {}
    BY <1>2, <2>1, <2>2, <2>3 DEF ListVolumesForStart
  <2>4. CASE Listed(0) # {}
    <3>1. next' = Off
      BY <1>2, <2>4 DEF ListVolumesForStart, HoldStart
    <3>2. abandoned' \subseteq Listed(0)
      BY <1>2, <2>2 DEF ListVolumesForStart
    <3>3. sts.enabled => abandoned' = {}
      BY <1>2 DEF ListVolumesForStart
    <3> QED
      BY <2>1, <3>1, <3>2, <3>3 DEF Off, Listed
  <2> QED
    BY <2>3, <2>4
<1>3. CASE ListPodsForStart
  BY <1>3 DEF ListPodsForStart, ListPods, outside, pass
<1>4. CASE DeleteForStart
  BY <1>4 DEF DeleteForStart, DeleteVolume, DeletesSent, Exists, outside, pass
<1>5. CASE Apply
  BY <1>5 DEF Apply, outside, pass
<1>6. CASE ListVolumesForTrim
  BY <1>6 DEF ListVolumesForTrim, ListVolumes, Listed, Exists, outside, pass
<1>7. CASE ListPodsForTrim
  BY <1>7 DEF ListPodsForTrim, ListPods, outside, pass
<1>8. CASE DeleteForTrim
  BY <1>8 DEF DeleteForTrim, DeleteVolume, DeletesSent, Exists, outside, pass
<1>9. CASE Finish
  BY <1>9 DEF Finish, EndPass, Off, outside, pass
<1>10. CASE PassFails
  BY <1>10 DEF PassFails, EndPass, Off, outside, pass
<1>11. CASE EditInstance
  BY <1>11 DEF EditInstance, outside, pass
<1>12. CASE OperatorCreates
  BY <1>12 DEF OperatorCreates, outside, pass
<1>13. CASE OperatorScales
  BY <1>13 DEF OperatorScales, Leave, outside, pass
<1>14. CASE OperatorDeletes
  BY <1>14 DEF OperatorDeletes, Leave, Off, outside, pass
<1>15. CASE EngineReadiness
  BY <1>15 DEF EngineReadiness, outside, pass
<1>16. CASE Resync
  BY <1>16 DEF Resync, outside, pass
<1>17. CASE \E o \in Ordinals : StartPod(o)
  BY <1>17 DEF StartPod, IsMember, outside, pass
<1>18. CASE \E o \in Ordinals : RemoveMember(o)
  BY <1>18 DEF RemoveMember, Leave, outside, pass
<1>19. CASE \E o \in Ordinals : EvictPod(o)
  BY <1>19 DEF EvictPod, outside, pass
<1>20. CASE \E o \in Ordinals : PodGone(o)
  BY <1>20 DEF PodGone, outside, pass
<1>21. CASE \E o \in Ordinals : ReleaseVolume(o)
  BY <1>21 DEF ReleaseVolume, outside, pass
<1>22. CASE UNCHANGED vars
  BY <1>22 DEF vars
<1>23. QED
  BY <1>1, <1>2, <1>3, <1>4, <1>5, <1>6, <1>7, <1>8, <1>9, <1>10, <1>11, <1>12, <1>13, <1>14, <1>15, <1>16, <1>17, <1>18, <1>19, <1>20, <1>21, <1>22 DEF Next, Pass, Cluster, Environment

\* The pass stays in step with the CR.
LEMMA PassStep == IInv /\ [Next]_vars => PassMatchesCR'
<1> SUFFICES ASSUME TypeOK, PassMatchesCR, [Next]_vars PROVE PassMatchesCR'
  BY DEF IInv
<1> USE ReplicasAssumption, BoundsAssumption, SeededAssumption DEF TypeOK, PassMatchesCR
<1>1. CASE BeginPass
  BY <1>1 DEF BeginPass, On, Off, outside, pass
<1>2. CASE ListVolumesForStart
  BY <1>2 DEF ListVolumesForStart, ListVolumes, Listed, HoldStart, On, Off, Exists, outside, pass
<1>3. CASE ListPodsForStart
  BY <1>3 DEF ListPodsForStart, ListPods, outside, pass
<1>4. CASE DeleteForStart
  BY <1>4 DEF DeleteForStart, DeleteVolume, DeletesSent, Exists, outside, pass
<1>5. CASE Apply
  BY <1>5 DEF Apply, outside, pass
<1>6. CASE ListVolumesForTrim
  BY <1>6 DEF ListVolumesForTrim, ListVolumes, Listed, Exists, outside, pass
<1>7. CASE ListPodsForTrim
  BY <1>7 DEF ListPodsForTrim, ListPods, outside, pass
<1>8. CASE DeleteForTrim
  BY <1>8 DEF DeleteForTrim, DeleteVolume, DeletesSent, Exists, outside, pass
<1>9. CASE Finish
  BY <1>9 DEF Finish, EndPass, Off, outside, pass
<1>10. CASE PassFails
  BY <1>10 DEF PassFails, EndPass, Off, outside, pass
<1>11. CASE EditInstance
  BY <1>11 DEF EditInstance, outside, pass
<1>12. CASE OperatorCreates
  BY <1>12 DEF OperatorCreates, outside, pass
<1>13. CASE OperatorScales
  BY <1>13 DEF OperatorScales, Leave, outside, pass
<1>14. CASE OperatorDeletes
  BY <1>14 DEF OperatorDeletes, Leave, Off, outside, pass
<1>15. CASE EngineReadiness
  BY <1>15 DEF EngineReadiness, outside, pass
<1>16. CASE Resync
  BY <1>16 DEF Resync, outside, pass
<1>17. CASE \E o \in Ordinals : StartPod(o)
  BY <1>17 DEF StartPod, IsMember, outside, pass
<1>18. CASE \E o \in Ordinals : RemoveMember(o)
  BY <1>18 DEF RemoveMember, Leave, outside, pass
<1>19. CASE \E o \in Ordinals : EvictPod(o)
  BY <1>19 DEF EvictPod, outside, pass
<1>20. CASE \E o \in Ordinals : PodGone(o)
  BY <1>20 DEF PodGone, outside, pass
<1>21. CASE \E o \in Ordinals : ReleaseVolume(o)
  BY <1>21 DEF ReleaseVolume, outside, pass
<1>22. CASE UNCHANGED vars
  BY <1>22 DEF vars
<1>23. QED
  BY <1>1, <1>2, <1>3, <1>4, <1>5, <1>6, <1>7, <1>8, <1>9, <1>10, <1>11, <1>12, <1>13, <1>14, <1>15, <1>16, <1>17, <1>18, <1>19, <1>20, <1>21, <1>22 DEF Next, Pass, Cluster, Environment

\* The trim keeps to the ordinals it may touch.
LEMMA TrimStep == IInv /\ [Next]_vars => TrimAboveSize'
<1> SUFFICES ASSUME TypeOK, TrimAboveSize, [Next]_vars PROVE TrimAboveSize'
  BY DEF IInv
<1> USE ReplicasAssumption, BoundsAssumption, SeededAssumption DEF TypeOK, TrimAboveSize
<1>1. CASE BeginPass
  BY <1>1 DEF BeginPass, On, Off, outside, pass
<1>2. CASE ListVolumesForStart
  BY <1>2 DEF ListVolumesForStart, ListVolumes, Listed, HoldStart, On, Off, Exists, outside, pass
<1>3. CASE ListPodsForStart
  BY <1>3 DEF ListPodsForStart, ListPods, outside, pass
<1>4. CASE DeleteForStart
  BY <1>4 DEF DeleteForStart, DeleteVolume, DeletesSent, Exists, outside, pass
<1>5. CASE Apply
  BY <1>5 DEF Apply, outside, pass
<1>6. CASE ListVolumesForTrim
  BY <1>6 DEF ListVolumesForTrim, ListVolumes, Listed, Exists, outside, pass
<1>7. CASE ListPodsForTrim
  BY <1>7 DEF ListPodsForTrim, ListPods, outside, pass
<1>8. CASE DeleteForTrim
  BY <1>8 DEF DeleteForTrim, DeleteVolume, DeletesSent, Exists, outside, pass
<1>9. CASE Finish
  BY <1>9 DEF Finish, EndPass, Off, outside, pass
<1>10. CASE PassFails
  BY <1>10 DEF PassFails, EndPass, Off, outside, pass
<1>11. CASE EditInstance
  BY <1>11 DEF EditInstance, outside, pass
<1>12. CASE OperatorCreates
  BY <1>12 DEF OperatorCreates, outside, pass
<1>13. CASE OperatorScales
  BY <1>13 DEF OperatorScales, Leave, outside, pass
<1>14. CASE OperatorDeletes
  BY <1>14 DEF OperatorDeletes, Leave, Off, outside, pass
<1>15. CASE EngineReadiness
  BY <1>15 DEF EngineReadiness, outside, pass
<1>16. CASE Resync
  BY <1>16 DEF Resync, outside, pass
<1>17. CASE \E o \in Ordinals : StartPod(o)
  BY <1>17 DEF StartPod, IsMember, outside, pass
<1>18. CASE \E o \in Ordinals : RemoveMember(o)
  BY <1>18 DEF RemoveMember, Leave, outside, pass
<1>19. CASE \E o \in Ordinals : EvictPod(o)
  BY <1>19 DEF EvictPod, outside, pass
<1>20. CASE \E o \in Ordinals : PodGone(o)
  BY <1>20 DEF PodGone, outside, pass
<1>21. CASE \E o \in Ordinals : ReleaseVolume(o)
  BY <1>21 DEF ReleaseVolume, outside, pass
<1>22. CASE UNCHANGED vars
  BY <1>22 DEF vars
<1>23. QED
  BY <1>1, <1>2, <1>3, <1>4, <1>5, <1>6, <1>7, <1>8, <1>9, <1>10, <1>11, <1>12, <1>13, <1>14, <1>15, <1>16, <1>17, <1>18, <1>19, <1>20, <1>21, <1>22 DEF Next, Pass, Cluster, Environment

\* The strengthened invariant is inductive.
LEMMA IInvInvariant == Spec => []IInv
<1>1. IInv /\ [Next]_vars => IInv'
  BY TypeStep, HeldStep, PassStep, TrimStep DEF IInv
<1> QED
  BY InitIInv, <1>1, PTL DEF Spec

(***************************************************************************)
(* Every variable keeps its type; in particular a pass only ever dooms     *)
(* volumes it has listed (deleteHiddenVolumes).                            *)
(***************************************************************************)
THEOREM TypeCorrect == Spec => []TypeOK
<1>1. IInv => TypeOK
  BY DEF IInv
<1> QED
  BY IInvInvariant, <1>1, PTL

(***************************************************************************)
(* Hidden members turned on again never start on a volume that a pass      *)
(* found left behind: while one is there neither the CR nor the cluster    *)
(* has hidden members, and only a StatefulSet starts pods.                 *)
(***************************************************************************)
THEOREM HiddenStartFresh == Spec => NoStaleStart
<1>1. IInv /\ [Next]_vars => [\A o \in Ordinals : Starts(o) => o \notin abandoned]_vars
  <2> SUFFICES ASSUME IInv, Next, NEW o \in Ordinals, Starts(o)
               PROVE  abandoned = {}
    OBVIOUS
  <2>1. \E p \in Ordinals : StartPod(p)
    <3>1. pod' # pod
      BY DEF Starts
    <3>2. PICK p \in Ordinals : StartPod(p) \/ RemoveMember(p) \/ PodGone(p)
                                \/ EvictPod(p) \/ OperatorDeletes
      BY <3>1 DEF Next, Pass, Cluster, Environment, BeginPass, ListVolumesForStart,
           ListPodsForStart, DeleteForStart, Apply, ListVolumesForTrim, ListPodsForTrim,
           DeleteForTrim, Finish, PassFails, ListVolumes, ListPods, DeleteVolume,
           DeletesSent, EditInstance, OperatorCreates, OperatorScales, EngineReadiness,
           Resync, ReleaseVolume, outside
    <3> QED
      BY <3>2 DEF Starts, RemoveMember, PodGone, EvictPod, OperatorDeletes, IInv, TypeOK
  <2> QED
    BY <2>1 DEF StartPod, IsMember, IInv, HeldBack
<1> QED
  BY IInvInvariant, <1>1, PTL DEF NoStaleStart, Spec

(***************************************************************************)
(* A delete sent by a pass never hits a member of the engine CR: in a      *)
(* start the CR has no hidden members, and a trim runs after Apply, on     *)
(* ordinals from the applied size up (deleteUnusedHiddenVolumes).          *)
(***************************************************************************)
THEOREM MembersKeepVolumes == Spec => OnlyRemovedMembersLoseVolumes
<1>1. IInv /\ [Next]_vars
        => [\A o \in Ordinals :
              pvc[o] = "present" /\ pvc'[o] = "deleting" => ~IsMember(cr, o)]_vars
  <2> SUFFICES ASSUME IInv, Next, NEW o \in Ordinals,
                      pvc[o] = "present", pvc'[o] = "deleting"
               PROVE  ~IsMember(cr, o)
    OBVIOUS
  <2> USE DEF IInv, TypeOK
  <2>1. DeleteForStart \/ DeleteForTrim
    BY DEF Next, Pass, Cluster, Environment, BeginPass, ListVolumesForStart, ListPodsForStart,
         Apply, ListVolumesForTrim, ListPodsForTrim, Finish, PassFails, ListVolumes, ListPods,
         EditInstance, OperatorCreates, OperatorScales, OperatorDeletes, EngineReadiness,
         Resync, StartPod, RemoveMember, EvictPod, PodGone, ReleaseVolume
  <2>2. o \in listed
    BY <2>1 DEF DeleteForStart, DeleteForTrim, DeleteVolume, DeletesSent
  <2>3. CASE DeleteForStart
    BY <2>3 DEF DeleteForStart, PassMatchesCR, IsMember
  <2>4. CASE DeleteForTrim
    <3>1. cr = next /\ o >= want.size
      BY <2>2, <2>4 DEF DeleteForTrim, PassMatchesCR, TrimAboveSize
    <3>2. next.enabled => next.size = want.size
      BY DEF PassMatchesCR
    <3>3. want.size \in Sizes
      OBVIOUS
    <3> HIDE DEF IInv
    <3>4. want.size \in Int
      BY <3>3, SizesAreIntegers
    <3> QED
      BY <3>1, <3>2, <3>4 DEF IsMember
  <2> QED
    BY <2>1, <2>3, <2>4
<1> QED
  BY IInvInvariant, <1>1, PTL DEF OnlyRemovedMembersLoseVolumes, Spec

(***************************************************************************)
(* The class of running hidden members never changes in the engine CR: a   *)
(* pass that would apply them applies the class it read, and nobody else   *)
(* writes rs.Hidden (configureHidden).                                     *)
(***************************************************************************)
THEOREM ClassKept == Spec => RunningClassKept
<1>1. IInv /\ [Next]_vars => [cr.enabled /\ cr'.enabled => cr'.class = cr.class]_vars
  <2> SUFFICES ASSUME IInv, Next, cr.enabled, cr'.enabled
               PROVE  cr'.class = cr.class
    OBVIOUS
  <2>1. cr' = cr \/ Apply
    BY DEF Next, Pass, Cluster, Environment, BeginPass, ListVolumesForStart, ListPodsForStart,
         DeleteForStart, DeleteForTrim, DeleteVolume, DeletesSent, ListVolumesForTrim,
         ListPodsForTrim, Finish, PassFails, ListVolumes, ListPods, EditInstance,
         OperatorCreates, OperatorScales, OperatorDeletes, EngineReadiness, Resync, StartPod,
         RemoveMember, EvictPod, PodGone, ReleaseVolume, pass
  <2> QED
    BY <2>1 DEF Apply, IInv, PassMatchesCR
<1> QED
  BY IInvInvariant, <1>1, PTL DEF RunningClassKept, Spec

-----------------------------------------------------------------------------
(***************************************************************************)
(* SyncPSMDB at rest.  When no pass runs and none is queued the engine CR  *)
(* has the hidden members the Instance asks for; only the data source      *)
(* block may have kept the WaitFor from asking for the pass that starts    *)
(* them, and then the readiness of the engine brings it.                   *)
(***************************************************************************)
RestMatches ==
    pc = "idle" /\ ~queued =>
        /\ cr.enabled => desired.size > 0 /\ cr.size = desired.size
        /\ gate /\ desired.size > 0 => cr.enabled

\* A pass works on the Instance as it is, or another one is queued.
RestHeld ==
    /\ RestMatches
    /\ pc # "idle" => queued \/ want = desired
    /\ next.enabled \/ pc \in StartSteps => want.size > 0
    /\ pc = "finish" => cr = next

\* What the steps of a pass before its end, and those of the cluster and of
\* evictions, leave alone.
LEMMA RestFrame ==
    ASSUME RestHeld, UNCHANGED <<desired, cr, gate, queued, want, next>>,
           pc' = pc \/ (pc # "idle" /\ pc' # "idle"), pc' = "finish" => pc = "finish" \/ cr = next,
           pc' \in StartSteps => pc \in StartSteps
    PROVE  RestHeld'
BY DEF RestHeld, RestMatches

\* Every step keeps the CR in line with the Instance, or leaves a pass to come.
LEMMA RestStep == IInv /\ RestHeld /\ [Next]_vars => RestHeld'
<1> SUFFICES ASSUME IInv, RestHeld, [Next]_vars PROVE RestHeld'
  OBVIOUS
<1>1. CASE BeginPass
  <2>1. want' = desired /\ desired' = desired /\ pc' \in {"apply", "listForStart"}
    BY <1>1 DEF BeginPass, outside
  <2>2. next'.enabled \/ pc' = "listForStart" => desired.size > 0
    BY <1>1 DEF BeginPass, Off
  <2> QED
    BY <2>1, <2>2 DEF RestHeld, RestMatches
<1>2. CASE ListVolumesForStart
  <2>1. /\ UNCHANGED <<desired, gate, queued, want>>
        /\ pc = "listForStart" /\ pc' \in {"apply", "podsForStart"}
    BY <1>2 DEF ListVolumesForStart, ListVolumes, outside
  <2>2. want.size > 0
    BY <2>1 DEF RestHeld
  <2> QED
    BY <2>1, <2>2 DEF RestHeld, RestMatches
<1>3. CASE ListPodsForStart \/ DeleteForStart
  <2>1. /\ UNCHANGED <<desired, cr, gate, queued, want, next>>
        /\ pc \in StartSteps /\ pc' \notin {"idle", "finish"}
    BY <1>3 DEF ListPodsForStart, ListPods, DeleteForStart, DeleteVolume, DeletesSent, outside
  <2> QED
    BY <2>1, RestFrame
<1>4. CASE Apply
  BY <1>4 DEF Apply, outside, RestHeld, RestMatches
<1>5. CASE ListVolumesForTrim \/ ListPodsForTrim \/ DeleteForTrim
  <2>1. /\ UNCHANGED <<desired, cr, gate, queued, want, next>>
        /\ pc \in TrimSteps /\ pc' \in TrimSteps \cup {"finish"}
    BY <1>5 DEF ListVolumesForTrim, ListVolumes, ListPodsForTrim, ListPods, DeleteForTrim,
                DeleteVolume, DeletesSent, outside
  <2>2. cr = next
    BY <2>1 DEF IInv, PassMatchesCR
  <2> QED
    BY <2>1, <2>2, RestFrame
<1>6. CASE Finish
  <2>1. /\ UNCHANGED <<desired, cr, gate, want>> /\ next' = Off /\ pc = "finish" /\ pc' = "idle"
    BY <1>6 DEF Finish, EndPass, outside
  <2>2. ASSUME ~queued' PROVE ~queued /\ ~(gate /\ want.size > 0 /\ ~next.enabled)
    BY <1>6, <2>2, Zenon DEF Finish, hiddenStartPending
  <2>3. cr = next /\ (~queued => want = desired)
    BY <2>1 DEF RestHeld
  <2>4. next.enabled => next.size = want.size /\ want.size > 0
    BY DEF RestHeld, IInv, PassMatchesCR
  <2>5. RestMatches'
    BY <2>1, <2>2, <2>3, <2>4 DEF RestMatches
  <2> QED
    BY <2>1, <2>5 DEF RestHeld, Off
<1>7. CASE PassFails
  BY <1>7 DEF PassFails, EndPass, Off, outside, RestHeld, RestMatches
<1>8. CASE EditInstance \/ EngineReadiness \/ Resync
  <2>1. queued' /\ UNCHANGED <<cr, pc, want, next>>
    BY <1>8 DEF EditInstance, EngineReadiness, Resync, pass
  <2> QED
    BY <2>1 DEF RestHeld, RestMatches
<1>9. CASE Cluster \/ (\E o \in Ordinals : EvictPod(o)) \/ UNCHANGED vars
  <2>1. UNCHANGED <<desired, cr, gate, queued, pc, want, next>>
    BY <1>9 DEF Cluster, OperatorCreates, OperatorScales, OperatorDeletes, StartPod, RemoveMember,
                PodGone, ReleaseVolume, EvictPod, pass, vars
  <2> QED
    BY <2>1, RestFrame
<1> QED
  BY <1>1, <1>2, <1>3, <1>4, <1>5, <1>6, <1>7, <1>8, <1>9 DEF Next, Pass, Environment

(***************************************************************************)
(* SyncPSMDB never comes to rest with hidden members that differ from what *)
(* the Instance asks for: no edit, failed call or start held back is       *)
(* forgotten, though pods and volumes are not watched.                     *)
(***************************************************************************)
THEOREM RestIsRight == Spec => []RestMatches
<1>1. Init => RestHeld
  BY DEF Init, RestHeld, RestMatches, Off
<1>2. IInv /\ RestHeld /\ [Next]_vars => RestHeld'
  BY RestStep
<1>3. RestHeld => RestMatches
  BY DEF RestHeld
<1> QED
  BY <1>1, <1>2, <1>3, IInvInvariant, PTL DEF Spec
=============================================================================
