-------------------------- MODULE RuntimeConfigProofs --------------------------
(***************************************************************************)
(* Theorems about the Landscape and ProviderConfig controllers, for any    *)
(* number of Landscapes and ProviderConfigs and any number of failures.    *)
(***************************************************************************)
EXTENDS RuntimeInvariant, TLAPS

\* A fault leaves the count of faults within its bound.
LEMMA FaultsType ==
  ASSUME faults \in 0..MaxFaults, Fault \/ NoFault
  PROVE  faults' \in 0..MaxFaults
  BY ConstantsAssumption DEF Fault, NoFault

\* An ended reconcile leaves the worker idle.
LEMMA EndType ==
  ASSUME queue \in SUBSET Resources, w.n \in Resources, NEW failed, EndReconcile(failed)
  PROVE  w' = Idle /\ queue' \in SUBSET Resources
  BY DEF EndReconcile, Retry

\* Starting a reconcile keeps the types.
LEMMA StartType ==
  ASSUME TypeOK,
         \/ \E l \in Landscapes : StartLandscape(l)
         \/ \E p \in Configs : StartConfig(p)
  PROVE  TypeOK'
<1> USE DEF TypeOK, resourceVars, landscapeVars, profileVars
<1>1. Landscapes \subseteq Resources /\ Configs \subseteq Resources
  BY DEF Resources
<1>2. ASSUME NEW n \in Resources, ReadFails(n) PROVE TypeOK'
  BY <1>1, <1>2, FaultsType
  DEF ReadFails, RetryUnknown, Concerned, Referencing, Idle, WorkerType, LandscapeCalls,
      ConfigCalls
<1>3. ASSUME NEW l \in Landscapes, ForgetLandscape(l) PROVE TypeOK'
  BY <1>1, <1>3, FaultsType DEF ForgetLandscape, Unregistered, Concerned, Referencing, WorkerType
<1>4. ASSUME NEW p \in Configs, ForgetConfig(p) PROVE TypeOK'
  BY <1>1, <1>4, FaultsType DEF ForgetConfig, WorkerType
<1>5. ASSUME NEW l \in Landscapes, ReadLiveLandscape(l) PROVE TypeOK'
  BY <1>1, <1>5, FaultsType
  DEF ReadLiveLandscape, Call, Idle, WorkerType, LandscapeCalls, ConfigCalls
<1>6. ASSUME NEW l \in Landscapes, ReadDeletingLandscape(l) PROVE TypeOK'
  <2>1. CASE w' = [Idle EXCEPT !.pc = "releaseLandscape", !.n = l] /\ UNCHANGED landscapeVars
    BY <1>1, <1>6, <2>1, FaultsType
    DEF ReadDeletingLandscape, DeletingLandscape, Woken, Referencing, Idle, WorkerType,
        LandscapeCalls, ConfigCalls
  <2>2. CASE /\ w' = [Idle EXCEPT !.pc = "status", !.n = l, !.project = (l \in projects)]
             /\ Registered(l, "noclient", l \in projects)
    <3>1. (l \in projects) \in BOOLEAN
      OBVIOUS
    <3>2. WorkerType'
      BY <1>1, <2>2, <3>1 DEF Idle, WorkerType, LandscapeCalls, ConfigCalls
    <3> QED
      BY <1>1, <1>6, <2>2, <3>2, FaultsType
      DEF ReadDeletingLandscape, DeletingLandscape, Registered, Woken, Referencing
  <2> QED
    BY <1>6, <2>1, <2>2 DEF ReadDeletingLandscape, DeletingLandscape, Call
<1>7. ASSUME NEW p \in Configs, ReadConfig(p) PROVE TypeOK'
  BY <1>1, <1>7, FaultsType
  DEF ReadConfig, NextConfigCall, Idle, WorkerType, LandscapeCalls, ConfigCalls
<1> QED
  BY <1>1, <1>2, <1>3, <1>4, <1>5, <1>6, <1>7 DEF StartLandscape, StartConfig

\* The calls of the worker keep the types.
LEMMA StepType ==
  ASSUME TypeOK, Step
  PROVE  TypeOK'
<1> USE DEF TypeOK, resourceVars, landscapeVars, profileVars, WorkerType,
            LandscapeCalls, ConfigCalls
<1>1. Landscapes \subseteq Resources /\ Configs \subseteq Resources
      /\ Landscapes \cap Configs = {}
  BY ConstantsAssumption DEF Resources
<1>2. CASE AddFinalizer
  <2>1. WorkerType'
    <3>1. CASE w.n \in Landscapes
      BY <1>1, <1>2, <3>1 DEF AddFinalizer
    <3>2. CASE w.n \in Configs
      BY <1>1, <1>2, <3>2 DEF AddFinalizer
    <3> QED
      BY <1>2, <3>1, <3>2 DEF AddFinalizer
  <2> QED
    BY <1>1, <1>2, <2>1, FaultsType DEF AddFinalizer
<1>3. CASE AddFinalizerFails
  BY <1>1, <1>3, FaultsType DEF AddFinalizerFails, RetryUnknown, Concerned, Referencing, Idle
<1>4. CASE ReleaseFails
  BY <1>1, <1>4, FaultsType DEF ReleaseFails, Released, RetryUnknown, Concerned, Referencing, Idle
<1>5. CASE RegisterLandscape
  <2>1. PICK a : Outcome(w.n, a)
    BY <1>5 DEF RegisterLandscape
  <2>2. Fault \/ NoFault
    BY <1>5 DEF RegisterLandscape
  <2> DEFINE project == a = "granted" \/ (a \in {"none", "denied"} /\ w.n \in projects)
             failed == a \in {"none", "denied"}
  <2>3. project \in BOOLEAN /\ failed \in BOOLEAN
    OBVIOUS
  <2>4. w' = [w EXCEPT !.pc = "status", !.project = project, !.failed = failed]
    BY <2>1 DEF Outcome
  <2>5. w.n \in Landscapes
    BY <1>5 DEF RegisterLandscape
  <2>6. WorkerType'
    <3> HIDE DEF project, failed
    <3> QED
      BY <2>3, <2>4, <2>5
  <2>7. /\ landscapes' \in [Landscapes -> {"unknown", "noclient", "ready"}]
        /\ offers' \in SUBSET Landscapes /\ watch' \in SUBSET Landscapes
        /\ queue' \in SUBSET Resources
    BY <1>1, <2>1, <2>5 DEF Outcome, Registered, Woken, Referencing
  <2> QED
    BY <1>5, <2>2, <2>6, <2>7, FaultsType DEF RegisterLandscape
<1>6. CASE InformerFails
  BY <1>1, <1>6, FaultsType DEF InformerFails, Unregistered, Woken, Referencing
<1>7. CASE UpdateLandscapeStatus
  <2>1. w.n \in Landscapes /\ (Fault \/ NoFault) /\ projects' \in SUBSET Landscapes
    BY <1>7 DEF UpdateLandscapeStatus
  <2>2. EndReconcile(w.failed) \/ EndReconcile(TRUE)
    BY <1>7 DEF UpdateLandscapeStatus
  <2>3. w' = Idle /\ queue' \in SUBSET Resources
    BY <1>1, <2>1, <2>2, EndType
  <2> QED
    BY <1>7, <2>1, <2>3, FaultsType DEF UpdateLandscapeStatus, Idle
<1>8. CASE ReleaseLandscape
  BY <1>1, <1>8, FaultsType DEF ReleaseLandscape, Released, Unregistered, Idle
<1>9. CASE LookupFails
  BY <1>1, <1>9, FaultsType DEF LookupFails, SetProviderConfiguration, Retry, Idle
<1>10. CASE LookupPanics
  BY <1>1, <1>10, FaultsType DEF LookupPanics, Retry, Idle
<1>11. CASE Lookup
  BY <1>1, <1>11, FaultsType DEF Lookup
<1>12. CASE Publish
  <2>1. /\ w.n \in Configs /\ w.spec \in Specs /\ (Fault \/ NoFault)
        /\ EndReconcile(FALSE) \/ EndReconcile(TRUE)
    BY <1>12 DEF Publish
  <2>2. w' = Idle /\ queue' \in SUBSET Resources
    BY <1>1, <2>1, EndType
  <2> QED
    BY <1>12, <2>1, <2>2, FaultsType DEF Publish, SetProviderConfiguration, Idle
<1>13. CASE PublishFails
  BY <1>1, <1>13, FaultsType DEF PublishFails, Retry, Idle
<1>14. CASE Unpublish
  BY <1>1, <1>14, FaultsType DEF Unpublish
<1>15. CASE UnpublishFails
  BY <1>1, <1>15, FaultsType DEF UnpublishFails, Retry, Idle
<1>16. CASE ReleaseConfig
  BY <1>1, <1>16, FaultsType DEF ReleaseConfig, Released, Idle
<1> QED
  BY <1>2, <1>3, <1>4, <1>5, <1>6, <1>7, <1>8, <1>9, <1>10, <1>11, <1>12, <1>13, <1>14,
     <1>15, <1>16 DEF Step

\* A crash, the users and Gardener keep the types.
LEMMA WorldType ==
  ASSUME TypeOK, Crash \/ Users \/ Gardener
  PROVE  TypeOK'
<1> USE DEF TypeOK, resourceVars, landscapeVars, profileVars, WorkerType
<1>1. Landscapes \subseteq Resources /\ Configs \subseteq Resources
  BY DEF Resources
<1>2. CASE Crash
  BY <1>2, FaultsType DEF Crash, Idle, LandscapeCalls, ConfigCalls
<1>3. ASSUME NEW n \in Resources, Create(n) \/ Delete(n) \/ Annotate(n) \/ Ignore(n)
      PROVE  TypeOK'
  BY <1>3 DEF Create, Delete, Annotate, Ignore, Enqueue
<1>4. ASSUME NEW p \in Configs, ChangeSpec(p) PROVE TypeOK'
  BY <1>1, <1>4 DEF ChangeSpec, Enqueue
<1>5. ASSUME NEW l \in Landscapes, ChangeAccess(l) \/ WatchStarts(l) \/ WatchFails(l)
      PROVE  TypeOK'
  BY <1>1, <1>5 DEF ChangeAccess, WatchStarts, WatchFails, Enqueue
<1> QED
  BY <1>2, <1>3, <1>4, <1>5 DEF Users, Gardener

\* Initially everything has its type.
LEMMA InitType == Init => TypeOK
  BY ConstantsAssumption
  DEF Init, TypeOK, WorkerType, Idle, Resources, LandscapeCalls, ConfigCalls

\* Every variable of the two controllers keeps its type.
THEOREM RuntimeTypeCorrect == Spec => []TypeOK
<1>1. TypeOK /\ UNCHANGED vars => TypeOK'
  BY DEF TypeOK, WorkerType, vars, resourceVars, landscapeVars, profileVars
<1>2. TypeOK /\ [Next]_vars => TypeOK'
  BY <1>1, StartType, StepType, WorldType DEF Next
<1> QED
  BY InitType, <1>2, PTL DEF Spec

-------------------------------------------------------------------------------
(***************************************************************************)
(* Finalizers and ClusterProfiles.                                         *)
(***************************************************************************)
\* What holds of finalizers, ClusterProfiles and the worker, whatever
\* landscapes the ProviderConfigs name.
FinalizerInv == TypeOK /\ HeldInv /\ WorkerInv /\ published \subseteq held

\* Starting a reconcile keeps it: only a resource that is held skips the
\* finalizer.
LEMMA StartFinalizers ==
  ASSUME FinalizerInv,
         \/ \E l \in Landscapes : StartLandscape(l)
         \/ \E p \in Configs : StartConfig(p)
  PROVE  HeldInv' /\ WorkerInv' /\ published' \subseteq held'
<1> USE DEF FinalizerInv, resourceVars, landscapeVars, profileVars
<1>1. Landscapes \subseteq Resources /\ Configs \subseteq Resources
  BY DEF Resources
<1>2. UNCHANGED <<stage, held, published>>
  BY DEF StartLandscape, StartConfig, ReadFails, ForgetLandscape, ReadLiveLandscape,
         ReadDeletingLandscape, ForgetConfig, ReadConfig
<1>3. HeldInv' /\ published' \subseteq held'
  BY <1>2 DEF HeldInv
<1>4. ASSUME NEW n \in Resources, ReadFails(n) PROVE WorkerInv'
  BY <1>4 DEF ReadFails, RetryUnknown, Idle, WorkerInv
<1>5. ASSUME NEW l \in Landscapes, ForgetLandscape(l) PROVE WorkerInv'
  BY <1>5 DEF ForgetLandscape, Dequeue, WorkerInv
<1>6. ASSUME NEW p \in Configs, ForgetConfig(p) PROVE WorkerInv'
  BY <1>6 DEF ForgetConfig, WorkerInv
<1>7. ASSUME NEW l \in Landscapes, ReadLiveLandscape(l) PROVE WorkerInv'
  BY <1>1, <1>7 DEF ReadLiveLandscape, Call, Idle, WorkerInv
<1>8. ASSUME NEW l \in Landscapes, ReadDeletingLandscape(l) PROVE WorkerInv'
  <2>1. l \in held /\ UNCHANGED held
    BY <1>1, <1>8 DEF ReadDeletingLandscape, HeldInv
  <2>2. CASE w' = [Idle EXCEPT !.pc = "releaseLandscape", !.n = l]
    BY <2>1, <2>2 DEF Idle, WorkerInv
  <2>3. ASSUME NEW b, w' = [Idle EXCEPT !.pc = "status", !.n = l, !.project = b]
        PROVE  WorkerInv'
    BY <2>1, <2>3 DEF Idle, WorkerInv
  <2> QED
    BY <1>8, <2>2, <2>3 DEF ReadDeletingLandscape, DeletingLandscape, Call
<1>9. ASSUME NEW p \in Configs, ReadConfig(p) PROVE WorkerInv'
  BY <1>1, <1>9 DEF ReadConfig, NextConfigCall, Idle, WorkerInv, HeldInv, TypeOK
<1> QED
  BY <1>1, <1>3, <1>4, <1>5, <1>6, <1>7, <1>8, <1>9 DEF StartLandscape, StartConfig

\* The calls of the worker keep it: the finalizer comes before the
\* ClusterProfile and goes after it.
LEMMA StepFinalizers ==
  ASSUME FinalizerInv, Step
  PROVE  HeldInv' /\ WorkerInv' /\ published' \subseteq held'
<1> USE DEF FinalizerInv, resourceVars, landscapeVars, profileVars
<1>1. /\ Landscapes \subseteq Resources /\ Configs \subseteq Resources
      /\ Landscapes \cap Configs = {}
      /\ w.pc \in LandscapeCalls => w.n \in Landscapes
      /\ w.pc \in ConfigCalls => w.n \in Configs
      /\ stage \in [Resources -> {"absent", "live", "deleting"}]
      /\ held \in SUBSET Resources /\ published \in SUBSET Configs
  BY ConstantsAssumption DEF Resources, TypeOK, WorkerType
<1>2. ASSUME w' = Idle PROVE WorkerInv'
  BY <1>2 DEF WorkerInv, Idle
<1>3. ASSUME UNCHANGED <<stage, held>>, published' \subseteq published \cup {w.n}, w.n \in held
      PROVE  HeldInv' /\ published' \subseteq held'
  BY <1>3 DEF HeldInv
<1>4. ASSUME UNCHANGED <<stage, held, published>>
      PROVE  HeldInv' /\ published' \subseteq held'
  BY <1>4 DEF HeldInv
<1>5. ASSUME Released(w.n), w.n \notin published, UNCHANGED published
      PROVE  HeldInv' /\ published' \subseteq held'
  BY <1>1, <1>5 DEF HeldInv, Released
<1>6. CASE AddFinalizer
  <2>1. w.n \in Resources /\ stage[w.n] = "live" /\ UNCHANGED <<stage, published>>
        /\ held' = held \cup {w.n}
    BY <1>1, <1>6 DEF AddFinalizer, LandscapeCalls, ConfigCalls
  <2>2. w' = [w EXCEPT !.pc = "access"] \/ w' = [w EXCEPT !.pc = "lookup", !.spec = spec[w.n]]
    BY <1>6 DEF AddFinalizer
  <2>3. WorkerInv'
    BY <2>1, <2>2 DEF WorkerInv, TypeOK, WorkerType
  <2> QED
    BY <1>1, <2>1, <2>3 DEF HeldInv
<1>7. CASE AddFinalizerFails \/ LookupFails \/ LookupPanics
  BY <1>2, <1>4, <1>7 DEF AddFinalizerFails, LookupFails, LookupPanics, Retry, RetryUnknown
<1>8. CASE ReleaseFails
  <2>1. w.n \notin published
    BY <1>1, <1>8 DEF ReleaseFails, WorkerInv, LandscapeCalls
  <2> QED
    BY <1>2, <1>4, <1>5, <1>8, <2>1 DEF ReleaseFails, RetryUnknown
<1>9. CASE RegisterLandscape
  <2>1. PICK a : Outcome(w.n, a)
    BY <1>9 DEF RegisterLandscape
  <2>2. PICK b, f : w' = [w EXCEPT !.pc = "status", !.project = b, !.failed = f]
    BY <2>1 DEF Outcome
  <2>3. w'.pc = "status" /\ w'.n = w.n
    BY <2>2 DEF TypeOK, WorkerType
  <2>4. w.n \in held /\ UNCHANGED <<stage, held, published>>
    BY <1>9 DEF RegisterLandscape, WorkerInv
  <2> QED
    BY <1>4, <2>3, <2>4 DEF WorkerInv
<1>10. CASE InformerFails
  <2>1. PICK b : w' = [w EXCEPT !.pc = "status", !.project = b, !.failed = TRUE]
    BY <1>10 DEF InformerFails
  <2>2. w'.pc = "status" /\ w'.n = w.n
    BY <2>1 DEF TypeOK, WorkerType
  <2>3. w.n \in held /\ UNCHANGED <<stage, held, published>>
    BY <1>10 DEF InformerFails, WorkerInv
  <2> QED
    BY <1>4, <2>2, <2>3 DEF WorkerInv
<1>11. CASE UpdateLandscapeStatus
  BY <1>2, <1>4, <1>11 DEF UpdateLandscapeStatus, EndReconcile, Retry
<1>12. CASE ReleaseLandscape
  <2>1. w.n \notin published
    BY <1>1, <1>12 DEF ReleaseLandscape, LandscapeCalls
  <2> QED
    BY <1>2, <1>5, <1>12, <2>1 DEF ReleaseLandscape
<1>13. CASE Lookup
  <2>1. w'.pc = "publish" /\ w'.n = w.n /\ w'.spec = w.spec
    BY <1>13 DEF Lookup, TypeOK, WorkerType
  <2> QED
    BY <1>4, <1>13, <2>1 DEF Lookup, WorkerInv
<1>14. CASE Publish \/ PublishFails
  <2>1. /\ w.n \in held /\ UNCHANGED <<stage, held>>
        /\ published' \subseteq published \cup {w.n} /\ w' = Idle
    BY <1>14 DEF Publish, PublishFails, WorkerInv, EndReconcile, Retry
  <2> QED
    BY <1>2, <1>3, <2>1
<1>15. CASE Unpublish
  <2>1. w'.pc = "releaseConfig" /\ w'.n = w.n
    BY <1>15 DEF Unpublish, TypeOK, WorkerType
  <2> QED
    BY <1>3, <1>15, <2>1 DEF Unpublish, WorkerInv
<1>16. CASE UnpublishFails
  BY <1>2, <1>3, <1>16 DEF UnpublishFails, Retry, WorkerInv
<1>17. CASE ReleaseConfig
  BY <1>2, <1>5, <1>17 DEF ReleaseConfig, WorkerInv
<1> QED
  BY <1>6, <1>7, <1>8, <1>9, <1>10, <1>11, <1>12, <1>13, <1>14, <1>15, <1>16, <1>17
  DEF Step

\* A crash, the users and Gardener keep it: a held resource that is deleted
\* stays until it is released.
LEMMA WorldFinalizers ==
  ASSUME FinalizerInv, Crash \/ Users \/ Gardener
  PROVE  HeldInv' /\ WorkerInv' /\ published' \subseteq held'
<1> USE DEF FinalizerInv, resourceVars, landscapeVars, profileVars
<1>1. UNCHANGED <<held, published>>
  BY DEF Crash, Users, Gardener, Create, Delete, Annotate, Ignore, ChangeSpec,
         ChangeAccess, WatchStarts, WatchFails
<1>2. HeldInv'
  <2>1. stage \in [Resources -> {"absent", "live", "deleting"}]
    BY DEF TypeOK
  <2>2. CASE UNCHANGED stage
    BY <1>1, <2>2 DEF HeldInv
  <2>3. ASSUME NEW n \in Resources, Create(n) \/ Delete(n) PROVE HeldInv'
    BY <1>1, <2>1, <2>3 DEF HeldInv, Create, Delete
  <2> QED
    BY <2>2, <2>3 DEF Crash, Users, Gardener, Annotate, Ignore, ChangeSpec,
                      ChangeAccess, WatchStarts, WatchFails
<1>3. WorkerInv'
  <2>1. CASE Crash
    BY <2>1 DEF Crash, Idle, WorkerInv
  <2>2. CASE UNCHANGED <<w, landscapes>>
    BY <1>1, <2>2 DEF WorkerInv
  <2> QED
    BY <2>1, <2>2 DEF Users, Gardener, Create, Delete, Annotate, Ignore, ChangeSpec,
                      ChangeAccess, WatchStarts, WatchFails
<1> QED
  BY <1>1, <1>2, <1>3

\* The invariant about finalizers holds of every behaviour.
LEMMA FinalizerInvariant == Spec => []FinalizerInv
<1>1. Init => FinalizerInv
  BY InitType DEF Init, FinalizerInv, HeldInv, WorkerInv, Idle
<1>2. FinalizerInv /\ [Next]_vars => HeldInv' /\ WorkerInv' /\ published' \subseteq held'
  <2>1. FinalizerInv /\ UNCHANGED vars => HeldInv' /\ WorkerInv' /\ published' \subseteq held'
    BY DEF FinalizerInv, HeldInv, WorkerInv, vars, resourceVars, landscapeVars, profileVars
  <2> QED
    BY <2>1, StartFinalizers, StepFinalizers, WorldFinalizers DEF Next
<1>3. TypeOK /\ TypeOK' /\ HeldInv' /\ WorkerInv' /\ published' \subseteq held' => FinalizerInv'
  BY DEF FinalizerInv
<1>4. FinalizerInv => TypeOK
  BY DEF FinalizerInv
<1> QED
  BY <1>1, <1>2, <1>3, <1>4, RuntimeTypeCorrect, PTL DEF Spec

\* No ClusterProfile is left behind, whatever fails and whoever edits what: its
\* ProviderConfig exists and holds the provider's finalizer.
THEOREM NoOrphanedProfiles == Spec => []NoOrphanedProfile
<1>1. FinalizerInv => NoOrphanedProfile
  BY DEF FinalizerInv, TypeOK, HeldInv, NoOrphanedProfile, Resources
<1> QED
  BY <1>1, FinalizerInvariant, PTL

-------------------------------------------------------------------------------
(***************************************************************************)
(* Landscapes in use.                                                      *)
(***************************************************************************)
\* What starts a reconcile keeps what is registered in step with what is
\* specified.
LEMMA StartReferences ==
  ASSUME TypeOK, ReferenceInv,
         \/ \E l \in Landscapes : StartLandscape(l)
         \/ \E p \in Configs : StartConfig(p)
  PROVE  ReferenceInv'
<1> USE DEF resourceVars, landscapeVars, profileVars
<1>1. UNCHANGED spec
  BY DEF StartLandscape, StartConfig, ReadFails, ForgetLandscape, ReadLiveLandscape,
         ReadDeletingLandscape, ForgetConfig, ReadConfig
<1>2. ASSUME NEW n \in Resources, ReadFails(n) PROVE ReferenceInv'
  BY <1>2 DEF ReadFails, RetryUnknown, Idle, ConfigCalls, ReferenceInv, Referencing
<1>3. ASSUME NEW l \in Landscapes, ForgetLandscape(l) PROVE ReferenceInv'
  BY <1>3 DEF ForgetLandscape, ReferenceInv, Referencing
<1>4. ASSUME NEW p \in Configs, ForgetConfig(p) PROVE ReferenceInv'
  BY <1>1, <1>4
  DEF ForgetConfig, Dequeue, ReferenceInv, TypeOK, ConfigCalls
<1>5. ASSUME NEW l \in Landscapes, ReadLiveLandscape(l) PROVE ReferenceInv'
  BY <1>1, <1>5 DEF ReadLiveLandscape, Call, Idle, ReferenceInv, ConfigCalls
<1>6. ASSUME NEW l \in Landscapes, ReadDeletingLandscape(l) PROVE ReferenceInv'
  <2>1. UNCHANGED <<spec, configs, profiles>>
    BY <1>6 DEF ReadDeletingLandscape
  <2>2. CASE w' = [Idle EXCEPT !.pc = "releaseLandscape", !.n = l] /\ Referencing(l) = {}
    BY <2>1, <2>2 DEF Idle, ReferenceInv, Referencing, ConfigCalls
  <2>3. ASSUME NEW b, w' = [Idle EXCEPT !.pc = "status", !.n = l, !.project = b]
        PROVE  ReferenceInv'
    BY <2>1, <2>3 DEF Idle, ReferenceInv, ConfigCalls
  <2> QED
    BY <1>6, <2>2, <2>3 DEF ReadDeletingLandscape, DeletingLandscape, Call
<1>7. ASSUME NEW p \in Configs, ReadConfig(p) PROVE ReferenceInv'
  BY <1>1, <1>7 DEF ReadConfig, NextConfigCall, Idle, ReferenceInv
<1> QED
  BY <1>2, <1>3, <1>4, <1>5, <1>6, <1>7 DEF StartLandscape, StartConfig, Resources

\* Neither do the calls of the worker get them out of step: what is registered
\* is what was read.
LEMMA StepReferences ==
  ASSUME TypeOK, ReferenceInv, Step
  PROVE  ReferenceInv'
<1> USE DEF resourceVars, landscapeVars, profileVars
<1>1. UNCHANGED spec
  BY DEF Step, AddFinalizer, AddFinalizerFails, ReleaseFails, RegisterLandscape,
         InformerFails, UpdateLandscapeStatus, ReleaseLandscape, LookupFails,
         LookupPanics, Lookup, Publish, PublishFails, Unpublish, UnpublishFails,
         ReleaseConfig
<1>2. ASSUME w' = Idle, UNCHANGED <<configs, profiles>> PROVE ReferenceInv'
  BY <1>1, <1>2 DEF ReferenceInv, Idle, ConfigCalls
<1>3. CASE AddFinalizer
  <2>1. UNCHANGED <<configs, profiles>>
    BY <1>3 DEF AddFinalizer
  <2>2. CASE w' = [w EXCEPT !.pc = "access"]
    BY <1>1, <2>1, <2>2 DEF ReferenceInv, TypeOK, WorkerType, ConfigCalls
  <2>3. CASE w' = [w EXCEPT !.pc = "lookup", !.spec = spec[w.n]]
    BY <1>1, <2>1, <2>3 DEF ReferenceInv, TypeOK, WorkerType
  <2> QED
    BY <1>3, <2>2, <2>3 DEF AddFinalizer
<1>4. CASE AddFinalizerFails \/ ReleaseFails \/ LookupPanics \/ PublishFails \/ UnpublishFails
  BY <1>2, <1>4 DEF AddFinalizerFails, ReleaseFails, LookupPanics, PublishFails,
                    UnpublishFails, Retry, RetryUnknown
<1>5. CASE UpdateLandscapeStatus \/ ReleaseLandscape
  BY <1>2, <1>5 DEF UpdateLandscapeStatus, EndReconcile, Retry, ReleaseLandscape
<1>6. ASSUME NEW b, NEW f, UNCHANGED <<configs, profiles>>,
             w' = [w EXCEPT !.pc = "status", !.project = b, !.failed = f]
      PROVE  ReferenceInv'
  <2>1. w'.pc = "status"
    BY <1>6 DEF TypeOK, WorkerType
  <2> QED
    BY <1>1, <1>6, <2>1 DEF ReferenceInv, ConfigCalls
<1>7. CASE RegisterLandscape
  <2>1. PICK a : Outcome(w.n, a)
    BY <1>7 DEF RegisterLandscape
  <2> QED
    BY <1>6, <1>7, <2>1 DEF RegisterLandscape, Outcome
<1>8. CASE InformerFails
  BY <1>6, <1>8 DEF InformerFails
<1>9. CASE Lookup \/ Unpublish
  <2>1. /\ w'.pc \in ConfigCalls /\ w'.pc # "releaseLandscape" /\ w.pc \in ConfigCalls
        /\ w'.n = w.n /\ w'.spec = w.spec
    BY <1>9 DEF Lookup, Unpublish, TypeOK, WorkerType, ConfigCalls
  <2> QED
    BY <1>1, <1>9, <2>1 DEF Lookup, Unpublish, ReferenceInv
<1>10. CASE LookupFails \/ Publish
  <2>1. w.n \in Configs /\ w.spec \in Specs /\ w.spec.ls = spec[w.n].ls
    BY <1>10 DEF LookupFails, Publish, TypeOK, WorkerType, ReferenceInv, ConfigCalls
  <2>2. w' = Idle
    BY <1>10 DEF LookupFails, Publish, EndReconcile, Retry
  <2>3. /\ configs' = [configs EXCEPT ![w.n] = w.spec]
        /\ profiles' \in {profiles, [profiles EXCEPT ![w.n] = w.spec]}
    BY <1>10 DEF LookupFails, Publish, SetProviderConfiguration
  <2>4. None \notin Specs
    BY ConstantsAssumption
  <2> QED
    BY <1>1, <2>1, <2>2, <2>3, <2>4 DEF ReferenceInv, TypeOK, Idle, ConfigCalls
<1>11. CASE ReleaseConfig
  BY <1>1, <1>11 DEF ReleaseConfig, ReferenceInv, TypeOK, Idle, ConfigCalls
<1> QED
  BY <1>3, <1>4, <1>5, <1>7, <1>8, <1>9, <1>10, <1>11 DEF Step

\* With fixed landscapes, neither do a crash, the users and Gardener.
LEMMA WorldReferences ==
  ASSUME FixedLandscapes, TypeOK, ReferenceInv, Crash \/ Users \/ Gardener
  PROVE  ReferenceInv'
<1> USE DEF resourceVars, landscapeVars, profileVars
<1>1. CASE Crash
  BY <1>1 DEF Crash, ReferenceInv, Idle, ConfigCalls
<1>2. CASE UNCHANGED <<configs, profiles, w, spec>>
  BY <1>2 DEF ReferenceInv, Referencing
<1>3. ASSUME NEW p \in Configs, ChangeSpec(p) PROVE ReferenceInv'
  <2>1. PICK s \in Specs : s.ls = spec[p].ls /\ spec' = [spec EXCEPT ![p] = s]
    BY <1>3 DEF ChangeSpec, FixedLandscapes
  <2>2. \A q \in Configs : spec'[q].ls = spec[q].ls
    BY <2>1 DEF TypeOK
  <2>3. UNCHANGED <<configs, profiles, w>>
    BY <1>3 DEF ChangeSpec
  <2>4. w.pc \in ConfigCalls => w.n \in Configs
    BY DEF TypeOK, WorkerType
  <2> QED
    BY <2>2, <2>3, <2>4 DEF ReferenceInv, Referencing
<1> QED
  BY <1>1, <1>2, <1>3 DEF Users, Gardener, Create, Delete, Annotate, Ignore,
                          ChangeAccess, WatchStarts, WatchFails

\* The whole invariant holds of every behaviour.
THEOREM RuntimeInvariantHolds == Spec => []RuntimeInv
<1>1. Init => ReferenceInv
  BY DEF Init, ReferenceInv, Idle, ConfigCalls
<1>2. TypeOK /\ (FixedLandscapes => ReferenceInv) /\ [Next]_vars
        => (FixedLandscapes => ReferenceInv)'
  <2> SUFFICES ASSUME TypeOK, FixedLandscapes, ReferenceInv, [Next]_vars PROVE ReferenceInv'
    BY DEF FixedLandscapes
  <2>1. CASE UNCHANGED vars
    BY <2>1 DEF ReferenceInv, Referencing, vars, resourceVars, profileVars
  <2> QED
    BY <2>1, StartReferences, StepReferences, WorldReferences DEF Next
<1>3. FinalizerInv /\ (FixedLandscapes => ReferenceInv) <=> RuntimeInv
  BY DEF FinalizerInv, RuntimeInv
<1> QED
  BY <1>1, <1>2, <1>3, RuntimeTypeCorrect, FinalizerInvariant, PTL DEF Spec

\* As long as no ProviderConfig changes its landscape, no Landscape is released
\* while a registered profile was built from it - for any number of
\* ProviderConfigs, crashes included (they empty the registry).
THEOREM UsedLandscapesKept ==
  ASSUME FixedLandscapes
  PROVE  Spec => UsedLandscapeKept
<1>1. ASSUME RuntimeInv, [Next]_vars,
             NEW l \in held \ held', NEW p \in Configs, l \in Landscapes, profiles[p] # None
      PROVE  profiles[p].ls # l
  <2>1. /\ configs[p] # None /\ configs[p].ls = profiles[p].ls
        /\ w.pc = "releaseLandscape" => Referencing(w.n) = {}
        /\ w.pc \in ConfigCalls => w.n \in Configs
    BY <1>1 DEF RuntimeInv, ReferenceInv, TypeOK, WorkerType
  <2>2. ReleaseFails \/ ReleaseLandscape \/ ReleaseConfig
    BY <1>1 DEF Next, StartLandscape, StartConfig, ReadFails, ForgetLandscape,
       ReadLiveLandscape, ReadDeletingLandscape, ForgetConfig, ReadConfig, Step,
       AddFinalizer, AddFinalizerFails, RegisterLandscape, InformerFails,
       UpdateLandscapeStatus, LookupFails, LookupPanics, Lookup, Publish, PublishFails,
       Unpublish, UnpublishFails, Crash, Users, Gardener, Create, Delete, Annotate, Ignore,
       ChangeSpec, ChangeAccess, WatchStarts, WatchFails, vars, resourceVars
  <2>3. l = w.n
    BY <1>1, <2>2 DEF ReleaseFails, ReleaseLandscape, ReleaseConfig, Released
  <2>4. w.pc = "releaseLandscape"
    BY <1>1, <2>1, <2>2, <2>3, ConstantsAssumption
    DEF ReleaseFails, ReleaseLandscape, ReleaseConfig, ConfigCalls
  <2> QED
    BY <2>1, <2>3, <2>4 DEF Referencing
<1>2. RuntimeInv /\ [Next]_vars
        => [\A l \in held \ held' : \A p \in Configs :
              l \in Landscapes /\ profiles[p] # None => profiles[p].ls # l]_vars
  BY <1>1
<1> QED
  BY <1>2, RuntimeInvariantHolds, PTL DEF Spec, UsedLandscapeKept

-------------------------------------------------------------------------------
(***************************************************************************)
(* The registry as the Cluster controller sees it.                         *)
(***************************************************************************)
\* The two controllers change profiles, ClusterProfiles, landscapes and watches
\* only in the steps of Registry - the ones ClusterController is built on: in
\* particular no profile is registered without its landscape at hand, and no
\* watch outlives the client it belongs to.
THEOREM ImplementsTheRegistry == Spec => ImplementsRegistry
<1>1. Init => Reg!Init
  BY DEF Init, Reg!Init
<1>2. RuntimeInv /\ [Next]_vars => [Reg!Next]_(Reg!registry)
  <2> SUFFICES ASSUME RuntimeInv, [Next]_vars
               PROVE  Reg!Next \/ UNCHANGED <<profiles, published, landscapes, watch>>
    BY DEF Reg!registry
  <2> USE DEF resourceVars, landscapeVars, profileVars
  <2>1. /\ w.pc \in LandscapeCalls => w.n \in Landscapes
        /\ w.pc \in ConfigCalls => w.n \in Configs /\ w.spec \in Specs
        /\ w.pc = "publish" => landscapes[w.spec.ls] = "ready"
        /\ w.pc = "releaseConfig" => w.n \notin published
        /\ published \in SUBSET Configs
    BY DEF RuntimeInv, TypeOK, WorkerType, WorkerInv
  <2>2. ASSUME NEW l \in Landscapes, Unregistered(l), UNCHANGED <<profiles, published>>
        PROVE  Reg!Next
    BY <2>2 DEF Unregistered, Reg!Next, Reg!LoseLandscape
  <2>3. ASSUME NEW l \in Landscapes, NEW s \in {"noclient", "ready"}, NEW b,
               Registered(l, s, b), UNCHANGED <<profiles, published>>
        PROVE  Reg!Next
    BY <2>3 DEF Registered, Reg!Next, Reg!LoseLandscape, Reg!SetLandscape
  <2>4. ASSUME NEW p \in Configs, UNCHANGED <<landscapes, watch>>,
               \/ /\ profiles' = [profiles EXCEPT ![p] = None]
                  /\ published' \in {published, published \ {p}}
               \/ published' = published \ {p} /\ UNCHANGED profiles
        PROVE  Reg!Next
    BY <2>4 DEF Reg!Next, Reg!Unregister
  <2>5. ASSUME NEW l \in Landscapes, StartLandscape(l)
        PROVE  Reg!Next \/ UNCHANGED <<profiles, published, landscapes, watch>>
    BY <2>2, <2>3, <2>5
    DEF StartLandscape, ReadFails, ForgetLandscape, ReadLiveLandscape,
        ReadDeletingLandscape, DeletingLandscape
  <2>6. ASSUME NEW p \in Configs, StartConfig(p)
        PROVE  Reg!Next \/ UNCHANGED <<profiles, published, landscapes, watch>>
    BY <2>4, <2>6 DEF StartConfig, ReadFails, ForgetConfig, ReadConfig
  <2>7. CASE RegisterLandscape
    <3>1. PICK a : Outcome(w.n, a)
      BY <2>7 DEF RegisterLandscape
    <3>2. w.n \in Landscapes /\ UNCHANGED <<profiles, published>>
      BY <2>1, <2>7 DEF RegisterLandscape, LandscapeCalls
    <3>3. PICK s \in {"noclient", "ready"}, b \in BOOLEAN : Registered(w.n, s, b)
      BY <3>1 DEF Outcome
    <3> QED
      BY <2>3, <3>2, <3>3
  <2>8. CASE InformerFails \/ ReleaseLandscape
    BY <2>1, <2>2, <2>8 DEF InformerFails, ReleaseLandscape, LandscapeCalls
  <2>9. CASE Publish
    <3>1. w.n \in Configs /\ w.spec \in Specs /\ landscapes[w.spec.ls] = "ready"
      BY <2>1, <2>9 DEF Publish, ConfigCalls
    <3>2. Reg!Register(w.n, w.spec)
      BY <2>9, <3>1 DEF Publish, Reg!Register
    <3> QED
      BY <3>1, <3>2 DEF Reg!Next
  <2>10. CASE PublishFails
    <3>1. w.n \in Configs
      BY <2>1, <2>10 DEF PublishFails, ConfigCalls
    <3>2. Reg!Publish(w.n) \/ UNCHANGED <<profiles, published, landscapes, watch>>
      BY <2>10 DEF PublishFails, Reg!Publish
    <3> QED
      BY <3>1, <3>2 DEF Reg!Next
  <2>11. CASE Unpublish \/ UnpublishFails
    <3>1. w.n \in Configs /\ UNCHANGED <<profiles, landscapes, watch>>
      BY <2>1, <2>11 DEF Unpublish, UnpublishFails, ConfigCalls
    <3> QED
      BY <2>4, <2>11, <3>1 DEF Unpublish, UnpublishFails
  <2>12. CASE ReleaseConfig
    BY <2>1, <2>4, <2>12 DEF ReleaseConfig, ConfigCalls
  <2>13. CASE Crash
    BY <2>13 DEF Crash, Reg!Next, Reg!Restart
  <2>14. ASSUME NEW l \in Landscapes, WatchStarts(l) \/ WatchFails(l)
         PROVE  Reg!Next
    <3>1. landscapes' = [landscapes EXCEPT ![l] = "ready"]
      BY <2>14 DEF WatchStarts, WatchFails, RuntimeInv, TypeOK
    <3> QED
      BY <2>14, <3>1 DEF WatchStarts, WatchFails, Reg!Next, Reg!SetLandscape
  <2>15. CASE \/ AddFinalizer \/ AddFinalizerFails \/ ReleaseFails \/ UpdateLandscapeStatus
              \/ LookupFails \/ LookupPanics \/ Lookup \/ Users
              \/ \E l \in Landscapes : ChangeAccess(l)
              \/ UNCHANGED vars
    BY <2>15 DEF AddFinalizer, AddFinalizerFails, ReleaseFails, UpdateLandscapeStatus,
                 LookupFails, LookupPanics, Lookup, Users, Create, Delete, Annotate,
                 Ignore, ChangeSpec, ChangeAccess, vars
  <2> QED
    BY <2>5, <2>6, <2>7, <2>8, <2>9, <2>10, <2>11, <2>12, <2>13, <2>14, <2>15
    DEF Next, Step, Gardener
<1> QED
  BY <1>1, <1>2, RuntimeInvariantHolds, PTL DEF Spec, ImplementsRegistry, Reg!Spec

-------------------------------------------------------------------------------
(***************************************************************************)
(* No wake-up is lost.                                                     *)
(***************************************************************************)
\* What the two controllers work on, and when.
LEMMA Kinds ==
  ASSUME TypeOK
  PROVE  /\ Landscapes \subseteq Resources /\ Configs \subseteq Resources
         /\ Landscapes \cap Configs = {} /\ Resources = Landscapes \cup Configs
         /\ None \notin Resources /\ None \notin Specs
         /\ w.pc \in LandscapeCalls => w.n \in Landscapes
         /\ w.pc \in ConfigCalls => w.n \in Configs /\ w.spec \in Specs
         /\ w.pc # "idle" => w.n \in Resources
  BY ConstantsAssumption DEF Resources, TypeOK, WorkerType

\* A Landscape in deletion is released, or stays and has its status written.
LEMMA ReadsDeleting ==
  ASSUME NEW l \in Landscapes, ReadDeletingLandscape(l)
  PROVE  /\ w'.n = l /\ w'.failed = FALSE /\ w'.spec = None
         /\ \/ w'.pc = "releaseLandscape" /\ Referencing(l) = {} /\ UNCHANGED landscapeVars
            \/ /\ w'.pc = "status" /\ w'.project = (l \in projects)
               /\ Registered(l, "noclient", l \in projects)
<1>1. CASE w' = [Idle EXCEPT !.pc = "releaseLandscape", !.n = l]
  BY <1>1 DEF ReadDeletingLandscape, DeletingLandscape, Call, Idle
<1>2. ASSUME NEW b, w' = [Idle EXCEPT !.pc = "status", !.n = l, !.project = b]
      PROVE  w'.pc = "status" /\ w'.n = l /\ w'.project = b /\ w'.failed = FALSE /\ w'.spec = None
  BY <1>2 DEF Idle
<1> QED
  BY <1>1, <1>2 DEF ReadDeletingLandscape, DeletingLandscape, Call, Idle

\* However access to the landscape turns out, its status is written next; unless
\* that ends with an error the landscape is registered with a client.
LEMMA Registering ==
  ASSUME TypeOK, RegisterLandscape \/ InformerFails
  PROVE  /\ w'.pc = "status" /\ w'.n = w.n /\ w'.spec = w.spec
         /\ \/ w'.failed = TRUE
            \/ landscapes'[w.n] = "ready" /\ (w.n \in offers' <=> w'.project)
         /\ landscapes'[w.n] = "unknown" => w'.failed
<1>1. w.n \in Landscapes
  BY DEF RegisterLandscape, InformerFails, TypeOK, WorkerType, LandscapeCalls
<1>2. ASSUME NEW b, NEW f, w' = [w EXCEPT !.pc = "status", !.project = b, !.failed = f]
      PROVE  w'.pc = "status" /\ w'.n = w.n /\ w'.spec = w.spec /\ w'.project = b /\ w'.failed = f
  BY <1>2 DEF TypeOK, WorkerType
<1>3. ASSUME NEW a, Outcome(w.n, a)
      PROVE  /\ w'.pc = "status" /\ w'.n = w.n /\ w'.spec = w.spec
             /\ \/ w'.failed = TRUE
                \/ landscapes'[w.n] = "ready" /\ (w.n \in offers' <=> w'.project)
             /\ landscapes'[w.n] = "unknown" => w'.failed
  <2> DEFINE project == a = "granted" \/ (a \in {"none", "denied"} /\ w.n \in projects)
             failed == a \in {"none", "denied"}
  <2>1. /\ w'.pc = "status" /\ w'.n = w.n /\ w'.spec = w.spec
        /\ w'.project = project /\ w'.failed = failed
    BY <1>2, <1>3 DEF Outcome
  <2>2. landscapes'[w.n] = IF a = "none" THEN "noclient" ELSE "ready"
    BY <1>1, <1>3 DEF Outcome, Registered, TypeOK
  <2>3. w.n \in offers' <=> project
    BY <1>1, <1>3 DEF Outcome, Registered, TypeOK
  <2> QED
    BY <2>1, <2>2, <2>3
<1>4. CASE RegisterLandscape
  BY <1>3, <1>4 DEF RegisterLandscape
<1>5. CASE InformerFails
  BY <1>2, <1>5 DEF InformerFails
<1> QED
  BY <1>4, <1>5

\* Reading a resource takes nothing away without taking up the request for it.
LEMMA KeptStart ==
  ASSUME FinalizerInv, SettledInv, NEW n \in Resources,
         \/ \E l \in Landscapes : StartLandscape(l)
         \/ \E p \in Configs : StartConfig(p)
  PROVE  NothingKept(n)'
<1> USE Kinds DEF FinalizerInv, SettledInv, NothingKept, resourceVars, landscapeVars, profileVars
<1>1. ASSUME NEW m \in Resources, ReadFails(m) PROVE NothingKept(n)'
  BY <1>1 DEF ReadFails, RetryUnknown, Dequeue, Idle, WorkerKnows
<1>2. ASSUME NEW l \in Landscapes, ForgetLandscape(l) PROVE NothingKept(n)'
  BY <1>2 DEF ForgetLandscape, Unregistered, Dequeue, TypeOK
<1>3. ASSUME NEW p \in Configs, ForgetConfig(p) PROVE NothingKept(n)'
  BY <1>3 DEF ForgetConfig, Dequeue, TypeOK
<1>4. ASSUME NEW l \in Landscapes, ReadLiveLandscape(l) PROVE NothingKept(n)'
  BY <1>4 DEF ReadLiveLandscape, Dequeue, Call, Idle, WorkerKnows
<1>5. ASSUME NEW l \in Landscapes, ReadDeletingLandscape(l) PROVE NothingKept(n)'
  <2>1. w'.n = l /\ w.pc = "idle"
    BY <1>5, ReadsDeleting DEF ReadDeletingLandscape, Dequeue
  <2> QED
    BY <1>5, <2>1 DEF ReadDeletingLandscape, DeletingLandscape, WorkerKnows, Registered, Woken,
                      TypeOK
<1>6. ASSUME NEW p \in Configs, ReadConfig(p) PROVE NothingKept(n)'
  BY <1>6 DEF ReadConfig, Dequeue, Idle, WorkerKnows
<1> QED
  BY <1>1, <1>2, <1>3, <1>4, <1>5, <1>6 DEF StartLandscape, StartConfig

\* Nor do the calls of the worker: what is registered belongs to a resource that is
\* held by then.
LEMMA KeptStep ==
  ASSUME FinalizerInv, SettledInv, NEW n \in Resources, Step
  PROVE  NothingKept(n)'
<1> USE Kinds
    DEF FinalizerInv, SettledInv, NothingKept, resourceVars, landscapeVars, profileVars,
        LandscapeCalls, ConfigCalls
<1>1. CASE AddFinalizer
  BY <1>1 DEF AddFinalizer, TypeOK, WorkerType
<1>2. CASE AddFinalizerFails \/ ReleaseFails
  BY <1>2 DEF AddFinalizerFails, ReleaseFails, Released, RetryUnknown, Idle
<1>3. CASE RegisterLandscape \/ InformerFails
  <2>1. w'.n = w.n
    BY <1>3, Registering
  <2> QED
    BY <1>3, <2>1 DEF RegisterLandscape, Outcome, Registered, InformerFails, Unregistered, TypeOK
<1>4. CASE UpdateLandscapeStatus
  BY <1>4 DEF UpdateLandscapeStatus, EndReconcile, Retry, Idle, WorkerInv
<1>5. CASE ReleaseLandscape
  BY <1>5 DEF ReleaseLandscape, Released, Unregistered, Idle, TypeOK
<1>6. CASE LookupFails \/ LookupPanics \/ Publish \/ PublishFails
  BY <1>6
  DEF LookupFails, LookupPanics, Publish, PublishFails, SetProviderConfiguration,
      EndReconcile, Retry, Idle, WorkerInv, TypeOK
<1>7. CASE Lookup \/ Unpublish
  BY <1>7 DEF Lookup, Unpublish, TypeOK, WorkerType
<1>8. CASE UnpublishFails \/ ReleaseConfig
  BY <1>8 DEF UnpublishFails, ReleaseConfig, Released, Retry, Idle, TypeOK
<1> QED
  BY <1>1, <1>2, <1>3, <1>4, <1>5, <1>6, <1>7, <1>8 DEF Step

\* Nor does anybody else; a crash forgets everything.
LEMMA KeptWorld ==
  ASSUME FinalizerInv, SettledInv, NEW n \in Resources, Crash \/ Users \/ Gardener
  PROVE  NothingKept(n)'
<1> USE Kinds DEF FinalizerInv, SettledInv, NothingKept, resourceVars, landscapeVars, profileVars
<1>1. CASE Crash
  BY <1>1 DEF Crash, Idle
<1>2. ASSUME NEW m \in Resources, Create(m) \/ Delete(m) \/ Annotate(m) \/ Ignore(m)
      PROVE  NothingKept(n)'
  BY <1>2 DEF Create, Delete, Annotate, Ignore, Enqueue
<1>3. ASSUME NEW p \in Configs, ChangeSpec(p) PROVE NothingKept(n)'
  BY <1>3 DEF ChangeSpec, Enqueue
<1>4. ASSUME NEW l \in Landscapes, ChangeAccess(l) \/ WatchStarts(l) \/ WatchFails(l)
      PROVE  NothingKept(n)'
  BY <1>4 DEF ChangeAccess, WatchStarts, WatchFails, Enqueue
<1> QED
  BY <1>1, <1>2, <1>3, <1>4 DEF Users, Gardener

\* What SettledConfig says of a ProviderConfig itself.
ConfigServed(p) ==
  Settled(p) =>
    /\ stage[p] # "deleting"
    /\ stage[p] = "live" =>
         p \in published /\ p \in held /\ configs[p] = spec[p] /\ profiles[p] = spec[p]
    /\ stage[p] = "absent" => configs[p] = None /\ profiles[p] = None

\* SettledIsRegistered and LandscapeStays, taken apart.
LandscapeServed(l) == Settled(l) => SettledLandscape(l)

LandscapeKnown(p) ==
  Settled(p) /\ stage[p] = "live" /\ landscapes[spec[p].ls] = "unknown"
    => ~Settled(spec[p].ls) /\ spec[p].ls \in held

LEMMA SettledParts ==
  ASSUME FinalizerInv, SettledInv
  PROVE  /\ \A p \in Configs : ConfigServed(p) /\ LandscapeKnown(p)
         /\ \A l \in Landscapes : LandscapeServed(l)
  BY DEF FinalizerInv, SettledInv, SettledIsRegistered, SettledConfig, LandscapeStays,
         ConfigServed, LandscapeKnown, LandscapeServed

\* A request that is taken up is for a ProviderConfig the worker turns to, or one that
\* is ignored, or gone and forgotten.
LEMMA ConfigStart ==
  ASSUME FinalizerInv, SettledInv, NEW p \in Configs,
         \/ \E l \in Landscapes : StartLandscape(l)
         \/ \E q \in Configs : StartConfig(q)
  PROVE  ConfigServed(p)'
<1> USE Kinds, SettledParts
    DEF FinalizerInv, ConfigServed, Settled, resourceVars, landscapeVars, profileVars
<1>1. ASSUME NEW m \in Resources, ReadFails(m) PROVE ConfigServed(p)'
  BY <1>1 DEF ReadFails, RetryUnknown, Dequeue, Idle, SettledInv, WorkerKnows
<1>2. ASSUME NEW l \in Landscapes, ForgetLandscape(l) PROVE ConfigServed(p)'
  BY <1>2 DEF ForgetLandscape
<1>3. ASSUME NEW q \in Configs, ForgetConfig(q) PROVE ConfigServed(p)'
  BY <1>3 DEF ForgetConfig, Gone, TypeOK
<1>4. ASSUME NEW l \in Landscapes, ReadLiveLandscape(l) PROVE ConfigServed(p)'
  BY <1>4 DEF ReadLiveLandscape, Dequeue, SettledInv, WorkerKnows
<1>5. ASSUME NEW l \in Landscapes, ReadDeletingLandscape(l) PROVE ConfigServed(p)'
  BY <1>5 DEF ReadDeletingLandscape, DeletingLandscape, Dequeue, SettledInv, WorkerKnows
<1>6. ASSUME NEW q \in Configs, ReadConfig(q) PROVE ConfigServed(p)'
  BY <1>6 DEF ReadConfig, Dequeue, Idle, SettledInv, WorkerKnows
<1> QED
  BY <1>1, <1>2, <1>3, <1>4, <1>5, <1>6 DEF StartLandscape, StartConfig

\* A reconcile ends with the profile published as it is specified, with the
\* ProviderConfig gone and forgotten, or with the request queued again.
LEMMA ConfigStep ==
  ASSUME FinalizerInv, SettledInv, NEW p \in Configs, Step
  PROVE  ConfigServed(p)'
<1> USE Kinds, SettledParts
    DEF FinalizerInv, SettledInv, ConfigServed, Settled, resourceVars, landscapeVars,
        profileVars, LandscapeCalls, ConfigCalls
<1>1. CASE AddFinalizer
  BY <1>1 DEF AddFinalizer, TypeOK, WorkerType
<1>2. CASE AddFinalizerFails \/ ReleaseFails
  BY <1>2 DEF AddFinalizerFails, ReleaseFails, Released, RetryUnknown, Idle, TypeOK
<1>3. CASE RegisterLandscape \/ InformerFails
  BY <1>3, Registering DEF RegisterLandscape, Outcome, InformerFails
<1>4. CASE UpdateLandscapeStatus
  BY <1>4 DEF UpdateLandscapeStatus, EndReconcile, Retry, Idle
<1>5. CASE ReleaseLandscape
  BY <1>5 DEF ReleaseLandscape, Released, Idle, TypeOK
<1>6. CASE LookupFails \/ LookupPanics \/ PublishFails
  BY <1>6 DEF LookupFails, LookupPanics, PublishFails, SetProviderConfiguration, Retry, Idle, TypeOK
<1>7. CASE Publish
  BY <1>7
  DEF Publish, SetProviderConfiguration, EndReconcile, Retry, Idle, WorkerInv, WorkerKnows,
      TypeOK
<1>8. CASE Lookup \/ Unpublish
  BY <1>8 DEF Lookup, Unpublish, TypeOK, WorkerType
<1>9. CASE UnpublishFails \/ ReleaseConfig
  BY <1>9 DEF UnpublishFails, ReleaseConfig, Released, Retry, Idle, TypeOK
<1> QED
  BY <1>1, <1>2, <1>3, <1>4, <1>5, <1>6, <1>7, <1>8, <1>9 DEF Step

\* Whoever changes a ProviderConfig asks for a reconcile, unless it is ignored.
LEMMA ConfigWorld ==
  ASSUME FinalizerInv, SettledInv, NEW p \in Configs, Crash \/ Users \/ Gardener
  PROVE  ConfigServed(p)'
<1> USE Kinds, SettledParts
    DEF FinalizerInv, ConfigServed, Settled, resourceVars, landscapeVars, profileVars
<1>1. CASE Crash
  BY <1>1 DEF Crash, Gone, TypeOK
<1>2. ASSUME NEW n \in Resources, Create(n) \/ Delete(n) \/ Annotate(n) \/ Ignore(n)
      PROVE  ConfigServed(p)'
  BY <1>2 DEF Create, Delete, Annotate, Ignore, Enqueue, TypeOK, HeldInv, SettledInv, NothingKept
<1>3. ASSUME NEW q \in Configs, ChangeSpec(q) PROVE ConfigServed(p)'
  BY <1>3 DEF ChangeSpec, Enqueue, TypeOK
<1>4. ASSUME NEW l \in Landscapes, ChangeAccess(l) \/ WatchStarts(l) \/ WatchFails(l)
      PROVE  ConfigServed(p)'
  BY <1>4 DEF ChangeAccess, WatchStarts, WatchFails, Enqueue
<1> QED
  BY <1>1, <1>2, <1>3, <1>4 DEF Users, Gardener

\* A request that is taken up is for a Landscape the worker turns to, or one that is
\* ignored, or gone and unregistered.
LEMMA LandscapeStart ==
  ASSUME FinalizerInv, SettledInv, NEW k \in Landscapes,
         \/ \E l \in Landscapes : StartLandscape(l)
         \/ \E p \in Configs : StartConfig(p)
  PROVE  LandscapeServed(k)'
<1> USE Kinds, SettledParts
    DEF FinalizerInv, LandscapeServed, SettledLandscape, Settled, resourceVars,
        landscapeVars, profileVars
<1>1. ASSUME NEW m \in Resources, ReadFails(m) PROVE LandscapeServed(k)'
  BY <1>1 DEF ReadFails, RetryUnknown, Dequeue, Idle, SettledInv, WorkerKnows
<1>2. ASSUME NEW l \in Landscapes, ForgetLandscape(l) PROVE LandscapeServed(k)'
  BY <1>2 DEF ForgetLandscape, Unregistered, Gone, TypeOK
<1>3. ASSUME NEW p \in Configs, ForgetConfig(p) PROVE LandscapeServed(k)'
  BY <1>3 DEF ForgetConfig
<1>4. ASSUME NEW l \in Landscapes, ReadLiveLandscape(l) PROVE LandscapeServed(k)'
  BY <1>4 DEF ReadLiveLandscape, Dequeue, Call, Idle, SettledInv, WorkerKnows
<1>5. ASSUME NEW l \in Landscapes, ReadDeletingLandscape(l) PROVE LandscapeServed(k)'
  <2>1. w'.n = l /\ w.pc = "idle"
    BY <1>5, ReadsDeleting DEF ReadDeletingLandscape, Dequeue
  <2> QED
    BY <1>5, <2>1 DEF ReadDeletingLandscape, DeletingLandscape, Registered, Woken, SettledInv,
                      WorkerKnows, TypeOK
<1>6. ASSUME NEW p \in Configs, ReadConfig(p) PROVE LandscapeServed(k)'
  BY <1>6 DEF ReadConfig, Dequeue, SettledInv, WorkerKnows
<1> QED
  BY <1>1, <1>2, <1>3, <1>4, <1>5, <1>6 DEF StartLandscape, StartConfig

\* A reconcile ends with the Landscape registered as its status shows, with the
\* Landscape gone and unregistered, or with the request queued again.
LEMMA LandscapeStep ==
  ASSUME FinalizerInv, SettledInv, NEW k \in Landscapes, Step
  PROVE  LandscapeServed(k)'
<1> USE Kinds, SettledParts
    DEF FinalizerInv, SettledInv, LandscapeServed, SettledLandscape, Settled, resourceVars,
        landscapeVars, profileVars, LandscapeCalls, ConfigCalls
<1>1. CASE AddFinalizer
  BY <1>1 DEF AddFinalizer, TypeOK, WorkerType
<1>2. CASE AddFinalizerFails \/ ReleaseFails
  BY <1>2 DEF AddFinalizerFails, ReleaseFails, Released, RetryUnknown, Idle, TypeOK
<1>3. CASE RegisterLandscape \/ InformerFails
  <2>1. w'.n = w.n
    BY <1>3, Registering
  <2> QED
    BY <1>3, <2>1 DEF RegisterLandscape, Outcome, Registered, InformerFails, Unregistered, TypeOK
<1>4. CASE UpdateLandscapeStatus
  BY <1>4 DEF UpdateLandscapeStatus, EndReconcile, Retry, Idle, WorkerKnows, TypeOK
<1>5. CASE ReleaseLandscape
  BY <1>5 DEF ReleaseLandscape, Released, Unregistered, Idle, TypeOK
<1>6. CASE LookupFails \/ LookupPanics \/ Publish \/ PublishFails
  BY <1>6 DEF LookupFails, LookupPanics, Publish, PublishFails, EndReconcile, Retry, Idle
<1>7. CASE Lookup \/ Unpublish
  BY <1>7 DEF Lookup, Unpublish, TypeOK, WorkerType
<1>8. CASE UnpublishFails \/ ReleaseConfig
  BY <1>8 DEF UnpublishFails, ReleaseConfig, Released, Retry, Idle, TypeOK
<1> QED
  BY <1>1, <1>2, <1>3, <1>4, <1>5, <1>6, <1>7, <1>8 DEF Step

\* Whoever changes a Landscape, or ends the watch of its shoots, asks for a reconcile,
\* unless it is ignored; what its kubeconfig is good for is seen by the next one only.
LEMMA LandscapeWorld ==
  ASSUME FinalizerInv, SettledInv, NEW k \in Landscapes, Crash \/ Users \/ Gardener
  PROVE  LandscapeServed(k)'
<1> USE Kinds, SettledParts
    DEF FinalizerInv, LandscapeServed, SettledLandscape, Settled, resourceVars,
        landscapeVars, profileVars
<1>1. CASE Crash
  BY <1>1 DEF Crash, Gone, TypeOK
<1>2. ASSUME NEW n \in Resources, Create(n) \/ Delete(n) \/ Annotate(n) \/ Ignore(n)
      PROVE  LandscapeServed(k)'
  BY <1>2 DEF Create, Delete, Annotate, Ignore, Enqueue, TypeOK, HeldInv, SettledInv, NothingKept
<1>3. ASSUME NEW p \in Configs, ChangeSpec(p) PROVE LandscapeServed(k)'
  BY <1>3 DEF ChangeSpec, Enqueue
<1>4. ASSUME NEW l \in Landscapes, ChangeAccess(l) \/ WatchStarts(l) \/ WatchFails(l)
      PROVE  LandscapeServed(k)'
  BY <1>4 DEF ChangeAccess, WatchStarts, WatchFails, Enqueue
<1> QED
  BY <1>1, <1>2, <1>3, <1>4 DEF Users, Gardener

\* A landscape is forgotten only with a request for the ProviderConfigs that name it,
\* or with a request of its own that will not end before it is known again.
LEMMA KnownStart ==
  ASSUME FinalizerInv, SettledInv, NEW p \in Configs,
         \/ \E l \in Landscapes : StartLandscape(l)
         \/ \E q \in Configs : StartConfig(q)
  PROVE  LandscapeKnown(p)'
<1> USE Kinds, SettledParts
    DEF FinalizerInv, LandscapeKnown, Settled, resourceVars, landscapeVars, profileVars
<1>1. spec[p].ls \in Landscapes
  BY DEF TypeOK, Specs
<1>2. ASSUME NEW m \in Resources, ReadFails(m) PROVE LandscapeKnown(p)'
  BY <1>1, <1>2 DEF ReadFails, RetryUnknown, Dequeue, Idle, SettledInv, WorkerKnows
<1>3. ASSUME NEW l \in Landscapes, ForgetLandscape(l) PROVE LandscapeKnown(p)'
  <2>1. CASE l # spec[p].ls
    BY <1>1, <1>3, <2>1 DEF ForgetLandscape, Unregistered, Dequeue, TypeOK
  <2>2. CASE l = spec[p].ls /\ landscapes[l] = "unknown"
    BY <1>1, <1>3, <2>2 DEF ForgetLandscape, Gone, Unregistered, Concerned, Dequeue, HeldInv
  <2>3. CASE l = spec[p].ls /\ landscapes[l] # "unknown"
    <3>1. Settled(p)' /\ stage'[p] = "live" => p \in Referencing(l)
      BY <1>3, <2>3 DEF ForgetLandscape, ConfigServed, Referencing, TypeOK
    <3> QED
      BY <1>3, <2>3, <3>1 DEF ForgetLandscape, Concerned
  <2> QED
    BY <2>1, <2>2, <2>3
<1>4. ASSUME NEW q \in Configs, ForgetConfig(q) PROVE LandscapeKnown(p)'
  BY <1>1, <1>4 DEF ForgetConfig, Dequeue, Gone, SettledInv, WorkerKnows
<1>5. ASSUME NEW l \in Landscapes, ReadLiveLandscape(l) PROVE LandscapeKnown(p)'
  BY <1>1, <1>5 DEF ReadLiveLandscape, Dequeue, Call, Idle, SettledInv, WorkerKnows
<1>6. ASSUME NEW l \in Landscapes, ReadDeletingLandscape(l) PROVE LandscapeKnown(p)'
  <2>1. w'.n = l /\ w.pc = "idle"
    BY <1>6, ReadsDeleting DEF ReadDeletingLandscape, Dequeue
  <2> QED
    BY <1>1, <1>6, <2>1 DEF ReadDeletingLandscape, DeletingLandscape, Registered, Woken,
                            SettledInv, WorkerKnows, TypeOK
<1>7. ASSUME NEW q \in Configs, ReadConfig(q) PROVE LandscapeKnown(p)'
  BY <1>1, <1>7 DEF ReadConfig, Dequeue, Idle, SettledInv, WorkerKnows
<1> QED
  BY <1>2, <1>3, <1>4, <1>5, <1>6, <1>7 DEF StartLandscape, StartConfig

LEMMA KnownStep ==
  ASSUME FinalizerInv, SettledInv, NEW p \in Configs, Step
  PROVE  LandscapeKnown(p)'
<1> USE Kinds, SettledParts
    DEF FinalizerInv, SettledInv, LandscapeKnown, Settled, resourceVars, landscapeVars,
        profileVars, LandscapeCalls, ConfigCalls
<1>1. /\ spec[p].ls \in Landscapes
      /\ Settled(p) /\ stage[p] = "live" => p \in Referencing(spec[p].ls)
  BY ConstantsAssumption DEF TypeOK, Specs, ConfigServed, Referencing
<1>2. CASE AddFinalizer
  BY <1>1, <1>2 DEF AddFinalizer, TypeOK, WorkerType
<1>3. CASE AddFinalizerFails
  BY <1>1, <1>3 DEF AddFinalizerFails, RetryUnknown, Idle, TypeOK
<1>4. CASE ReleaseFails
  BY <1>1, <1>4 DEF ReleaseFails, Released, RetryUnknown, Idle, TypeOK, LandscapeStays
<1>5. CASE RegisterLandscape \/ InformerFails
  <2>1. w'.n = w.n /\ w.n \in held
    BY <1>5, Registering DEF RegisterLandscape, InformerFails, WorkerInv
  <2>2. CASE w.n = spec[p].ls
    BY <1>1, <1>5, <2>1, <2>2 DEF RegisterLandscape, Outcome, InformerFails
  <2>3. CASE w.n # spec[p].ls
    BY <1>1, <1>5, <2>1, <2>3
    DEF RegisterLandscape, Outcome, Registered, InformerFails, Unregistered, TypeOK
  <2> QED
    BY <2>2, <2>3
<1>6. CASE UpdateLandscapeStatus
  BY <1>1, <1>6 DEF UpdateLandscapeStatus, EndReconcile, Retry, Idle, WorkerKnows, TypeOK
<1>7. CASE ReleaseLandscape
  BY <1>1, <1>7 DEF ReleaseLandscape, Released, Unregistered, Idle, TypeOK, LandscapeStays
<1>8. CASE LookupFails \/ LookupPanics \/ PublishFails \/ UnpublishFails
  BY <1>1, <1>8 DEF LookupFails, LookupPanics, PublishFails, UnpublishFails, Retry, Idle
<1>9. CASE Publish
  BY <1>1, <1>9 DEF Publish, EndReconcile, Retry, Idle, WorkerInv, WorkerKnows
<1>10. CASE Lookup \/ Unpublish
  BY <1>1, <1>10 DEF Lookup, Unpublish, TypeOK, WorkerType
<1>11. CASE ReleaseConfig
  BY <1>1, <1>11 DEF ReleaseConfig, Released, Idle, TypeOK
<1> QED
  BY <1>2, <1>3, <1>4, <1>5, <1>6, <1>7, <1>8, <1>9, <1>10, <1>11 DEF Step

LEMMA KnownWorld ==
  ASSUME FinalizerInv, SettledInv, NEW p \in Configs, Crash \/ Users \/ Gardener
  PROVE  LandscapeKnown(p)'
<1> USE Kinds, SettledParts
    DEF FinalizerInv, LandscapeKnown, Settled, resourceVars, landscapeVars, profileVars
<1>1. spec[p].ls \in Landscapes
  BY DEF TypeOK, Specs
<1>2. CASE Crash
  BY <1>2 DEF Crash, Gone, TypeOK
<1>3. ASSUME NEW n \in Resources, Create(n) \/ Delete(n) \/ Annotate(n) \/ Ignore(n)
      PROVE  LandscapeKnown(p)'
  BY <1>1, <1>3 DEF Create, Delete, Annotate, Ignore, Enqueue, TypeOK
<1>4. ASSUME NEW q \in Configs, ChangeSpec(q) PROVE LandscapeKnown(p)'
  BY <1>1, <1>4 DEF ChangeSpec, Enqueue, TypeOK
<1>5. ASSUME NEW l \in Landscapes, ChangeAccess(l) \/ WatchStarts(l) \/ WatchFails(l)
      PROVE  LandscapeKnown(p)'
  BY <1>1, <1>5 DEF ChangeAccess, WatchStarts, WatchFails, Enqueue
<1> QED
  BY <1>2, <1>3, <1>4, <1>5 DEF Users, Gardener

\* What the worker reads when it starts is true by then.
LEMMA KnowsStart ==
  ASSUME FinalizerInv, SettledInv,
         \/ \E l \in Landscapes : StartLandscape(l)
         \/ \E p \in Configs : StartConfig(p)
  PROVE  WorkerKnows' /\ (w.pc = "releaseLandscape" => Referencing(w.n) = {})'
<1> USE Kinds DEF FinalizerInv, SettledInv, WorkerKnows, resourceVars, landscapeVars, profileVars
<1> DEFINE Goal == WorkerKnows' /\ (w.pc = "releaseLandscape" => Referencing(w.n) = {})'
<1>1. ASSUME NEW m \in Resources, ReadFails(m) PROVE Goal
  BY <1>1 DEF ReadFails, RetryUnknown, Idle
<1>2. ASSUME NEW l \in Landscapes, ForgetLandscape(l) PROVE Goal
  BY <1>2 DEF ForgetLandscape, Dequeue
<1>3. ASSUME NEW p \in Configs, ForgetConfig(p) PROVE Goal
  BY <1>3 DEF ForgetConfig, Dequeue
<1>4. ASSUME NEW l \in Landscapes, ReadLiveLandscape(l) PROVE Goal
  BY <1>4 DEF ReadLiveLandscape, Call, Idle
<1>5. ASSUME NEW l \in Landscapes, ReadDeletingLandscape(l) PROVE Goal
  <2>1. stage[l] = "deleting" /\ UNCHANGED <<stage, spec, ignored, configs>>
    BY <1>5 DEF ReadDeletingLandscape
  <2>2. w'.n = l
    BY <1>5, ReadsDeleting
  <2>3. CASE w'.pc = "releaseLandscape" /\ Referencing(l) = {}
    BY <2>1, <2>2, <2>3 DEF Referencing
  <2>4. CASE w'.pc = "status" /\ w'.project = (l \in projects)
             /\ Registered(l, "noclient", l \in projects)
    <3>1. landscapes'[l] = "noclient" /\ (l \in offers' <=> l \in projects)
      BY <2>4 DEF Registered, TypeOK
    <3> QED
      BY <2>1, <2>2, <2>4, <3>1
  <2> QED
    BY <1>5, <2>3, <2>4, ReadsDeleting
<1>6. ASSUME NEW p \in Configs, ReadConfig(p) PROVE Goal
  BY <1>6 DEF ReadConfig, NextConfigCall, Gone, Idle, TypeOK
<1> QED
  BY <1>1, <1>2, <1>3, <1>4, <1>5, <1>6 DEF StartLandscape, StartConfig

\* It stays true from call to call.
LEMMA KnowsStep ==
  ASSUME FinalizerInv, SettledInv, Step
  PROVE  WorkerKnows' /\ (w.pc = "releaseLandscape" => Referencing(w.n) = {})'
<1> USE Kinds
    DEF FinalizerInv, SettledInv, WorkerKnows, resourceVars, landscapeVars, profileVars,
        LandscapeCalls, ConfigCalls
<1> DEFINE Goal == WorkerKnows' /\ (w.pc = "releaseLandscape" => Referencing(w.n) = {})'
<1>1. ASSUME w' = Idle PROVE Goal
  BY <1>1 DEF Idle
<1>2. CASE AddFinalizer
  <2>1. CASE w' = [w EXCEPT !.pc = "access"]
    BY <1>2, <2>1 DEF AddFinalizer, TypeOK, WorkerType
  <2>2. CASE w' = [w EXCEPT !.pc = "lookup", !.spec = spec[w.n]]
    BY <1>2, <2>2 DEF AddFinalizer, TypeOK, WorkerType
  <2> QED
    BY <1>2, <2>1, <2>2 DEF AddFinalizer
<1>3. CASE RegisterLandscape \/ InformerFails
  <2>1. /\ w.pc = "access" /\ UNCHANGED <<stage, spec, ignored>> /\ queue \subseteq queue'
        /\ w.n \in Landscapes
    BY <1>3 DEF RegisterLandscape, Outcome, InformerFails
  <2>2. w'.pc = "status" /\ w'.n = w.n
    BY <1>3, Registering
  <2>3. landscapes'[w.n] = "unknown" => w'.failed
    BY <1>3, Registering
  <2>4. ~w'.failed => landscapes'[w.n] = "ready" /\ (w.n \in offers' <=> w'.project)
    BY <1>3, Registering
  <2>5. w'.n \notin queue' /\ w'.n \notin ignored' => stage'[w'.n] = "live"
    BY <2>1, <2>2
  <2> QED
    BY <2>2, <2>3, <2>4, <2>5
<1>4. CASE Lookup \/ Unpublish
  BY <1>4 DEF Lookup, Unpublish, TypeOK, WorkerType
<1> QED
  BY <1>1, <1>2, <1>3, <1>4
  DEF Step, AddFinalizerFails, ReleaseFails, RetryUnknown, Retry, UpdateLandscapeStatus,
      EndReconcile, ReleaseLandscape, LookupFails, LookupPanics, Publish, PublishFails,
      UnpublishFails, ReleaseConfig

\* Whoever changes the resource the worker is at asks for a reconcile, unless it is
\* ignored.
LEMMA KnowsWorld ==
  ASSUME FinalizerInv, SettledInv, Crash \/ Users \/ Gardener
  PROVE  WorkerKnows' /\ (w.pc = "releaseLandscape" => Referencing(w.n) = {})'
<1> USE Kinds DEF FinalizerInv, SettledInv, WorkerKnows, resourceVars, landscapeVars, profileVars
<1> DEFINE Goal == WorkerKnows' /\ (w.pc = "releaseLandscape" => Referencing(w.n) = {})'
<1>1. CASE Crash
  BY <1>1 DEF Crash, Idle
<1>2. w.pc = "releaseLandscape" => Referencing(w.n) = {}
  BY DEF LandscapeStays
<1>3. ASSUME NEW n \in Resources, Create(n) \/ Delete(n) \/ Annotate(n) \/ Ignore(n)
      PROVE  Goal
  BY <1>2, <1>3 DEF Create, Delete, Annotate, Ignore, Enqueue, TypeOK, WorkerInv, Referencing
<1>4. ASSUME NEW p \in Configs, ChangeSpec(p) PROVE Goal
  BY <1>2, <1>4 DEF ChangeSpec, Enqueue, TypeOK, Referencing
<1>5. ASSUME NEW l \in Landscapes, ChangeAccess(l) \/ WatchStarts(l) \/ WatchFails(l)
      PROVE  Goal
  BY <1>2, <1>5 DEF ChangeAccess, WatchStarts, WatchFails, Enqueue, Referencing
<1> QED
  BY <1>1, <1>3, <1>4, <1>5 DEF Users, Gardener

\* No wake-up is lost, whatever fails, crashes and is changed, and without any
\* assumption on landscapes: what nobody is about to reconcile is registered as it
\* is, and what is gone is not registered at all.
THEOREM NoRequestIsLost == Spec => []SettledIsRegistered
<1>1. Init => SettledInv
  BY DEF Init, SettledInv, NothingKept, LandscapeStays, WorkerKnows, SettledIsRegistered,
         SettledConfig, SettledLandscape, Settled, Idle, Resources
<1>2. FinalizerInv /\ SettledInv /\ [Next]_vars => SettledInv'
  <2> SUFFICES ASSUME FinalizerInv, SettledInv, [Next]_vars PROVE SettledInv'
    OBVIOUS
  <2>1. CASE UNCHANGED vars
    BY <2>1 DEF SettledInv, NothingKept, LandscapeStays, WorkerKnows, SettledIsRegistered,
                SettledConfig, SettledLandscape, Settled, Referencing, vars, resourceVars,
                landscapeVars, profileVars
  <2>2. CASE Next
    <3>1. \A n \in Resources : NothingKept(n)'
      BY <2>2, KeptStart, KeptStep, KeptWorld DEF Next
    <3>2. \A p \in Configs : ConfigServed(p)'
      BY <2>2, ConfigStart, ConfigStep, ConfigWorld DEF Next
    <3>3. \A l \in Landscapes : LandscapeServed(l)'
      BY <2>2, LandscapeStart, LandscapeStep, LandscapeWorld DEF Next
    <3>4. \A p \in Configs : LandscapeKnown(p)'
      BY <2>2, KnownStart, KnownStep, KnownWorld DEF Next
    <3>5. WorkerKnows' /\ (w.pc = "releaseLandscape" => Referencing(w.n) = {})'
      BY <2>2, KnowsStart, KnowsStep, KnowsWorld DEF Next
    <3>6. LandscapeStays'
      BY <3>4, <3>5 DEF LandscapeStays, LandscapeKnown
    <3>7. SettledIsRegistered'
      BY <3>2, <3>3, <3>4
      DEF SettledIsRegistered, SettledConfig, ConfigServed, LandscapeServed, LandscapeKnown
    <3> QED
      BY <3>1, <3>5, <3>6, <3>7 DEF SettledInv
  <2> QED
    BY <2>1, <2>2
<1>3. SettledInv => SettledIsRegistered
  BY DEF SettledInv
<1> QED
  BY <1>1, <1>2, <1>3, FinalizerInvariant, PTL DEF Spec
=============================================================================
