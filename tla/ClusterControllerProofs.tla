----------------------- MODULE ClusterControllerProofs -----------------------
(***************************************************************************)
(* Theorems about the Cluster controller, for every set of Clusters,       *)
(* profiles, names and versions and every environment.                     *)
(***************************************************************************)
EXTENDS ClusterInvariant, TLAPS

-------------------------------------------------------------------------------
(***************************************************************************)
(* Lemmas about the operators the actions are built from.                  *)
(***************************************************************************)
\* What is read of a Cluster fits into the worker.
LEMMA BeginType ==
  ASSUME ClusterType, StatusType, NEW c \in Clusters
  PROVE  /\ Begin(c) \in Worker
         /\ Begin(c).c = c
         /\ Begin(c).ref = ref[c]
         /\ Begin(c).fins = fins[c]
<1>1. /\ stage[c] \in {"absent", "live", "deleting"}
      /\ fins[c] \in SUBSET {"own", "foreign"}
      /\ cons[c] \in SUBSET Conditions
      /\ ref[c] \in Refs \cup {None}
  BY DEF ClusterType, StatusType
<1> QED
  BY <1>1 DEF Begin, Idle, Worker

\* Setting a condition gives a set of conditions.
LEMMA ConditionType ==
  ASSUME NEW cs \in SUBSET Conditions, NEW con \in Conditions
  PROVE  ConditionFalse(cs, con) \in SUBSET Conditions
  BY DEF ConditionFalse, ManagementTrue

\* A reconcile that fails goes on with the status update of its Cluster.
LEMMA StatusErrorType ==
  ASSUME NEW r \in Worker, NEW con \in Conditions
  PROVE  /\ StatusError(r, con) \in Worker
         /\ StatusError(r, con).c = r.c
         /\ StatusError(r, con).pc = "status"
         /\ StatusError(r, con).ref = r.ref
<1>1. r.cons \in SUBSET Conditions
  BY DEF Worker
<1>2. ConditionFalse(r.cons, con) \in SUBSET Conditions
  BY <1>1, ConditionType
<1> QED
  BY <1>2 DEF StatusError, Worker

\* The outcome of a lookup is work on the Cluster that was taken.
LEMMA AfterLookupType ==
  ASSUME ClusterType, StatusType, NEW c \in Clusters, NEW k \in Keys,
         NEW s \in Shoots \cup {None}, NEW cs \in SUBSET Conditions
  PROVE  /\ AfterLookup(c, k, s, cs) \in Worker
         /\ AfterLookup(c, k, s, cs).c = c
         /\ AfterLookup(c, k, s, cs).pc = NextCall(c)
         /\ AfterLookup(c, k, s, cs).key = k
         /\ AfterLookup(c, k, s, cs).seen = s
         /\ AfterLookup(c, k, s, cs).ref = ref[c]
         /\ AfterLookup(c, k, s, cs).fins = fins[c]
<1>1. NextCall(c) \in {"deletion", "prepare", "finalizer"}
  BY DEF NextCall
<1>2. PICK r \in Worker : /\ r = Begin(c)
                         /\ r.c = c /\ r.ref = ref[c] /\ r.fins = fins[c]
  BY BeginType
<1>3. PICK n \in {"deletion", "prepare", "finalizer"} : n = NextCall(c)
  BY <1>1
<1>4. AfterLookup(c, k, s, cs) =
        [r EXCEPT !.pc = n, !.key = k, !.seen = s, !.cons = cs]
  BY <1>2, <1>3 DEF AfterLookup
<1>5. [r EXCEPT !.pc = n, !.key = k, !.seen = s, !.cons = cs] \in Worker
  BY DEF Worker
<1> QED
  BY <1>2, <1>3, <1>4, <1>5 DEF Worker

\* An update of a shoot gives a shoot, with the version the profile asks for or
\* the one it had.
LEMMA UpdateType ==
  ASSUME ClusterType, RegistryType, WorkerType, w.pc = "write"
  PROVE  UpdateShootFields \in Shoots /\ UpdateShootFields.owner = w.c
<1>1. w.c \in Clusters /\ profiles[ProfileOf[w.c]] \in Specs
  BY ConstantsAssumption DEF WorkerType, RegistryType
<1>2. SpecOf(w.c).ver \in Versions
  BY <1>1 DEF SpecOf, Specs
<1>3. w.seen \in Shoots \cup {None}
  BY DEF WorkerType, Worker
<1> QED
  BY <1>1, <1>2, <1>3 DEF UpdateShootFields, Shoots, computeK8sVersion

\* The place where the shoot of a Cluster would be created is a place.
LEMMA NewKeyType ==
  ASSUME ClusterType, RegistryType, NEW c \in Clusters, SpecOf(c) # None
  PROVE  NewKey(c) \in Keys /\ ProfileOf[c] \in Profiles /\ SpecOf(c) \in Specs
<1>1. ProfileOf[c] \in Profiles /\ HashName[c] \in Names /\ SpecOf(c) \in Specs
  BY ConstantsAssumption DEF SpecOf, RegistryType
<1>2. ShootK8sNameFromCluster(c) \in Names
  BY <1>1 DEF ShootK8sNameFromCluster, NameFor, ClusterType
<1> QED
  BY <1>1, <1>2 DEF NewKey, Keys, Specs

\* Whatever GetShoot finds is a shoot.
LEMMA GetShootType ==
  ASSUME ClusterType, StatusType, RegistryType, shoots \in [Keys -> Shoots \cup {None}],
         NEW c \in Clusters, SpecOf(c) # None, NEW k \in GetShoot(c)
  PROVE  k \in Keys /\ shoots[k] \in Shoots
<1>1. SpecOf(c) \in Specs
  BY NewKeyType
<1>2. k \in Keys
  BY <1>1 DEF GetShoot, Keys, Specs, Refs, StatusType
<1>3. shoots[k] # None
  BY DEF GetShoot
<1> QED
  BY <1>2, <1>3

-------------------------------------------------------------------------------
(***************************************************************************)
(* Type correctness.                                                       *)
(***************************************************************************)
\* What an action leaves alone keeps its type.
LEMMA SameType ==
  /\ ClusterType /\ UNCHANGED clusterVars => ClusterType'
  /\ StatusType /\ UNCHANGED statusVars => StatusType'
  /\ RegistryType /\ UNCHANGED registryVars => RegistryType'
  /\ WorkerType /\ UNCHANGED <<w, profiles>> => WorkerType'
  BY DEF ClusterType, StatusType, RegistryType, WorkerType,
         clusterVars, statusVars, registryVars

\* The number of faults stays within its bound.
LEMMA FaultsType ==
  ASSUME faults \in 0..MaxFaults, Fault \/ NoFault
  PROVE  faults' \in 0..MaxFaults
  BY ConstantsAssumption DEF Fault, NoFault

\* Starting a reconcile changes nothing of a Cluster but its annotation.
LEMMA AnnotationType ==
  ASSUME ClusterType, NEW c \in Clusters, UNCHANGED <<stage, fins, label>>,
         RemoveReconcileAnnotation(c) \/ UNCHANGED op
  PROVE  ClusterType'
  BY DEF ClusterType, RemoveReconcileAnnotation

\* A Cluster that is removed leaves nothing behind.
LEMMA RemoveType ==
  ASSUME ClusterType, StatusType, NEW c \in Clusters, Remove(c)
  PROVE  ClusterType' /\ StatusType'
<1>1. ClusterType'
  BY DEF ClusterType, Remove
<1>2. StatusType'
  BY DEF StatusType, Remove
<1> QED
  BY <1>1, <1>2

\* An idle worker and one that will update the status of its Cluster are well typed.
LEMMA StatusWorkerType ==
  ASSUME w' = Idle \/ (w' \in Worker /\ w'.pc \in {"status", "observe"} /\ w'.c \in Clusters)
  PROVE  WorkerType'
<1>1. Idle \in Worker /\ Idle.pc = "idle"
  BY DEF Idle, Worker
<1> QED
  BY <1>1 DEF WorkerType

\* A reconcile that has started is well typed.
LEMMA StartType ==
  ASSUME TypeOK, NEW c \in Clusters, Start(c)
  PROVE  TypeOK'
<1>1. /\ ClusterType /\ StatusType /\ RegistryType /\ WorkerType
      /\ shoots \in [Keys -> Shoots \cup {None}]
      /\ queue \in SUBSET Clusters /\ faults \in 0..MaxFaults
  BY DEF TypeOK
<1>2. /\ UNCHANGED <<stage, fins, label, statusVars, shoots, registryVars>>
      /\ RemoveReconcileAnnotation(c) \/ UNCHANGED op
      /\ queue' \in {queue, queue \ {c}}
      /\ Fault \/ NoFault
  BY DEF Start, Skip, StartFails, UnknownLandscape, PanicOnMissingClient,
         LookupFinds, LookupFindsNone, LookupFails, Ready, Started, NoFault, clusterVars
<1>3. ClusterType' /\ StatusType' /\ RegistryType'
  BY <1>1, <1>2, AnnotationType, SameType
<1>4. /\ shoots' \in [Keys -> Shoots \cup {None}]
      /\ queue' \in SUBSET Clusters
      /\ faults' \in 0..MaxFaults
  BY <1>1, <1>2, FaultsType
<1>5. WorkerType'
  <2> USE <1>1
  <2>1. CASE UNCHANGED w
    BY <2>1, <1>2, SameType DEF registryVars
  <2>2. CASE UnknownLandscape(c)
    <3>1. Begin(c) \in Worker /\ Begin(c).c = c
      BY BeginType
    <3>2. w' = StatusError(Begin(c), "Landscape")
      BY <2>2 DEF UnknownLandscape
    <3> QED
      BY <3>1, <3>2, StatusErrorType, StatusWorkerType DEF Conditions
  <2>3. CASE LookupFails(c)
    <3>1. Begin(c) \in Worker /\ Begin(c).c = c
      BY BeginType
    <3> DEFINE r == [Begin(c) EXCEPT !.cons = @ \ {"Landscape"}]
    <3>2. r \in Worker /\ r.c = c
      BY <3>1 DEF Worker
    <3>3. w' = StatusError(r, "Shoot")
      BY <2>3 DEF LookupFails
    <3> HIDE DEF r
    <3> QED
      BY <3>2, <3>3, StatusErrorType, StatusWorkerType DEF Conditions
  <2>4. ASSUME Ready(c), NEW k \in Keys, NEW s \in Shoots \cup {None},
               NEW cs \in SUBSET Conditions, w' = AfterLookup(c, k, s, cs)
        PROVE  WorkerType'
    <3>1. /\ w' \in Worker /\ w'.c = c /\ w'.key = k
      BY <2>4, AfterLookupType
    <3>2. profiles' = profiles /\ profiles[ProfileOf[c]] # None
      BY <2>4, <1>2 DEF Ready, Started, SpecOf, registryVars
    <3> QED
      BY <3>1, <3>2 DEF WorkerType
  <2>5. cons[c] \in SUBSET Conditions
    BY DEF StatusType
  <2>6. CASE LookupFinds(c)
    <3>1. PICK k \in GetShoot(c) :
            w' = AfterLookup(c, k, shoots[k],
                   WithGardener(ConditionFalse(cons[c] \ {"Landscape"}, "ShootNotFound"),
                                shoots[k]))
      BY <2>6 DEF LookupFinds
    <3>2. Ready(c) /\ SpecOf(c) # None
      BY <2>6 DEF LookupFinds, Ready, Started
    <3>3. k \in Keys /\ shoots[k] \in Shoots
      BY <3>2, GetShootType
    <3> DEFINE d == ConditionFalse(cons[c] \ {"Landscape"}, "ShootNotFound")
    <3>4. d \in SUBSET Conditions
      BY <2>5, ConditionType DEF Conditions
    <3> HIDE DEF d
    <3>5. WithGardener(d, shoots[k]) \in SUBSET Conditions
      BY <3>4 DEF WithGardener, Conditions
    <3> QED
      BY <3>1, <3>2, <3>3, <3>5, <2>4 DEF d
  <2>7. CASE LookupFindsNone(c)
    <3>1. Ready(c) /\ SpecOf(c) # None
          /\ w' = AfterLookup(c, NewKey(c), None, cons[c] \ {"Landscape"})
      BY <2>7 DEF LookupFindsNone, Ready, Started
    <3>2. NewKey(c) \in Keys
      BY <3>1, NewKeyType
    <3> QED
      BY <3>1, <3>2, <2>4, <2>5
  <2> QED
    BY <2>1, <2>2, <2>3, <2>6, <2>7
       DEF Start, Skip, StartFails, PanicOnMissingClient
<1> QED
  BY <1>3, <1>4, <1>5 DEF TypeOK

\* A call of a reconcile that has started keeps the types.
LEMMA StepType ==
  ASSUME TypeOK, Step
  PROVE  TypeOK'
<1>1. /\ ClusterType /\ StatusType /\ RegistryType /\ WorkerType
      /\ shoots \in [Keys -> Shoots \cup {None}]
      /\ queue \in SUBSET Clusters /\ faults \in 0..MaxFaults
  BY DEF TypeOK
<1>2. w.pc # "idle" /\ w \in Worker /\ w.c \in Clusters
  BY <1>1 DEF Step, AddFinalizer, Prepare, WriteShoot, Observe, PostponeDeletion,
              DeleteShoot, ReleaseCluster, UpdateStatus, WorkerType
<1>3. UNCHANGED registryVars /\ RegistryType'
  BY <1>1, SameType DEF Step, AddFinalizer, Prepare, WriteShoot, Observe,
       PostponeDeletion, DeleteShoot, ReleaseCluster, UpdateStatus
<1>4. profiles' = profiles
  BY <1>3 DEF registryVars
<1>5. faults' \in 0..MaxFaults
  <2>1. (Fault \/ NoFault) \/ UNCHANGED faults
    BY DEF Step, AddFinalizer, Prepare, WriteShoot, Observe, PostponeDeletion,
           DeleteShoot, ReleaseCluster, UpdateStatus
  <2> QED
    BY <1>1, <2>1, FaultsType
<1>6. ASSUME NEW r \in Worker, r.c = w.c, NEW con \in Conditions,
             w' = StatusError(r, con)
      PROVE  WorkerType'
  BY <1>2, <1>6, StatusErrorType, StatusWorkerType
<1>7. ASSUME NEW cs \in SUBSET Conditions
      PROVE  [w EXCEPT !.cons = cs] \in Worker /\ [w EXCEPT !.cons = cs].c = w.c
  BY <1>2 DEF Worker
<1>8. ASSUME NEW cs \in SUBSET Conditions, NEW n \in {"observe", "status"},
             w' = [w EXCEPT !.pc = n, !.cons = cs]
      PROVE  WorkerType'
  <2>1. w' \in Worker /\ w'.pc = n /\ w'.c = w.c
    BY <1>2, <1>8 DEF Worker
  <2> QED
    BY <1>2, <2>1, StatusWorkerType
<1>9. /\ w.cons \in SUBSET Conditions
      /\ w.cons \ {"Foreign"} \in SUBSET Conditions
      /\ w.cons \ {"Observability"} \in SUBSET Conditions
      /\ ManagementTrue(w.cons) \in SUBSET Conditions
  BY <1>2 DEF Worker, ManagementTrue
<1>10. {"Foreign", "Shoot", "Config", "Meta", "Observability"} \subseteq Conditions
  BY DEF Conditions
<1>11. CASE AddFinalizer
  <2>1. UNCHANGED <<stage, label, op, statusVars, shoots, queue>>
    BY <1>11 DEF AddFinalizer
  <2>2. ClusterType'
    BY <1>1, <1>2, <1>11, <2>1 DEF AddFinalizer, ClusterType, Worker
  <2>3. WorkerType'
    <3>1. CASE w' = StatusError(w, "Meta")
      BY <1>2, <1>6, <1>10, <3>1
    <3>2. CASE w' = [w EXCEPT !.pc = "prepare", !.fins = @ \cup {"own"}]
      <4>1. w.pc = "finalizer" /\ w.key \in Keys /\ profiles[ProfileOf[w.c]] # None
        BY <1>1, <1>11 DEF AddFinalizer, WorkerType
      <4>2. w' \in Worker /\ w'.c = w.c /\ w'.key = w.key
        BY <1>2, <3>2 DEF Worker
      <4> QED
        BY <1>2, <1>4, <4>1, <4>2 DEF WorkerType
    <3> QED
      BY <1>11, <3>1, <3>2 DEF AddFinalizer
  <2> QED
    BY <1>1, <1>3, <1>5, <2>1, <2>2, <2>3, SameType DEF TypeOK
<1>12. CASE Prepare
  <2>1. UNCHANGED <<clusterVars, statusVars, shoots, queue>>
    BY <1>12 DEF Prepare
  <2>2. WorkerType'
    <3>1. ASSUME NEW con \in {"Config", "Shoot", "Meta"}, w' = StatusError(w, con)
          PROVE  WorkerType'
      BY <1>2, <1>6, <1>10, <3>1
    <3>2. ASSUME NEW d \in {w.deleting, stage[w.c] = "deleting"},
                 w' = [w EXCEPT !.pc = "write", !.deleting = d,
                                !.ref = <<w.key[2], w.key[3]>>,
                                !.cons = @ \ {"Config", "Meta"}]
          PROVE  WorkerType'
      <4>1. w.pc = "prepare" /\ w.key \in Keys /\ profiles[ProfileOf[w.c]] # None
        BY <1>1, <1>12 DEF Prepare, WorkerType
      <4>2. d \in BOOLEAN
        BY <1>2 DEF Worker
      <4>3. <<w.key[2], w.key[3]>> \in Refs
        BY <4>1 DEF Keys, Refs
      <4>4. w' \in Worker /\ w'.c = w.c /\ w'.key = w.key
        BY <1>2, <3>2, <4>2, <4>3 DEF Worker
      <4> QED
        BY <1>2, <1>4, <4>1, <4>4 DEF WorkerType
    <3> QED
      BY <1>12, <3>1, <3>2 DEF Prepare
  <2> QED
    BY <1>1, <1>3, <1>5, <2>1, <2>2, SameType DEF TypeOK
<1>13. CASE WriteShoot
  <2>1. UNCHANGED <<clusterVars, statusVars, queue>>
    BY <1>13 DEF WriteShoot
  <2>2. w.pc = "write" /\ w.key \in Keys
    BY <1>1, <1>13 DEF WriteShoot, WorkerType
  <2>3. shoots' \in [Keys -> Shoots \cup {None}]
    BY <1>1, <1>13, <2>2, UpdateType DEF WriteShoot
  <2>4. \/ w' = [w EXCEPT !.pc = "observe", !.cons = ManagementTrue(w.cons)]
        \/ w' = StatusError(w, "Shoot")
    BY <1>13 DEF WriteShoot
  <2>5. WorkerType'
    BY <1>2, <1>6, <1>8, <1>9, <1>10, <2>4
  <2> QED
    BY <1>1, <1>3, <1>5, <2>1, <2>3, <2>5, SameType DEF TypeOK
<1>14. CASE Observe
  <2>1. UNCHANGED <<clusterVars, statusVars, shoots, queue>>
    BY <1>14 DEF Observe
  <2>2. \/ w' = [w EXCEPT !.pc = "status", !.cons = w.cons \ {"Observability"}]
        \/ w' = StatusError(w, "Observability")
    BY <1>14 DEF Observe
  <2>3. WorkerType'
    BY <1>2, <1>6, <1>8, <1>9, <1>10, <2>2
  <2> QED
    BY <1>1, <1>3, <1>5, <2>1, <2>3, SameType DEF TypeOK
<1>15. CASE PostponeDeletion
  <2>1. UNCHANGED <<clusterVars, statusVars, shoots, queue>>
    BY <1>15 DEF PostponeDeletion
  <2>2. w' = [w EXCEPT !.pc = "status", !.cons = ConditionFalse(w.cons, "Foreign")]
    BY <1>15 DEF PostponeDeletion
  <2>3. WorkerType'
    BY <1>8, <1>9, <1>10, <2>2, ConditionType
  <2> QED
    BY <1>1, <1>3, <1>5, <2>1, <2>3, SameType DEF TypeOK
<1>16. CASE DeleteShoot
  <2>1. UNCHANGED <<clusterVars, statusVars, queue>>
    BY <1>16 DEF DeleteShoot
  <2>2. w.key \in Keys
    BY <1>1, <1>16 DEF DeleteShoot, WorkerType
  <2>3. \/ UNCHANGED shoots
        \/ /\ shoots[w.key] # None
           /\ shoots' = [shoots EXCEPT ![w.key].deleting = TRUE]
    BY <1>16 DEF DeleteShoot
  <2>4. shoots' \in [Keys -> Shoots \cup {None}]
    <3>1. shoots[w.key] # None => [shoots[w.key] EXCEPT !.deleting = TRUE] \in Shoots
      BY <1>1, <2>2 DEF Shoots
    <3> QED
      BY <1>1, <2>2, <2>3, <3>1
  <2> DEFINE cs == ConditionFalse(w.cons \ {"Foreign"}, "Shoot")
  <2>5. \/ w' = [w EXCEPT !.pc = "status", !.cons = cs]
        \/ w' = StatusError([w EXCEPT !.cons = w.cons \ {"Foreign"}], "Shoot")
    BY <1>16 DEF DeleteShoot
  <2>6. cs \in SUBSET Conditions
    BY <1>9, <1>10, ConditionType
  <2>7. WorkerType'
    <3> HIDE DEF cs
    <3> QED
      BY <1>6, <1>7, <1>8, <1>9, <1>10, <2>5, <2>6
  <2> QED
    BY <1>1, <1>3, <1>5, <2>1, <2>4, <2>7, SameType DEF TypeOK
<1>17. CASE ReleaseCluster
  <2>1. UNCHANGED shoots
    BY <1>17 DEF ReleaseCluster
  <2>2. queue' \in SUBSET Clusters
    BY <1>1, <1>2, <1>17 DEF ReleaseCluster, Enqueue
  <2>3. ClusterType' /\ StatusType'
    BY <1>1, <1>2, <1>17, RemoveType, SameType DEF ReleaseCluster
  <2>4. WorkerType'
    <3>1. ASSUME NEW con \in {"Config", "Meta"},
                 w' = StatusError([w EXCEPT !.cons = w.cons \ {"Foreign"}], con)
          PROVE  WorkerType'
      BY <1>6, <1>7, <1>9, <1>10, <3>1
    <3> QED
      BY <1>17, <3>1, StatusWorkerType DEF ReleaseCluster
  <2> QED
    BY <1>1, <1>3, <1>5, <2>1, <2>2, <2>3, <2>4 DEF TypeOK
<1>18. CASE UpdateStatus
  <2>1. UNCHANGED <<clusterVars, shoots>> /\ w' = Idle
    BY <1>18 DEF UpdateStatus
  <2>2. queue' \in SUBSET Clusters
    BY <1>1, <1>2, <1>18 DEF UpdateStatus
  <2>3. PhaseOf(w) \in {"Ready", "Progressing", "Terminating"}
    BY DEF PhaseOf
  <2>4. StatusType'
    BY <1>1, <1>2, <1>18, <2>3 DEF UpdateStatus, StatusType, statusVars, Worker
  <2>5. ClusterType' /\ WorkerType'
    BY <1>1, <2>1, SameType, StatusWorkerType
  <2> QED
    BY <1>1, <1>3, <1>5, <2>1, <2>2, <2>4, <2>5 DEF TypeOK
<1> QED
  BY <1>11, <1>12, <1>13, <1>14, <1>15, <1>16, <1>17, <1>18 DEF Step

\* A crash and the other controllers keep the types.
LEMMA RegistryStepType ==
  ASSUME TypeOK, Crash \/ Registry
  PROVE  TypeOK'
<1>1. /\ ClusterType /\ StatusType /\ RegistryType /\ WorkerType
      /\ shoots \in [Keys -> Shoots \cup {None}]
      /\ queue \in SUBSET Clusters /\ faults \in 0..MaxFaults
  BY DEF TypeOK
<1>2. CASE Crash
  <2>1. ClusterType' /\ StatusType' /\ WorkerType'
    BY <1>1, <1>2, SameType, StatusWorkerType DEF Crash
  <2>2. RegistryType'
    BY <1>1, <1>2 DEF Crash, RegistryType, Reg!Restart
  <2>3. /\ shoots' \in [Keys -> Shoots \cup {None}] /\ queue' \in SUBSET Clusters
        /\ faults' \in 0..MaxFaults
    BY <1>1, <1>2, FaultsType DEF Crash
  <2> QED
    BY <2>1, <2>2, <2>3 DEF TypeOK
<1>3. ASSUME w.pc = "idle", UNCHANGED w
      PROVE  WorkerType'
  BY <1>1, <1>3 DEF WorkerType
<1>4. ASSUME NEW p \in Profiles, RegisterProfile(p)
      PROVE  TypeOK'
  <2>1. UNCHANGED <<clusterVars, statusVars, shoots, landscapes, watch, w>> /\ w.pc = "idle"
    BY <1>4 DEF RegisterProfile, Reg!Register
  <2>2. RegistryType'
    <3>1. PICK s \in ProfileSpecs[p] : profiles' = [profiles EXCEPT ![p] = s]
      BY <1>4 DEF RegisterProfile, Reg!Register
    <3>2. s \in Specs
      BY ConstantsAssumption
    <3>3. published' = published \cup {p}
      BY <1>4 DEF RegisterProfile, Reg!Register
    <3> QED
      BY <1>1, <2>1, <3>1, <3>2, <3>3 DEF RegistryType
  <2>3. queue' \in SUBSET Clusters /\ faults' \in 0..MaxFaults
    BY <1>1, <1>4, FaultsType DEF RegisterProfile, UsersOf
  <2> QED
    BY <1>1, <1>3, <2>1, <2>2, <2>3, SameType DEF TypeOK
<1>5. ASSUME NEW p \in Profiles, DropProfile(p)
      PROVE  TypeOK'
  <2>1. /\ UNCHANGED <<clusterVars, statusVars, shoots, landscapes, watch, w, faults>>
        /\ w.pc = "idle"
    BY <1>5 DEF DropProfile, Reg!Unregister, Reg!Publish
  <2>2. RegistryType' /\ queue' \in SUBSET Clusters
    BY <1>1, <1>5, <2>1
    DEF DropProfile, RegistryType, UsersOf, Reg!Unregister, Reg!Publish
  <2> QED
    BY <1>1, <1>3, <2>1, <2>2, SameType DEF TypeOK
<1>6. ASSUME NEW l \in Landscapes, SetLandscape(l) \/ LoseLandscape(l) \/ WatchSynced(l)
      PROVE  TypeOK'
  <2>1. UNCHANGED <<clusterVars, statusVars, shoots, profiles, published, queue, w, faults>>
    BY <1>6 DEF SetLandscape, LoseLandscape, WatchSynced, Reg!SetLandscape,
                Reg!LoseLandscape
  <2>2. RegistryType'
    BY <1>1, <1>6, <2>1 DEF SetLandscape, LoseLandscape, WatchSynced, RegistryType,
                            Reg!SetLandscape, Reg!LoseLandscape
  <2> QED
    BY <1>1, <2>1, <2>2, SameType DEF TypeOK
<1> QED
  BY <1>2, <1>4, <1>5, <1>6 DEF Registry

\* Gardener and the users keep the types.
LEMMA EnvironmentType ==
  ASSUME TypeOK, Gardener \/ Users
  PROVE  TypeOK'
<1>1. /\ ClusterType /\ StatusType /\ RegistryType /\ WorkerType
      /\ shoots \in [Keys -> Shoots \cup {None}]
      /\ queue \in SUBSET Clusters /\ faults \in 0..MaxFaults
  BY DEF TypeOK
<1>2. UNCHANGED <<registryVars, w, faults, profiles>>
  BY DEF Gardener, Users, ShootCondition, ShootUpgrade, ShootDeletedByUser, ShootGone,
         CreateCluster, DeleteCluster, Relabel, AddForeignFinalizer,
         RemoveForeignFinalizer, Annotate, GenerationChanged, registryVars
<1>3. RegistryType' /\ WorkerType' /\ faults' \in 0..MaxFaults
  BY <1>1, <1>2, SameType
<1>4. ASSUME NEW k \in Keys,
             ShootCondition(k) \/ ShootUpgrade(k) \/ ShootDeletedByUser(k) \/ ShootGone(k)
      PROVE  TypeOK'
  <2>1. UNCHANGED <<clusterVars, statusVars>> /\ shoots[k] \in Shoots
    BY <1>1, <1>4 DEF ShootCondition, ShootUpgrade, ShootDeletedByUser, ShootGone
  <2>2. queue' \in SUBSET Clusters
    BY <1>1, <1>4, <2>1
       DEF ShootCondition, ShootUpgrade, ShootDeletedByUser, ShootGone, ShootEvent, Shoots
  <2>3. shoots' \in [Keys -> Shoots \cup {None}]
    <3>1. CASE ShootCondition(k)
      BY <1>1, <2>1, <3>1 DEF ShootCondition, Shoots
    <3>2. CASE ShootUpgrade(k)
      <4>1. shoots[k].ver + 1 \in Versions
        BY <2>1, <3>2, ConstantsAssumption DEF ShootUpgrade, Shoots, Versions
      <4>2. [shoots[k] EXCEPT !.ver = shoots[k].ver + 1] \in Shoots
        BY <2>1, <4>1 DEF Shoots
      <4> QED
        BY <1>1, <3>2, <4>2 DEF ShootUpgrade
    <3>3. CASE ShootDeletedByUser(k)
      BY <1>1, <2>1, <3>3 DEF ShootDeletedByUser, Shoots
    <3>4. CASE ShootGone(k)
      BY <1>1, <3>4 DEF ShootGone
    <3> QED
      BY <1>4, <3>1, <3>2, <3>3, <3>4
  <2> QED
    BY <1>1, <1>3, <2>1, <2>2, <2>3, SameType DEF TypeOK
<1>5. ASSUME NEW c \in Clusters,
             \/ CreateCluster(c) \/ DeleteCluster(c) \/ Relabel(c)
             \/ AddForeignFinalizer(c) \/ RemoveForeignFinalizer(c)
             \/ Annotate(c) \/ GenerationChanged(c)
      PROVE  TypeOK'
  <2>1. UNCHANGED shoots /\ queue' \in SUBSET Clusters
    BY <1>1, <1>5 DEF CreateCluster, DeleteCluster, Relabel, AddForeignFinalizer,
       RemoveForeignFinalizer, Annotate, GenerationChanged, Enqueue
  <2>2. ClusterType' /\ StatusType'
    <3>1. CASE Remove(c)
      BY <1>1, <3>1, RemoveType
    <3>2. CASE UNCHANGED statusVars
      <4>1. StatusType'
        BY <1>1, <3>2, SameType
      <4>2. CASE CreateCluster(c)
        <5>1. PICK n \in LabelNames[c] : label' = [label EXCEPT ![c] = n]
          BY <4>2 DEF CreateCluster
        <5>2. n \in Names \cup {None}
          BY ConstantsAssumption
        <5> QED
          BY <1>1, <4>1, <4>2, <5>1, <5>2 DEF CreateCluster, ClusterType
      <4>3. CASE DeleteCluster(c)
        BY <1>1, <3>1, <4>1, <4>3 DEF DeleteCluster, ClusterType
      <4>4. CASE Relabel(c)
        <5>1. PICK n \in LabelNames[c] : label' = [label EXCEPT ![c] = n]
          BY <4>4 DEF Relabel
        <5>2. n \in Names \cup {None}
          BY ConstantsAssumption
        <5> QED
          BY <1>1, <4>1, <4>4, <5>1, <5>2 DEF Relabel, ClusterType
      <4>5. CASE AddForeignFinalizer(c)
        BY <1>1, <4>1, <4>5 DEF AddForeignFinalizer, ClusterType
      <4>6. CASE RemoveForeignFinalizer(c)
        BY <1>1, <3>1, <4>1, <4>6 DEF RemoveForeignFinalizer, ClusterType
      <4>7. CASE Annotate(c)
        BY <1>1, <4>1, <4>7 DEF Annotate, ClusterType
      <4>8. CASE GenerationChanged(c)
        BY <1>1, <4>1, <4>8, SameType DEF GenerationChanged
      <4> QED
        BY <1>5, <4>2, <4>3, <4>4, <4>5, <4>6, <4>7, <4>8
    <3> QED
      BY <1>5, <3>1, <3>2 DEF CreateCluster, DeleteCluster, Relabel, AddForeignFinalizer,
         RemoveForeignFinalizer, Annotate, GenerationChanged
  <2> QED
    BY <1>1, <1>3, <2>1, <2>2 DEF TypeOK
<1> QED
  BY <1>4, <1>5 DEF Gardener, Users

\* The initial state is well typed.
LEMMA InitType == Init => TypeOK
<1> SUFFICES ASSUME Init PROVE TypeOK
  OBVIOUS
<1>1. Idle \in Worker /\ Idle.pc = "idle"
  BY DEF Idle, Worker
<1>2. ClusterType /\ StatusType /\ RegistryType /\ WorkerType
  BY <1>1 DEF Init, ClusterType, StatusType, RegistryType, WorkerType
<1> QED
  BY <1>2, ConstantsAssumption DEF Init, TypeOK

\* Every step keeps the types.
LEMMA TypeStep ==
  ASSUME TypeOK, [Next]_vars
  PROVE  TypeOK'
<1>1. CASE Next
  BY <1>1, StartType, StepType, RegistryStepType, EnvironmentType DEF Next
<1>2. CASE UNCHANGED vars
  BY <1>2, SameType DEF TypeOK, vars, registryVars
<1> QED
  BY <1>1, <1>2


\* Every reachable state is well typed: in particular no reconcile is ever without
\* the profile it needs when it writes a shoot, because profiles only change under
\* the write lock.
THEOREM TypeCorrect == Spec => []TypeOK
<1>1. TypeOK /\ [Next]_vars => TypeOK'
  BY TypeStep
<1> QED
  BY <1>1, InitType, PTL DEF Spec

-------------------------------------------------------------------------------
(***************************************************************************)
(* The inductive invariant, for Clusters whose shoot has one possible      *)
(* place.  Names of different Clusters may still collide here.             *)
(***************************************************************************)
\* The place where a shoot would be created is the Cluster's home.
LEMMA NewKeyIsHome ==
  ASSUME StableNames, FixedHomes, RegistryInv, NEW c \in Clusters, ProfileOf[c] \in Profiles,
         SpecOf(c) # None, label[c] \in LabelNames[c]
  PROVE  HomeKey(c, NewKey(c))
<1>1. SpecOf(c) \in ProfileSpecs[ProfileOf[c]]
  BY DEF RegistryInv, SpecOf
<1>2. \A s \in ProfileSpecs[ProfileOf[c]] : SpecOf(c).ls = s.ls /\ SpecOf(c).ns = s.ns
  BY <1>1 DEF FixedHomes
<1>3. \A n \in LabelNames[c] : ShootK8sNameFromCluster(c) = NameFor(c, n)
  BY DEF StableNames, ShootK8sNameFromCluster
<1> QED
  BY <1>2, <1>3 DEF HomeKey, NewKey

\* What GetShoot finds is at home.
LEMMA FoundIsHome ==
  ASSUME StableNames, FixedHomes, TypeOK, RegistryInv, ClusterInv, ShootInv,
         NEW c \in Clusters, SpecOf(c) # None, NEW k \in GetShoot(c)
  PROVE  HomeKey(c, k)
<1>1. k \in Keys /\ shoots[k] # None
  BY GetShootType, ConstantsAssumption DEF TypeOK, GetShoot
<1>2. CASE ref[c] = None
  <2>1. shoots[k].owner = c
    BY <1>2 DEF GetShoot
  <2> QED
    BY <1>1, <2>1 DEF ShootInv
<1>3. CASE ref[c] # None
  <2>1. k = <<SpecOf(c).ls, ref[c][1], ref[c][2]>> /\ HomeRef(c, ref[c])
    BY <1>3 DEF GetShoot, ClusterInv
  <2>2. SpecOf(c) \in ProfileSpecs[ProfileOf[c]] /\ ProfileOf[c] \in Profiles
    BY NewKeyType DEF RegistryInv, SpecOf, TypeOK
  <2>3. \A s \in ProfileSpecs[ProfileOf[c]] : SpecOf(c).ls = s.ls
    BY <2>2 DEF FixedHomes
  <2> QED
    BY <2>1, <2>3 DEF HomeKey, HomeRef
<1> QED
  BY <1>2, <1>3

\* When GetShoot finds nothing, the Cluster has no shoot at all: the place it
\* looked at is the only one the Cluster's shoot could be at.
LEMMA NothingFound ==
  ASSUME StableNames, FixedHomes, TypeOK, RegistryInv, ClusterInv, ShootInv,
         NEW c \in Clusters, stage[c] # "absent", SpecOf(c) # None, GetShoot(c) = {}
  PROVE  ShootsOf(c) = {}
<1> SUFFICES ASSUME NEW k \in Keys, shoots[k] # None, shoots[k].owner = c
             PROVE  FALSE
  BY DEF ShootsOf
<1>1. HomeKey(c, k) /\ label[c] \in LabelNames[c]
  BY DEF ShootInv, ClusterInv
<1>2. SpecOf(c) \in ProfileSpecs[ProfileOf[c]] /\ SpecOf(c) \in Specs
  BY NewKeyType DEF RegistryInv, SpecOf, TypeOK
<1>3. k[1] = SpecOf(c).ls /\ k[2] = SpecOf(c).ns
  BY <1>1, <1>2 DEF HomeKey
<1>4. CASE ref[c] = None
  BY <1>3, <1>4 DEF GetShoot
<1>5. CASE ref[c] # None
  <2>1. HomeRef(c, ref[c])
    BY <1>5 DEF ClusterInv
  <2>2. ref[c][1] = k[2] /\ ref[c][2] = k[3]
    BY <1>1, <1>2, <1>3, <2>1 DEF HomeRef, HomeKey
  <2>3. k = <<SpecOf(c).ls, ref[c][1], ref[c][2]>>
    BY <1>3, <2>2 DEF Keys
  <2> QED
    BY <1>5, <2>3 DEF GetShoot
<1> QED
  BY <1>4, <1>5

\* What an action leaves alone keeps its part of the invariant.
LEMMA SameInv ==
  /\ RegistryInv /\ UNCHANGED profiles => RegistryInv'
  /\ ClusterInv /\ UNCHANGED <<stage, fins, label, ref>> => ClusterInv'
  /\ ShootInv /\ UNCHANGED <<shoots, stage, fins>> => ShootInv'
  /\ WorkerInv /\ UNCHANGED <<w, shoots, stage, fins>> => WorkerInv'
  BY DEF RegistryInv, ClusterInv, ShootInv, WorkerInv, ShootsOf

\* A worker that is done with the shoot, or idle, knows nothing but the status.
LEMMA StatusWorkerInv ==
  ASSUME w' = Idle \/ w'.pc \in {"status", "observe"},
         w' = Idle \/ (w'.ref # None => HomeRef(w'.c, w'.ref))
  PROVE  WorkerInv'
<1>1. Idle.pc = "idle" /\ Idle.ref = None
  BY DEF Idle
<1> QED
  BY <1>1 DEF WorkerInv

\* Starting a reconcile keeps the invariant.
LEMMA StartInv ==
  ASSUME StableNames, FixedHomes, IInv, NEW c \in Clusters, Start(c)
  PROVE  RegistryInv' /\ ClusterInv' /\ ShootInv' /\ WorkerInv'
<1>1. TypeOK /\ RegistryInv /\ ClusterInv /\ ShootInv /\ WorkerInv
  BY DEF IInv
<1>2. ClusterType /\ StatusType /\ RegistryType
  BY <1>1 DEF TypeOK
<1>3. UNCHANGED <<stage, fins, label, ref, shoots, profiles>>
  BY DEF Start, Skip, StartFails, UnknownLandscape, PanicOnMissingClient, LookupFinds,
         LookupFindsNone, LookupFails, Ready, Started, statusVars, registryVars, clusterVars
<1>4. RegistryInv' /\ ClusterInv' /\ ShootInv'
  BY <1>1, <1>3, SameInv
<1>5. ref[c] # None => HomeRef(c, ref[c])
  BY <1>1 DEF ClusterInv
<1>6. /\ Begin(c) \in Worker /\ Begin(c).c = c /\ Begin(c).ref = ref[c]
  BY <1>2, BeginType
<1>7. CASE UNCHANGED w
  BY <1>1, <1>3, <1>4, <1>7, SameInv
<1>8. CASE UnknownLandscape(c)
  <2>1. w' = StatusError(Begin(c), "Landscape") /\ "Landscape" \in Conditions
    BY <1>8 DEF UnknownLandscape, Conditions
  <2>2. w'.pc = "status" /\ w'.c = c /\ w'.ref = ref[c]
    BY <1>6, <2>1, StatusErrorType
  <2> QED
    BY <1>4, <1>5, <2>2, StatusWorkerInv
<1>9. CASE LookupFails(c)
  <2> DEFINE r == [Begin(c) EXCEPT !.cons = @ \ {"Landscape"}]
  <2>1. r \in Worker /\ r.c = c /\ r.ref = ref[c]
    BY <1>6 DEF Worker
  <2>2. w' = StatusError(r, "Shoot") /\ "Shoot" \in Conditions
    BY <1>9 DEF LookupFails, Conditions
  <2> HIDE DEF r
  <2>3. w'.pc = "status" /\ w'.c = c /\ w'.ref = ref[c]
    BY <2>1, <2>2, StatusErrorType
  <2> QED
    BY <1>4, <1>5, <2>3, StatusWorkerInv
<1>10. ASSUME Ready(c), NEW k \in Keys, NEW s \in Shoots \cup {None},
              NEW cs \in SUBSET Conditions, w' = AfterLookup(c, k, s, cs),
              HomeKey(c, k), s = None => ShootsOf(c) = {}
       PROVE  WorkerInv'
  <2>1. /\ w'.c = c /\ w'.pc = NextCall(c) /\ w'.key = k /\ w'.seen = s
        /\ w'.ref = ref[c] /\ w'.fins = fins[c]
    BY <1>2, <1>10, AfterLookupType
  <2>2. stage[c] # "absent"
    BY <1>10 DEF Ready, Started
  <2>3. w'.pc \in {"prepare", "write"} => stage'[c] # "absent" /\ "own" \in fins'[c]
    BY <1>3, <2>1, <2>2 DEF NextCall
  <2>4. w'.pc = "deletion" => stage[c] = "deleting"
    BY <2>1 DEF NextCall
  <2>5. ASSUME w'.pc = "deletion", "foreign" \notin w'.fins
        PROVE  stage'[c] = "deleting" /\ fins'[c] = {"own"}
    <3>1. fins[c] # {} /\ fins[c] \in SUBSET {"own", "foreign"} /\ "foreign" \notin fins[c]
      BY <1>1, <1>2, <2>1, <2>4, <2>5 DEF ClusterInv, ClusterType
    <3> QED
      BY <1>3, <2>4, <2>5, <3>1
  <2>6. w'.seen = None => ShootsOf(c)' = {}
    BY <1>3, <1>10, <2>1 DEF ShootsOf
  <2> QED
    BY <1>5, <1>10, <2>1, <2>3, <2>5, <2>6 DEF WorkerInv
<1>11. cons[c] \in SUBSET Conditions
  BY <1>2 DEF StatusType
<1>12. CASE LookupFinds(c)
  <2>1. PICK k \in GetShoot(c) :
          w' = AfterLookup(c, k, shoots[k],
                 WithGardener(ConditionFalse(cons[c] \ {"Landscape"}, "ShootNotFound"),
                              shoots[k]))
    BY <1>12 DEF LookupFinds
  <2>2. Ready(c) /\ SpecOf(c) # None
    BY <1>12 DEF LookupFinds, Ready, Started
  <2>3. k \in Keys /\ shoots[k] \in Shoots /\ HomeKey(c, k)
    BY <1>1, <1>2, <2>2, GetShootType, FoundIsHome DEF TypeOK
  <2>4. shoots[k] # None
    BY <2>3, ConstantsAssumption
  <2> DEFINE d == ConditionFalse(cons[c] \ {"Landscape"}, "ShootNotFound")
  <2>5. d \in SUBSET Conditions
    BY <1>11, ConditionType DEF Conditions
  <2> HIDE DEF d
  <2>6. WithGardener(d, shoots[k]) \in SUBSET Conditions
    BY <2>5 DEF WithGardener, Conditions
  <2>7. w' = AfterLookup(c, k, shoots[k], WithGardener(d, shoots[k]))
    BY <2>1 DEF d
  <2>8. WorkerInv'
    BY <1>10, <2>2, <2>3, <2>4, <2>6, <2>7
  <2> QED
    BY <1>4, <2>8
<1>13. CASE LookupFindsNone(c)
  <2>1. /\ Ready(c) /\ SpecOf(c) # None /\ stage[c] # "absent" /\ GetShoot(c) = {}
        /\ w' = AfterLookup(c, NewKey(c), None, cons[c] \ {"Landscape"})
    BY <1>13 DEF LookupFindsNone, Ready, Started
  <2>2. NewKey(c) \in Keys /\ ProfileOf[c] \in Profiles
    BY <1>2, <2>1, NewKeyType
  <2>3. HomeKey(c, NewKey(c))
    BY <1>1, <2>1, <2>2, NewKeyIsHome DEF ClusterInv
  <2>4. ShootsOf(c) = {}
    BY <1>1, <2>1, NothingFound
  <2>5. WorkerInv'
    BY <1>10, <1>11, <2>1, <2>2, <2>3, <2>4
  <2> QED
    BY <1>4, <2>5
<1> QED
  BY <1>4, <1>7, <1>8, <1>9, <1>12, <1>13
     DEF Start, Skip, StartFails, PanicOnMissingClient

\* Removing a Cluster that is not held back by a shoot keeps the invariant.
LEMMA RemoveInv ==
  ASSUME IInv, NEW c \in Clusters, Remove(c), UNCHANGED shoots, ShootsOf(c) = {}
  PROVE  ClusterInv' /\ ShootInv'
<1>1. /\ ClusterType /\ StatusType /\ ClusterInv /\ ShootInv
      /\ shoots \in [Keys -> Shoots \cup {None}]
  BY DEF IInv, TypeOK
<1>2. ClusterInv'
  BY <1>1 DEF ClusterInv, Remove, ClusterType, StatusType
<1>3. ASSUME NEW k \in Keys, shoots[k] # None PROVE shoots[k].owner \in Clusters \ {c}
  BY <1>1, <1>3 DEF ShootsOf, Shoots
<1>4. ShootInv'
  BY <1>1, <1>3 DEF ShootInv, Remove, ClusterType
<1> QED
  BY <1>2, <1>4

\* A call of a reconcile that has started keeps the invariant.
LEMMA StepInv ==
  ASSUME IInv, Step
  PROVE  RegistryInv' /\ ClusterInv' /\ ShootInv' /\ WorkerInv'
<1>1. TypeOK /\ RegistryInv /\ ClusterInv /\ ShootInv /\ WorkerInv
  BY DEF IInv
<1>2. /\ ClusterType /\ StatusType /\ RegistryType /\ WorkerType
      /\ shoots \in [Keys -> Shoots \cup {None}]
  BY <1>1 DEF TypeOK
<1>3. w \in Worker /\ w.c \in Clusters
  BY <1>2 DEF Step, AddFinalizer, Prepare, WriteShoot, Observe, PostponeDeletion,
              DeleteShoot, ReleaseCluster, UpdateStatus, WorkerType
<1>4. RegistryInv'
  BY <1>1, SameInv DEF Step, AddFinalizer, Prepare, WriteShoot, Observe,
     PostponeDeletion, DeleteShoot, ReleaseCluster, UpdateStatus, registryVars
<1>5. w.ref # None => HomeRef(w.c, w.ref)
  BY <1>1 DEF WorkerInv
<1>6. ASSUME NEW cs \in SUBSET Conditions, NEW con \in Conditions,
             w' = StatusError([w EXCEPT !.cons = cs], con)
      PROVE  WorkerInv'
  <2>1. /\ [w EXCEPT !.cons = cs] \in Worker
        /\ [w EXCEPT !.cons = cs].c = w.c
        /\ [w EXCEPT !.cons = cs].ref = w.ref
    BY <1>3 DEF Worker
  <2>2. w'.pc = "status" /\ w'.c = w.c /\ w'.ref = w.ref
    BY <1>6, <2>1, StatusErrorType
  <2> QED
    BY <1>5, <2>2, StatusWorkerInv
<1>7. ASSUME NEW con \in Conditions, w' = StatusError(w, con)
      PROVE  WorkerInv'
  <2>1. w'.pc = "status" /\ w'.c = w.c /\ w'.ref = w.ref
    BY <1>3, <1>7, StatusErrorType
  <2> QED
    BY <1>5, <2>1, StatusWorkerInv
<1>8. ASSUME NEW cs, NEW n \in {"observe", "status"}, w' = [w EXCEPT !.pc = n, !.cons = cs]
      PROVE  WorkerInv'
  <2>1. w'.pc = n /\ w'.c = w.c /\ w'.ref = w.ref
    BY <1>3, <1>8 DEF Worker
  <2> QED
    BY <1>5, <2>1, StatusWorkerInv
<1>9. /\ {"Foreign", "Shoot", "Config", "Meta", "Observability"} \subseteq Conditions
      /\ w.cons \ {"Foreign"} \in SUBSET Conditions
  BY <1>3 DEF Conditions, Worker
<1>10. CASE AddFinalizer
  <2>1. UNCHANGED <<stage, label, ref, shoots>> /\ w.pc = "finalizer"
    BY <1>10 DEF AddFinalizer, statusVars
  <2>2. CASE w' = StatusError(w, "Meta") /\ UNCHANGED fins
    BY <1>1, <1>4, <1>7, <1>9, <2>1, <2>2, SameInv
  <2>3. CASE /\ stage[w.c] = "live"
             /\ fins' = [fins EXCEPT ![w.c] = w.fins \cup {"own"}]
             /\ w' = [w EXCEPT !.pc = "prepare", !.fins = @ \cup {"own"}]
    <3>1. ClusterInv'
      BY <1>1, <1>2, <1>3, <2>1, <2>3 DEF ClusterInv, ClusterType
    <3>2. ShootInv'
      BY <1>1, <1>2, <1>3, <2>1, <2>3 DEF ShootInv, ClusterType, Shoots
    <3>3. /\ w'.pc = "prepare" /\ w'.c = w.c /\ w'.ref = w.ref /\ w'.key = w.key
      BY <1>3, <2>3 DEF Worker
    <3>4. stage'[w.c] # "absent" /\ "own" \in fins'[w.c]
      BY <1>2, <1>3, <2>1, <2>3 DEF ClusterType
    <3>5. w.key \in Keys /\ HomeKey(w.c, w.key)
      BY <1>1, <2>1 DEF WorkerInv
    <3>6. WorkerInv'
      BY <1>5, <3>3, <3>4, <3>5 DEF WorkerInv
    <3> QED
      BY <1>4, <3>1, <3>2, <3>6
  <2> QED
    BY <1>10, <2>2, <2>3 DEF AddFinalizer
<1>11. CASE Prepare
  <2>1. UNCHANGED <<stage, fins, label, ref, shoots>> /\ w.pc = "prepare"
    BY <1>11 DEF Prepare, clusterVars, statusVars
  <2>2. ClusterInv' /\ ShootInv'
    BY <1>1, <2>1, SameInv
  <2>3. ASSUME NEW con \in {"Config", "Shoot", "Meta"}, w' = StatusError(w, con)
        PROVE  WorkerInv'
    BY <1>7, <1>9, <2>3
  <2>4. ASSUME NEW d, w' = [w EXCEPT !.pc = "write", !.deleting = d,
                                     !.ref = <<w.key[2], w.key[3]>>,
                                     !.cons = @ \ {"Config", "Meta"}]
        PROVE  WorkerInv'
    <3>1. /\ w'.pc = "write" /\ w'.c = w.c /\ w'.key = w.key
          /\ w'.ref = <<w.key[2], w.key[3]>>
      BY <1>3, <2>4 DEF Worker
    <3>2. /\ w.key \in Keys /\ HomeKey(w.c, w.key)
          /\ stage[w.c] # "absent" /\ "own" \in fins[w.c]
      BY <1>1, <2>1 DEF WorkerInv
    <3>3. HomeRef(w.c, <<w.key[2], w.key[3]>>)
      BY <3>2 DEF HomeKey, HomeRef
    <3> QED
      BY <2>1, <3>1, <3>2, <3>3 DEF WorkerInv
  <2> QED
    BY <1>4, <1>11, <2>2, <2>3, <2>4 DEF Prepare
<1>12. CASE WriteShoot
  <2>1. UNCHANGED <<stage, fins, label, ref>> /\ w.pc = "write"
    BY <1>12 DEF WriteShoot, clusterVars, statusVars
  <2>2. ClusterInv'
    BY <1>1, <2>1, SameInv
  <2>3. \/ w' = [w EXCEPT !.pc = "observe", !.cons = ManagementTrue(w.cons)]
        \/ w' = StatusError(w, "Shoot")
    BY <1>12 DEF WriteShoot
  <2>4. WorkerInv'
    BY <1>7, <1>8, <1>9, <2>3
  <2>5. /\ w.key \in Keys /\ HomeKey(w.c, w.key)
        /\ stage[w.c] # "absent" /\ "own" \in fins[w.c]
    BY <1>1, <2>1 DEF WorkerInv
  <2>6. UpdateShootFields.owner = w.c
    BY <1>2, <2>1, UpdateType
  <2>7. UNCHANGED shoots \/ shoots' = [shoots EXCEPT ![w.key] = UpdateShootFields]
    BY <1>12 DEF WriteShoot
  <2>8. ShootInv'
    BY <1>1, <1>2, <2>1, <2>5, <2>6, <2>7 DEF ShootInv
  <2> QED
    BY <1>4, <2>2, <2>4, <2>8
<1>13. CASE Observe
  <2>1. UNCHANGED <<stage, fins, label, ref, shoots>>
    BY <1>13 DEF Observe, clusterVars, statusVars
  <2>2. \/ w' = [w EXCEPT !.pc = "status", !.cons = w.cons \ {"Observability"}]
        \/ w' = StatusError(w, "Observability")
    BY <1>13 DEF Observe
  <2> QED
    BY <1>1, <1>4, <1>7, <1>8, <1>9, <2>1, <2>2, SameInv
<1>14. CASE PostponeDeletion
  <2>1. UNCHANGED <<stage, fins, label, ref, shoots>>
    BY <1>14 DEF PostponeDeletion, clusterVars, statusVars
  <2>2. w' = [w EXCEPT !.pc = "status", !.cons = ConditionFalse(w.cons, "Foreign")]
    BY <1>14 DEF PostponeDeletion
  <2> QED
    BY <1>1, <1>4, <1>8, <2>1, <2>2, SameInv
<1>15. CASE DeleteShoot
  <2>1. UNCHANGED <<stage, fins, label, ref>> /\ w.pc = "deletion"
    BY <1>15 DEF DeleteShoot, clusterVars, statusVars
  <2>2. \/ w' = [w EXCEPT !.pc = "status",
                          !.cons = ConditionFalse(w.cons \ {"Foreign"}, "Shoot")]
        \/ w' = StatusError([w EXCEPT !.cons = w.cons \ {"Foreign"}], "Shoot")
    BY <1>15 DEF DeleteShoot
  <2>3. ClusterInv' /\ WorkerInv'
    BY <1>1, <1>6, <1>8, <1>9, <2>1, <2>2, SameInv
  <2>4. w.key \in Keys
    BY <1>1, <2>1 DEF WorkerInv
  <2>5. \/ UNCHANGED shoots
        \/ /\ shoots[w.key] # None
           /\ shoots' = [shoots EXCEPT ![w.key].deleting = TRUE]
    BY <1>15 DEF DeleteShoot
  <2>6. ASSUME NEW k \in Keys, shoots'[k] # None
        PROVE  shoots[k] # None /\ shoots'[k].owner = shoots[k].owner
    BY <1>2, <2>4, <2>5, <2>6 DEF Shoots
  <2>7. ShootInv'
    BY <1>1, <2>1, <2>6 DEF ShootInv
  <2> QED
    BY <1>4, <2>3, <2>7
<1>16. CASE ReleaseCluster
  <2>1. CASE Remove(w.c) /\ w' = Idle
    <3>1. UNCHANGED shoots /\ ShootsOf(w.c) = {}
      BY <1>1, <1>16 DEF ReleaseCluster, WorkerInv
    <3> QED
      BY <1>3, <1>4, <2>1, <3>1, RemoveInv, StatusWorkerInv
  <2>2. CASE UNCHANGED <<clusterVars, statusVars>>
    <3>1. UNCHANGED <<stage, fins, label, ref, shoots>>
      BY <1>16, <2>2 DEF ReleaseCluster, clusterVars, statusVars
    <3>2. ASSUME NEW con \in {"Config", "Meta"},
                 w' = StatusError([w EXCEPT !.cons = w.cons \ {"Foreign"}], con)
          PROVE  WorkerInv'
      BY <1>6, <1>9, <3>2
    <3> QED
      BY <1>1, <1>4, <1>16, <2>1, <3>1, <3>2, SameInv DEF ReleaseCluster
  <2> QED
    BY <1>16, <2>1, <2>2 DEF ReleaseCluster
<1>17. CASE UpdateStatus
  <2>1. UNCHANGED <<stage, fins, label, shoots>> /\ w' = Idle
    BY <1>17 DEF UpdateStatus, clusterVars
  <2>2. UNCHANGED ref \/ ref' = [ref EXCEPT ![w.c] = w.ref]
    BY <1>17 DEF UpdateStatus, statusVars
  <2>3. ClusterInv'
    BY <1>1, <1>2, <1>3, <1>5, <2>1, <2>2 DEF ClusterInv, StatusType
  <2> QED
    BY <1>1, <1>4, <2>1, <2>3, SameInv, StatusWorkerInv
<1> QED
  BY <1>10, <1>11, <1>12, <1>13, <1>14, <1>15, <1>16, <1>17 DEF Step

\* A crash and the other controllers keep the invariant.
LEMMA RegistryStepInv ==
  ASSUME FixedHomes, IInv, Crash \/ Registry
  PROVE  RegistryInv' /\ ClusterInv' /\ ShootInv' /\ WorkerInv'
<1>1. TypeOK /\ RegistryInv /\ ClusterInv /\ ShootInv /\ WorkerInv
  BY DEF IInv
<1>2. UNCHANGED <<stage, fins, label, ref, shoots>>
  BY DEF Crash, Registry, RegisterProfile, DropProfile, SetLandscape, LoseLandscape,
         WatchSynced, clusterVars, statusVars
<1>3. ClusterInv' /\ ShootInv'
  BY <1>1, <1>2, SameInv
<1>4. UNCHANGED w \/ w' = Idle
  BY DEF Crash, Registry, RegisterProfile, DropProfile, SetLandscape, LoseLandscape,
         WatchSynced
<1>5. WorkerInv'
  BY <1>1, <1>2, <1>4, SameInv, StatusWorkerInv
<1>6. RegistryInv'
  <2>1. profiles \in [Profiles -> Specs \cup {None}]
    BY <1>1 DEF TypeOK, RegistryType
  <2>2. CASE Crash
    BY <2>2 DEF Crash, RegistryInv, Reg!Restart
  <2>3. ASSUME NEW p \in Profiles, RegisterProfile(p) \/ DropProfile(p) PROVE RegistryInv'
    BY <1>1, <2>1, <2>3 DEF RegisterProfile, DropProfile, RegistryInv, Reg!Register,
                             Reg!Unregister, Reg!Publish
  <2>4. ASSUME NEW l \in Landscapes, SetLandscape(l) \/ LoseLandscape(l) \/ WatchSynced(l)
        PROVE  RegistryInv'
    BY <1>1, <2>4, SameInv DEF SetLandscape, LoseLandscape, WatchSynced,
                                Reg!SetLandscape, Reg!LoseLandscape
  <2> QED
    BY <2>2, <2>3, <2>4 DEF Registry
<1> QED
  BY <1>3, <1>5, <1>6

\* Gardener keeps the invariant: it never creates a shoot or changes its owner.
LEMMA GardenerInv ==
  ASSUME IInv, Gardener
  PROVE  RegistryInv' /\ ClusterInv' /\ ShootInv' /\ WorkerInv'
<1>1. TypeOK /\ RegistryInv /\ ClusterInv /\ ShootInv /\ WorkerInv
  BY DEF IInv
<1>2. UNCHANGED <<stage, fins, label, ref, w, profiles>>
  BY DEF Gardener, ShootCondition, ShootUpgrade, ShootDeletedByUser, ShootGone,
         clusterVars, statusVars, registryVars
<1>3. ASSUME NEW j \in Keys, shoots'[j] # None
      PROVE  shoots[j] # None /\ shoots'[j].owner = shoots[j].owner
  <2>1. shoots \in [Keys -> Shoots \cup {None}]
    BY <1>1 DEF TypeOK
  <2>2. PICK k \in Keys :
          ShootCondition(k) \/ ShootUpgrade(k) \/ ShootDeletedByUser(k) \/ ShootGone(k)
    BY DEF Gardener
  <2>3. shoots[k] # None /\ shoots[k] \in Shoots
    BY <2>1, <2>2 DEF ShootCondition, ShootUpgrade, ShootDeletedByUser, ShootGone
  <2> QED
    BY <1>3, <2>1, <2>2, <2>3
       DEF ShootCondition, ShootUpgrade, ShootDeletedByUser, ShootGone, Shoots
<1>4. RegistryInv' /\ ClusterInv'
  BY <1>1, <1>2, SameInv
<1>5. ShootInv'
  BY <1>1, <1>2, <1>3 DEF ShootInv
<1>6. ShootsOf(w.c)' \subseteq ShootsOf(w.c)
  BY <1>2, <1>3 DEF ShootsOf
<1>7. WorkerInv'
  BY <1>1, <1>2, <1>6 DEF WorkerInv
<1> QED
  BY <1>4, <1>5, <1>7

\* The users keep the invariant: they cannot release a Cluster that is held.
LEMMA UsersInv ==
  ASSUME IInv, Users
  PROVE  RegistryInv' /\ ClusterInv' /\ ShootInv' /\ WorkerInv'
<1>1. TypeOK /\ RegistryInv /\ ClusterInv /\ ShootInv /\ WorkerInv
  BY DEF IInv
<1>2. ClusterType /\ StatusType /\ WorkerType /\ shoots \in [Keys -> Shoots \cup {None}]
  BY <1>1 DEF TypeOK
<1>3. UNCHANGED <<w, shoots, profiles>>
  BY DEF Users, CreateCluster, DeleteCluster, Relabel, AddForeignFinalizer,
         RemoveForeignFinalizer, Annotate, GenerationChanged, registryVars
<1>4. RegistryInv'
  BY <1>1, <1>3, SameInv
<1>5. ShootsOf(w.c)' = ShootsOf(w.c)
  BY <1>3 DEF ShootsOf
<1>6. PICK c \in Clusters : \/ CreateCluster(c) \/ DeleteCluster(c) \/ Relabel(c)
                            \/ AddForeignFinalizer(c) \/ RemoveForeignFinalizer(c)
                            \/ Annotate(c) \/ GenerationChanged(c)
  BY DEF Users
\* It is enough that a held Cluster stays, and that one in deletion which only the
\* provider holds is not changed.
<1>7. ASSUME \A d \in Clusters :
               /\ stage[d] # "absent" /\ "own" \in fins[d] =>
                    stage'[d] # "absent" /\ "own" \in fins'[d]
               /\ stage[d] = "deleting" /\ fins[d] = {"own"} =>
                    stage'[d] = "deleting" /\ fins'[d] = {"own"}
      PROVE  ShootInv' /\ WorkerInv'
  <2>1. ShootInv'
    BY <1>1, <1>2, <1>3, <1>7 DEF ShootInv, Shoots
  <2>2. w.pc # "idle" => w.c \in Clusters
    BY <1>2 DEF WorkerType
  <2>3. WorkerInv'
    BY <1>1, <1>3, <1>5, <1>7, <2>2 DEF WorkerInv
  <2> QED
    BY <2>1, <2>3
<1>8. CASE UNCHANGED <<stage, fins, label, ref>>
  BY <1>1, <1>3, <1>4, <1>8, SameInv
<1>9. CASE CreateCluster(c)
  <2>1. UNCHANGED <<fins, ref>> /\ stage[c] = "absent"
    BY <1>9 DEF CreateCluster, statusVars
  <2>2. PICK n \in LabelNames[c] : label' = [label EXCEPT ![c] = n]
    BY <1>9 DEF CreateCluster
  <2>3. stage' = [stage EXCEPT ![c] = "live"]
    BY <1>9 DEF CreateCluster
  <2>4. ClusterInv'
    BY <1>1, <1>2, <2>1, <2>2, <2>3 DEF ClusterInv, ClusterType
  <2>5. ShootInv' /\ WorkerInv'
    BY <1>2, <1>7, <2>1, <2>3 DEF ClusterType
  <2> QED
    BY <1>4, <2>4, <2>5
<1>10. CASE Remove(c) /\ "own" \notin fins[c]
  <2>1. ShootsOf(c) = {}
    BY <1>1, <1>10 DEF ShootsOf, ShootInv
  <2>2. ClusterInv'
    BY <1>3, <1>10, <2>1, RemoveInv
  <2>3. ShootInv' /\ WorkerInv'
    BY <1>2, <1>7, <1>10 DEF Remove, ClusterType
  <2> QED
    BY <1>4, <2>2, <2>3
<1>11. CASE /\ stage[c] = "live" /\ fins[c] # {}
            /\ stage' = [stage EXCEPT ![c] = "deleting"]
            /\ UNCHANGED <<fins, label, ref>>
  <2>1. ClusterInv'
    BY <1>1, <1>2, <1>11 DEF ClusterInv, ClusterType
  <2>2. ShootInv' /\ WorkerInv'
    BY <1>2, <1>7, <1>11 DEF ClusterType
  <2> QED
    BY <1>4, <2>1, <2>2
<1>12. CASE Relabel(c)
  <2>1. UNCHANGED <<stage, fins, ref>>
    BY <1>12 DEF Relabel, statusVars
  <2>2. PICK n \in LabelNames[c] : label' = [label EXCEPT ![c] = n]
    BY <1>12 DEF Relabel
  <2>3. ClusterInv'
    BY <1>1, <1>2, <2>1, <2>2 DEF ClusterInv, ClusterType
  <2>4. ShootInv' /\ WorkerInv'
    BY <1>7, <2>1
  <2> QED
    BY <1>4, <2>3, <2>4
<1>13. CASE AddForeignFinalizer(c)
  <2>1. /\ UNCHANGED <<stage, label, ref>> /\ stage[c] = "live"
        /\ fins' = [fins EXCEPT ![c] = @ \cup {"foreign"}]
    BY <1>13 DEF AddForeignFinalizer, statusVars
  <2>2. ClusterInv'
    BY <1>1, <1>2, <2>1 DEF ClusterInv, ClusterType
  <2>3. ShootInv' /\ WorkerInv'
    BY <1>2, <1>7, <2>1 DEF ClusterType
  <2> QED
    BY <1>4, <2>2, <2>3
<1>14. CASE /\ "foreign" \in fins[c] /\ (stage[c] = "live" \/ fins[c] # {"foreign"})
            /\ fins' = [fins EXCEPT ![c] = @ \ {"foreign"}]
            /\ UNCHANGED <<stage, label, ref>>
  <2>1. fins[c] \in SUBSET {"own", "foreign"} /\ stage[c] \in {"absent", "live", "deleting"}
    BY <1>2 DEF ClusterType
  <2>2. ClusterInv'
    BY <1>1, <1>2, <1>14, <2>1 DEF ClusterInv, ClusterType
  <2>3. ShootInv' /\ WorkerInv'
    BY <1>2, <1>7, <1>14 DEF ClusterType
  <2> QED
    BY <1>4, <2>2, <2>3
<1>15. CASE DeleteCluster(c)
  BY <1>10, <1>11, <1>15 DEF DeleteCluster, statusVars
<1>16. CASE RemoveForeignFinalizer(c)
  BY <1>10, <1>14, <1>16 DEF RemoveForeignFinalizer, statusVars
<1>17. CASE Annotate(c) \/ GenerationChanged(c)
  BY <1>8, <1>17 DEF Annotate, GenerationChanged, clusterVars, statusVars
<1> QED
  BY <1>6, <1>9, <1>12, <1>13, <1>15, <1>16, <1>17

\* The inductive invariant holds initially and every step keeps it.
LEMMA InitInv == Init => IInv
<1> SUFFICES ASSUME Init PROVE IInv
  OBVIOUS
<1>1. TypeOK
  BY InitType
<1>2. Idle.pc = "idle" /\ Idle.ref = None
  BY DEF Idle
<1>3. RegistryInv /\ ClusterInv /\ ShootInv /\ WorkerInv
  BY <1>2 DEF Init, RegistryInv, ClusterInv, ShootInv, WorkerInv
<1> QED
  BY <1>1, <1>3 DEF IInv

\* Every step keeps the invariant: the controller's calls, the registry, Gardener
\* and the users, one lemma each.
LEMMA NextInv ==
  ASSUME StableNames, FixedHomes, IInv, [Next]_vars
  PROVE  IInv'
<1>1. TypeOK'
  BY TypeStep DEF IInv
<1>2. CASE Next
  BY <1>1, <1>2, StartInv, StepInv, RegistryStepInv, GardenerInv, UsersInv DEF Next, IInv
<1>3. CASE UNCHANGED vars
  BY <1>1, <1>3, SameInv DEF IInv, vars, clusterVars, statusVars, registryVars
<1> QED
  BY <1>2, <1>3

\* With derived names that no label changes and one project per profile, the
\* inductive invariant holds: what the worker knows of a shoot and a Cluster is
\* still true when it acts on it.
THEOREM InvariantHolds ==
  ASSUME StableNames, FixedHomes
  PROVE  Spec => []IInv
<1>1. IInv /\ [Next]_vars => IInv'
  BY NextInv
<1> QED
  BY <1>1, InitInv, PTL DEF Spec

\* No shoot is ever orphaned: as long as the label does not change the name of a
\* Cluster's shoot and a profile stays in its landscape and project, every shoot
\* belongs to a Cluster that exists and carries the provider's finalizer - whatever
\* fails, crashes or is changed in Gardener, even if names of Clusters collide.
THEOREM NoOrphans ==
  ASSUME StableNames, FixedHomes
  PROVE  Spec => []NoOrphanedShoot
<1>1. IInv => NoOrphanedShoot
  BY DEF IInv, ShootInv, NoOrphanedShoot
<1> QED
  BY <1>1, InvariantHolds, PTL

-------------------------------------------------------------------------------
(***************************************************************************)
(* Action properties.                                                      *)
(***************************************************************************)
\* Only two calls of the controller, and Gardener, change shoots.
LEMMA ShootWriters ==
  ASSUME [Next]_vars
  PROVE  UNCHANGED shoots \/ WriteShoot \/ DeleteShoot \/ Gardener
  BY DEF Next, Start, Skip, StartFails, UnknownLandscape, PanicOnMissingClient,
     LookupFinds, LookupFindsNone, LookupFails, Step, AddFinalizer, Prepare, Observe,
     PostponeDeletion, ReleaseCluster, UpdateStatus, Crash, Registry, RegisterProfile,
     DropProfile, SetLandscape, LoseLandscape, WatchSynced, Users, CreateCluster,
     DeleteCluster, Relabel, AddForeignFinalizer, RemoveForeignFinalizer, Annotate,
     GenerationChanged, vars

\* A shoot is never moved to a lower version: an update is refused if the shoot
\* has changed since it was read, and otherwise asks for at least what was read.
\* This holds in every environment, for contended names and changing labels too.
THEOREM VersionsOnlyRise == Spec => VersionNeverLowered
<1>1. ASSUME TypeOK, [Next]_vars, NEW k \in Keys, shoots[k] # None, shoots'[k] # None
      PROVE  shoots'[k].ver >= shoots[k].ver
  <2>1. /\ ClusterType /\ RegistryType /\ WorkerType
        /\ shoots \in [Keys -> Shoots \cup {None}]
    BY <1>1 DEF TypeOK
  <2>2. shoots[k] \in Shoots /\ shoots[k].ver \in Nat
    BY <1>1, <2>1, ConstantsAssumption DEF Shoots, Versions
  <2>3. CASE UNCHANGED shoots
    BY <2>2, <2>3
  <2>4. CASE WriteShoot
    <3>1. w.pc = "write" /\ w.key \in Keys /\ w.c \in Clusters
      BY <2>1, <2>4 DEF WriteShoot, WorkerType
    <3>2. CASE UNCHANGED shoots
      BY <2>3, <3>2
    <3>3. CASE shoots' = [shoots EXCEPT ![w.key] = UpdateShootFields] /\ WriteSucceeds
      <4>1. CASE k # w.key
        BY <2>1, <2>2, <3>1, <3>3, <4>1
      <4>2. CASE k = w.key
        <5>1. w.seen = shoots[k] /\ shoots'[k] = UpdateShootFields
          BY <2>1, <3>1, <3>3, <4>2 DEF WriteSucceeds
        <5>2. profiles[ProfileOf[w.c]] \in Specs
          BY <2>1, <3>1, ConstantsAssumption DEF WorkerType, RegistryType
        <5>3. SpecOf(w.c).ver \in Nat
          BY <5>2, ConstantsAssumption DEF SpecOf, Specs, Versions
        <5>4. UpdateShootFields.ver = computeK8sVersion(SpecOf(w.c).ver, shoots[k].ver)
          BY <1>1, <2>2, <5>1 DEF UpdateShootFields, Shoots
        <5> QED
          BY <2>2, <5>1, <5>3, <5>4 DEF computeK8sVersion
      <4> QED
        BY <4>1, <4>2
    <3> QED
      BY <2>4, <3>2, <3>3 DEF WriteShoot
  <2>5. CASE DeleteShoot
    <3>1. w.key \in Keys
      BY <2>1, <2>5 DEF DeleteShoot, WorkerType
    <3>2. UNCHANGED shoots \/ shoots' = [shoots EXCEPT ![w.key].deleting = TRUE]
      BY <2>5 DEF DeleteShoot
    <3> QED
      BY <2>1, <2>2, <2>3, <3>1, <3>2 DEF Shoots
  <2>6. CASE Gardener
    <3>1. PICK j \in Keys :
            ShootCondition(j) \/ ShootUpgrade(j) \/ ShootDeletedByUser(j) \/ ShootGone(j)
      BY <2>6 DEF Gardener
    <3> QED
      BY <1>1, <2>1, <2>2, <3>1
         DEF ShootCondition, ShootUpgrade, ShootDeletedByUser, ShootGone, Shoots
  <2> QED
    BY <1>1, <2>3, <2>4, <2>5, <2>6, ShootWriters
<1>2. TypeOK /\ [Next]_vars =>
        [\A k \in Keys : shoots[k] # None /\ shoots'[k] # None
                           => shoots'[k].ver >= shoots[k].ver]_vars
  BY <1>1
<1> QED
  BY <1>2, TypeCorrect, PTL DEF Spec, VersionNeverLowered

\* A shoot at the home of an existing Cluster is that Cluster's shoot.
LEMMA OwnerIsHome ==
  ASSUME DistinctNames, IInv, NEW k \in Keys, shoots[k] # None, NEW c \in Clusters,
         stage[c] # "absent", HomeKey(c, k)
  PROVE  shoots[k].owner = c
<1>1. shoots[k] \in Shoots
  BY DEF IInv, TypeOK
<1> DEFINE d == shoots[k].owner
<1>2. d \in Clusters /\ stage[d] # "absent" /\ HomeKey(d, k)
  BY <1>1 DEF IInv, ShootInv, Shoots
<1>3. label[c] \in LabelNames[c] /\ label[d] \in LabelNames[d]
  BY <1>2 DEF IInv, ClusterInv
<1>4. NameFor(c, label[c]) = NameFor(d, label[d])
  BY <1>2, <1>3 DEF HomeKey
<1> QED
  BY <1>2, <1>3, <1>4 DEF DistinctNames

\* A Cluster has at most one shoot: there is one place for it.
LEMMA OneHome ==
  ASSUME IInv, NEW c \in Clusters, stage[c] # "absent",
         NEW j \in Keys, HomeKey(c, j), NEW k \in Keys, HomeKey(c, k)
  PROVE  j = k
<1>1. ProfileOf[c] \in Profiles /\ label[c] \in LabelNames[c]
  BY ConstantsAssumption DEF IInv, ClusterInv
<1>2. PICK s \in ProfileSpecs[ProfileOf[c]] : TRUE
  BY <1>1, ConstantsAssumption
<1>3. j[1] = k[1] /\ j[2] = k[2] /\ j[3] = k[3]
  BY <1>1, <1>2 DEF HomeKey
<1> QED
  BY <1>3 DEF Keys

\* "there should never be more than one" (GetShoot): a Cluster whose shoot has one
\* possible place has at most one shoot, whatever fails and however often.
THEOREM OneShootEach ==
  ASSUME StableNames, FixedHomes
  PROVE  Spec => []OneShootPerCluster
<1>1. ASSUME IInv, NEW c \in Clusters, NEW j \in ShootsOf(c), NEW k \in ShootsOf(c)
      PROVE  j = k
  <2>1. /\ j \in Keys /\ HomeKey(c, j) /\ stage[c] # "absent"
        /\ k \in Keys /\ HomeKey(c, k)
    BY <1>1 DEF ShootsOf, IInv, ShootInv
  <2> QED
    BY <1>1, <2>1, OneHome
<1>2. IInv => OneShootPerCluster
  BY <1>1 DEF OneShootPerCluster
<1> QED
  BY <1>2, InvariantHolds, PTL

\* What the update of a shoot does: it creates the Cluster's only shoot, or keeps
\* the owner and the deletion of the one it read.
LEMMA WriteEffect ==
  ASSUME DistinctNames, IInv, WriteShoot, ~UNCHANGED shoots
  PROVE  /\ w.c \in Clusters /\ w.key \in Keys
         /\ shoots' = [shoots EXCEPT ![w.key] = UpdateShootFields]
         /\ UpdateShootFields \in Shoots /\ UpdateShootFields.owner = w.c
         /\ "own" \in fins[w.c]
         /\ shoots[w.key] = None => ShootsOf(w.c) = {} /\ ~UpdateShootFields.deleting
         /\ shoots[w.key] # None =>
              /\ shoots[w.key].owner = w.c
              /\ UpdateShootFields.deleting = shoots[w.key].deleting
<1>1. /\ w.pc = "write" /\ WriteSucceeds
      /\ shoots' = [shoots EXCEPT ![w.key] = UpdateShootFields]
  BY DEF WriteShoot
<1>2. ClusterType /\ RegistryType /\ WorkerType /\ shoots \in [Keys -> Shoots \cup {None}]
  BY DEF IInv, TypeOK
<1>3. /\ w.c \in Clusters /\ w.key \in Keys /\ HomeKey(w.c, w.key)
      /\ stage[w.c] # "absent" /\ "own" \in fins[w.c]
  BY <1>1, <1>2 DEF IInv, WorkerInv, WorkerType
<1>4. UpdateShootFields \in Shoots /\ UpdateShootFields.owner = w.c
  BY <1>1, <1>2, UpdateType
<1>5. w.seen = shoots[w.key]
  BY <1>1 DEF WriteSucceeds
<1>6. ASSUME shoots[w.key] = None
      PROVE  ShootsOf(w.c) = {} /\ ~UpdateShootFields.deleting
  <2>1. ASSUME NEW k \in ShootsOf(w.c) PROVE FALSE
    <3>1. k \in Keys /\ shoots[k] # None /\ HomeKey(w.c, k)
      BY <2>1 DEF ShootsOf, IInv, ShootInv
    <3>2. k = w.key
      BY <1>3, <3>1, OneHome
    <3> QED
      BY <1>6, <3>1, <3>2
  <2>2. ~UpdateShootFields.deleting
    BY <1>5, <1>6 DEF UpdateShootFields
  <2> QED
    BY <2>1, <2>2
<1>7. ASSUME shoots[w.key] # None
      PROVE  /\ shoots[w.key].owner = w.c
             /\ UpdateShootFields.deleting = shoots[w.key].deleting
  <2>1. shoots[w.key].owner = w.c
    BY <1>3, <1>7, OwnerIsHome
  <2>2. shoots[w.key] \in Shoots
    BY <1>2, <1>3, <1>7
  <2>3. UpdateShootFields.deleting = shoots[w.key].deleting
    BY <1>5, <1>7, <2>2 DEF UpdateShootFields, Shoots
  <2> QED
    BY <2>1, <2>3
<1> QED
  BY <1>1, <1>3, <1>4, <1>6, <1>7

\* A deletion is only sent for the shoot of a Cluster that is in deletion and that
\* nobody but the provider holds.
LEMMA DeleteEffect ==
  ASSUME DistinctNames, IInv, DeleteShoot, ~UNCHANGED shoots
  PROVE  /\ w.c \in Clusters /\ w.key \in Keys
         /\ shoots[w.key] \in Shoots /\ shoots[w.key].owner = w.c
         /\ shoots' = [shoots EXCEPT ![w.key].deleting = TRUE]
         /\ stage[w.c] = "deleting" /\ fins[w.c] = {"own"}
<1>1. /\ w.pc = "deletion" /\ "foreign" \notin w.fins
      /\ shoots[w.key] # None
      /\ shoots' = [shoots EXCEPT ![w.key].deleting = TRUE]
  BY DEF DeleteShoot, HasForeignFinalizers
<1>2. WorkerType /\ shoots \in [Keys -> Shoots \cup {None}]
  BY DEF IInv, TypeOK
<1>3. /\ w.c \in Clusters /\ w.key \in Keys /\ HomeKey(w.c, w.key)
      /\ stage[w.c] = "deleting" /\ fins[w.c] = {"own"}
  BY <1>1, <1>2 DEF IInv, WorkerInv, WorkerType
<1>4. shoots[w.key].owner = w.c
  BY <1>1, <1>3, OwnerIsHome
<1> QED
  BY <1>1, <1>2, <1>3, <1>4

\* Gardener changes one shoot: its deletion, something else of it, or it is gone.
LEMMA GardenerEffect ==
  ASSUME IInv, Gardener
  PROVE  \E k \in Keys :
           /\ shoots[k] \in Shoots
           /\ \/ /\ \/ ShootDeletedByUser(k)
                    \/ shoots'[k].deleting = shoots[k].deleting
                 /\ shoots'[k] \in Shoots /\ shoots'[k].owner = shoots[k].owner
              \/ shoots[k].deleting /\ shoots'[k] = None
           /\ shoots' = [shoots EXCEPT ![k] = shoots'[k]]
<1>1. shoots \in [Keys -> Shoots \cup {None}] /\ shoots' \in [Keys -> Shoots \cup {None}]
  <2>1. TypeOK /\ TypeOK'
    BY EnvironmentType DEF IInv
  <2> QED
    BY <2>1 DEF TypeOK
<1>2. PICK k \in Keys :
        ShootCondition(k) \/ ShootUpgrade(k) \/ ShootDeletedByUser(k) \/ ShootGone(k)
  BY DEF Gardener
<1>3. shoots[k] \in Shoots
  BY <1>1, <1>2 DEF ShootCondition, ShootUpgrade, ShootDeletedByUser, ShootGone
<1>4. CASE ShootCondition(k)
  <2>1. PICK v \in {"bad", "good"} : shoots' = [shoots EXCEPT ![k].cond = v]
    BY <1>4 DEF ShootCondition
  <2>2. /\ [shoots[k] EXCEPT !.cond = v] \in Shoots
        /\ [shoots[k] EXCEPT !.cond = v].owner = shoots[k].owner
        /\ [shoots[k] EXCEPT !.cond = v].deleting = shoots[k].deleting
    BY <1>3 DEF Shoots
  <2> QED
    BY <1>1, <1>3, <2>1, <2>2
<1>5. CASE ShootUpgrade(k)
  <2>1. shoots' = [shoots EXCEPT ![k].ver = shoots[k].ver + 1]
    BY <1>5 DEF ShootUpgrade
  <2>2. shoots[k].ver + 1 \in Versions
    BY <1>3, <1>5, ConstantsAssumption DEF ShootUpgrade, Shoots, Versions
  <2> DEFINE r == [shoots[k] EXCEPT !.ver = shoots[k].ver + 1]
  <2>3. r \in Shoots /\ r.owner = shoots[k].owner /\ r.deleting = shoots[k].deleting
    BY <1>3, <2>2 DEF Shoots
  <2> QED
    BY <1>1, <1>3, <2>1, <2>3
<1>6. CASE ShootDeletedByUser(k)
  BY <1>1, <1>3, <1>6 DEF ShootDeletedByUser, Shoots
<1>7. CASE ShootGone(k)
  BY <1>1, <1>3, <1>7 DEF ShootGone
<1> QED
  BY <1>2, <1>4, <1>5, <1>6, <1>7

\* With distinct names no shoot ever changes hands.
THEOREM OwnersStay ==
  ASSUME StableNames, FixedHomes, DistinctNames
  PROVE  Spec => ShootNeverTakenOver
<1>1. ASSUME IInv, [Next]_vars, NEW k \in Keys, shoots[k] # None, shoots'[k] # None
      PROVE  shoots'[k].owner = shoots[k].owner
  <2>1. shoots \in [Keys -> Shoots \cup {None}]
    BY <1>1 DEF IInv, TypeOK
  <2>2. CASE UNCHANGED shoots
    BY <2>2
  <2>3. CASE WriteShoot /\ ~UNCHANGED shoots
    BY <1>1, <2>1, <2>3, WriteEffect
  <2>4. CASE DeleteShoot /\ ~UNCHANGED shoots
    BY <1>1, <2>1, <2>4, DeleteEffect DEF Shoots
  <2>5. CASE Gardener
    BY <1>1, <2>1, <2>5, GardenerEffect
  <2> QED
    BY <1>1, <2>2, <2>3, <2>4, <2>5, ShootWriters
<1>2. IInv /\ [Next]_vars =>
        [\A k \in Keys : shoots[k] # None /\ shoots'[k] # None
                           => shoots'[k].owner = shoots[k].owner]_vars
  BY <1>1
<1> QED
  BY <1>2, InvariantHolds, PTL DEF Spec, ShootNeverTakenOver

\* The controller only deletes a shoot whose Cluster is in deletion and free of
\* foreign finalizers at that moment, although it decides on what it read before.
THEOREM DeletionsAreWanted ==
  ASSUME StableNames, FixedHomes, DistinctNames
  PROVE  Spec => DeletionIsWanted
<1>1. ASSUME IInv, [Next]_vars, NEW k \in Keys, w # w', shoots[k] # None,
             shoots'[k] # None, ~shoots[k].deleting, shoots'[k].deleting
      PROVE  /\ stage[shoots[k].owner] = "deleting"
             /\ "foreign" \notin fins[shoots[k].owner]
  <2>1. shoots \in [Keys -> Shoots \cup {None}]
    BY <1>1 DEF IInv, TypeOK
  <2>2. CASE UNCHANGED shoots
    BY <1>1, <2>2
  <2>3. CASE WriteShoot /\ ~UNCHANGED shoots
    BY <1>1, <2>1, <2>3, WriteEffect
  <2>4. CASE DeleteShoot /\ ~UNCHANGED shoots
    BY <1>1, <2>1, <2>4, DeleteEffect
  <2>5. CASE Gardener
    BY <1>1, <2>5
       DEF Gardener, ShootCondition, ShootUpgrade, ShootDeletedByUser, ShootGone
  <2> QED
    BY <1>1, <2>2, <2>3, <2>4, <2>5, ShootWriters
<1>2. IInv /\ [Next]_vars =>
        [\A k \in Keys :
           /\ w # w' /\ shoots[k] # None /\ shoots'[k] # None
           /\ ~shoots[k].deleting /\ shoots'[k].deleting
           => /\ stage[shoots[k].owner] = "deleting"
              /\ "foreign" \notin fins[shoots[k].owner]]_vars
  BY <1>1
<1> QED
  BY <1>2, InvariantHolds, PTL DEF Spec, DeletionIsWanted

-------------------------------------------------------------------------------
(***************************************************************************)
(* The controller implements ShootLifecycle.                               *)
(***************************************************************************)
\* The state of the only shoot of a Cluster.
StateOf(s) == IF s = None THEN "none" ELSE IF s.deleting THEN "terminating" ELSE "running"

shootState == [c \in Clusters |-> ShootState(c)]

\* A change of one shoot, which stays with its owner, changes the state of that
\* owner only.
LEMMA StateChange ==
  ASSUME IInv, NEW k \in Keys, NEW c \in Clusters, NEW r \in Shoots \cup {None},
         stage[c] # "absent", HomeKey(c, k), shoots' = [shoots EXCEPT ![k] = r],
         shoots[k] # None => shoots[k].owner = c,
         r # None => r.owner = c
  PROVE  /\ ShootState(c) = StateOf(shoots[k])
         /\ shootState' = [shootState EXCEPT ![c] = StateOf(r)]
<1>1. shoots \in [Keys -> Shoots \cup {None}]
  BY DEF IInv, TypeOK
<1>2. ASSUME NEW j \in ShootsOf(c) PROVE j = k
  <2>1. j \in Keys /\ HomeKey(c, j)
    BY DEF ShootsOf, IInv, ShootInv
  <2> QED
    BY <2>1, OneHome
<1>3. ShootsOf(c) = IF shoots[k] = None THEN {} ELSE {k}
  BY <1>2 DEF ShootsOf
<1>4. ShootState(c) = StateOf(shoots[k])
  BY <1>3 DEF ShootState, StateOf
<1>5. ShootsOf(c)' = IF r = None THEN {} ELSE {k}
  BY <1>1, <1>2 DEF ShootsOf
<1>6. ShootState(c)' = StateOf(r)
  BY <1>1, <1>5 DEF ShootState, StateOf
<1>7. ASSUME NEW d \in Clusters \ {c} PROVE ShootState(d)' = ShootState(d)
  <2>1. /\ k \notin ShootsOf(d) /\ k \notin ShootsOf(d)'
        /\ \A j \in Keys \ {k} : shoots'[j] = shoots[j]
    BY <1>1, <1>7 DEF ShootsOf
  <2>2. ShootsOf(d)' = ShootsOf(d)
    BY <2>1 DEF ShootsOf
  <2>3. \A j \in ShootsOf(d) : shoots'[j].deleting = shoots[j].deleting
    BY <2>1 DEF ShootsOf
  <2> QED
    BY <2>2, <2>3 DEF ShootState
<1> QED
  BY <1>4, <1>6, <1>7 DEF shootState

\* If no shoot changes, no state does.
LEMMA StateSame ==
  ASSUME UNCHANGED shoots
  PROVE  shootState' = shootState
<1>1. \A c \in Clusters : ShootState(c)' = ShootState(c)
  BY DEF ShootState, ShootsOf
<1> QED
  BY <1>1 DEF shootState

\* A step that changes shoots provides one, has one terminated, loses one, or
\* changes nothing that ShootLifecycle sees.
LEMMA ShootStepRefines ==
  ASSUME DistinctNames, "gardendelete" \notin Env, IInv,
         WriteShoot \/ DeleteShoot \/ Gardener, ~UNCHANGED shoots
  PROVE  [Lifecycle!Next]_Lifecycle!vars
<1>1. /\ shoots \in [Keys -> Shoots \cup {None}] /\ ShootInv /\ WorkerInv
  BY DEF IInv, TypeOK
<1>2. UNCHANGED <<stage, fins>>
  BY DEF WriteShoot, DeleteShoot, Gardener, ShootCondition, ShootUpgrade,
         ShootDeletedByUser, ShootGone, clusterVars
<1>3. UNCHANGED Held
  BY <1>2 DEF Held
<1>4. ASSUME NEW c \in Clusters,
             \/ Lifecycle!Provide(c) \/ Lifecycle!Terminate(c) \/ Lifecycle!Terminated(c)
      PROVE  Lifecycle!Next
  BY <1>4 DEF Lifecycle!Next
<1>5. shootState' = shootState => UNCHANGED Lifecycle!vars
  BY <1>2, <1>3 DEF Lifecycle!vars, shootState
<1>6. \A c \in Clusters : shootState[c] = ShootState(c)
  BY DEF shootState
<1>7. ASSUME NEW c \in Clusters, NEW n, shootState' = [shootState EXCEPT ![c] = n],
             n = ShootState(c)
      PROVE  shootState' = shootState
  BY <1>7 DEF shootState
<1>8. CASE WriteShoot
  <2>1. /\ w.c \in Clusters /\ w.key \in Keys
        /\ shoots' = [shoots EXCEPT ![w.key] = UpdateShootFields]
        /\ UpdateShootFields \in Shoots /\ UpdateShootFields.owner = w.c
        /\ "own" \in fins[w.c]
        /\ shoots[w.key] = None => ~UpdateShootFields.deleting
        /\ shoots[w.key] # None =>
             /\ shoots[w.key].owner = w.c
             /\ UpdateShootFields.deleting = shoots[w.key].deleting
    BY <1>8, WriteEffect
  <2>2. stage[w.c] # "absent" /\ HomeKey(w.c, w.key)
    BY <1>1, <1>8 DEF WriteShoot, WorkerInv
  <2>3. /\ ShootState(w.c) = StateOf(shoots[w.key])
        /\ shootState' = [shootState EXCEPT ![w.c] = StateOf(UpdateShootFields)]
    BY <2>1, <2>2, StateChange
  <2>4. UpdateShootFields # None
    BY <2>1, ConstantsAssumption
  <2>5. CASE shoots[w.key] = None
    <3>1. shootState[w.c] = "none" /\ shootState' = [shootState EXCEPT ![w.c] = "running"]
      BY <1>6, <2>1, <2>3, <2>4, <2>5 DEF StateOf
    <3>2. w.c \in Held
      BY <2>1 DEF Held
    <3>3. Lifecycle!Provide(w.c)
      BY <1>2, <1>3, <3>1, <3>2 DEF Lifecycle!Provide, shootState
    <3> QED
      BY <1>4, <2>1, <3>3
  <2>6. CASE shoots[w.key] # None
    <3>1. StateOf(UpdateShootFields) = StateOf(shoots[w.key])
      BY <2>1, <2>4, <2>6 DEF StateOf
    <3> QED
      BY <1>5, <1>7, <2>1, <2>3, <3>1
  <2> QED
    BY <2>5, <2>6
<1>9. CASE DeleteShoot
  <2> DEFINE r == [shoots[w.key] EXCEPT !.deleting = TRUE]
  <2>1. /\ w.c \in Clusters /\ w.key \in Keys
        /\ shoots[w.key] \in Shoots /\ shoots[w.key].owner = w.c
        /\ shoots' = [shoots EXCEPT ![w.key] = r]
        /\ stage[w.c] = "deleting"
    BY <1>9, DeleteEffect
  <2>2. r \in Shoots /\ r.owner = w.c /\ r.deleting
    BY <2>1 DEF Shoots
  <2>3. HomeKey(w.c, w.key) /\ stage[w.c] # "absent"
    BY <1>1, <1>9, <2>1 DEF DeleteShoot, WorkerInv
  <2> HIDE DEF r
  <2>4. /\ ShootState(w.c) = StateOf(shoots[w.key])
        /\ shootState' = [shootState EXCEPT ![w.c] = StateOf(r)]
    <3>1. r \in Shoots \cup {None} /\ shoots' = [shoots EXCEPT ![w.key] = r]
      BY <2>1, <2>2
    <3>2. shoots[w.key].owner = w.c /\ r.owner = w.c
      BY <2>1, <2>2
    <3> QED
      BY <2>1, <2>3, <3>1, <3>2, StateChange
  <2>5. r # None /\ shoots[w.key] # None
    BY <2>1, <2>2, ConstantsAssumption
  <2>6. StateOf(r) = "terminating"
    BY <2>2, <2>5 DEF StateOf
  <2>7. CASE shoots[w.key].deleting
    <3>1. ShootState(w.c) = "terminating"
      BY <2>4, <2>5, <2>7 DEF StateOf
    <3> QED
      BY <1>5, <1>7, <2>1, <2>4, <2>6, <3>1
  <2>8. CASE ~shoots[w.key].deleting
    <3>1. ShootState(w.c) = "running"
      BY <2>4, <2>5, <2>8 DEF StateOf
    <3>2. Lifecycle!Terminate(w.c)
      BY <1>2, <1>3, <1>6, <2>1, <2>4, <2>6, <3>1 DEF Lifecycle!Terminate, shootState
    <3> QED
      BY <1>4, <2>1, <3>2
  <2> QED
    BY <2>7, <2>8
<1>10. CASE Gardener
  <2>1. PICK k \in Keys :
          /\ shoots[k] \in Shoots
          /\ \/ /\ ShootDeletedByUser(k) \/ shoots'[k].deleting = shoots[k].deleting
                /\ shoots'[k] \in Shoots /\ shoots'[k].owner = shoots[k].owner
             \/ shoots[k].deleting /\ shoots'[k] = None
          /\ shoots' = [shoots EXCEPT ![k] = shoots'[k]]
    BY <1>10, GardenerEffect
  <2>2. ~ShootDeletedByUser(k)
    BY DEF ShootDeletedByUser
  <2>3. PICK c \in Clusters : c = shoots[k].owner
    BY <2>1 DEF Shoots
  <2>4. shoots[k] # None
    BY <2>1, ConstantsAssumption
  <2>5. stage[c] # "absent" /\ HomeKey(c, k)
    BY <1>1, <2>3, <2>4 DEF ShootInv
  <2>6. PICK r \in Shoots \cup {None} : r = shoots'[k]
    BY <2>1
  <2>7. shoots' = [shoots EXCEPT ![k] = r] /\ (r # None => r.owner = c)
    BY <2>1, <2>3, <2>6
  <2>8. /\ ShootState(c) = StateOf(shoots[k])
        /\ shootState' = [shootState EXCEPT ![c] = StateOf(r)]
    <3>1. shoots[k] # None => shoots[k].owner = c
      BY <2>3
    <3>2. r # None => r.owner = c
      BY <2>7
    <3>3. shoots' = [shoots EXCEPT ![k] = r]
      BY <2>7
    <3> QED
      BY <2>5, <3>1, <3>2, <3>3, StateChange, ZenonT(60)
  <2>9. CASE r # None
    <3>1. StateOf(r) = StateOf(shoots[k])
      BY <2>1, <2>2, <2>4, <2>6, <2>9 DEF StateOf
    <3> QED
      BY <1>5, <1>7, <2>8, <3>1
  <2>10. CASE r = None
    <3>1. shoots[k].deleting
      BY <2>1, <2>6, <2>10, ConstantsAssumption
    <3>2. ShootState(c) = "terminating" /\ StateOf(r) = "none"
      BY <2>4, <2>8, <2>10, <3>1 DEF StateOf
    <3>3. Lifecycle!Terminated(c)
      BY <1>2, <1>3, <1>6, <2>8, <3>2 DEF Lifecycle!Terminated, shootState
    <3> QED
      BY <1>4, <3>3
  <2> QED
    BY <2>9, <2>10
<1> QED
  BY <1>8, <1>9, <1>10

\* A step that leaves the shoots alone changes a Cluster or its finalizers as
\* ShootLifecycle allows, or nothing that ShootLifecycle sees.
LEMMA ClusterStepRefines ==
  ASSUME IInv, Step \/ Users, UNCHANGED shoots
  PROVE  [Lifecycle!Next]_Lifecycle!vars
<1>1. ClusterType /\ ClusterInv /\ ShootInv /\ WorkerInv /\ WorkerType
  BY DEF IInv, TypeOK
<1>2. shootState' = shootState
  BY StateSame
<1>3. \A c \in Clusters : shootState[c] = ShootState(c)
  BY DEF shootState
<1>4. ASSUME UNCHANGED <<stage, fins>>
      PROVE  UNCHANGED Lifecycle!vars
  BY <1>2, <1>4 DEF Lifecycle!vars, shootState, Held
<1>5. ASSUME NEW c \in Clusters,
             \/ Lifecycle!Appear(c) \/ Lifecycle!Withdraw(c) \/ Lifecycle!Vanish(c)
             \/ Lifecycle!Hold(c) \/ Lifecycle!Release(c)
      PROVE  Lifecycle!Next
  BY <1>5 DEF Lifecycle!Next
<1>6. ASSUME UNCHANGED stage, Held' = Held
      PROVE  UNCHANGED Lifecycle!vars
  BY <1>2, <1>6 DEF Lifecycle!vars, shootState
<1>7. ASSUME NEW c \in Clusters, Remove(c), c \notin Held, stage[c] # "absent"
      PROVE  Lifecycle!Next
  <2>1. Held' = Held
    BY <1>1, <1>7 DEF Held, Remove, ClusterType
  <2>2. Lifecycle!Vanish(c)
    BY <1>2, <1>7, <2>1 DEF Lifecycle!Vanish, Remove, shootState
  <2> QED
    BY <1>5, <2>2
<1>8. CASE AddFinalizer
  <2>1. w.c \in Clusters /\ UNCHANGED stage
    BY <1>1, <1>8 DEF AddFinalizer, WorkerType
  <2>2. CASE UNCHANGED fins
    BY <1>4, <2>1, <2>2
  <2>3. CASE /\ stage[w.c] = "live"
             /\ fins' = [fins EXCEPT ![w.c] = w.fins \cup {"own"}]
    <3>1. Held' = Held \cup {w.c}
      BY <1>1, <2>1, <2>3 DEF Held, ClusterType
    <3>2. CASE w.c \in Held
      BY <1>6, <2>1, <3>1, <3>2
    <3>3. CASE w.c \notin Held
      <4>1. Lifecycle!Hold(w.c)
        BY <1>2, <2>1, <2>3, <3>1, <3>3 DEF Lifecycle!Hold, shootState
      <4> QED
        BY <1>5, <2>1, <4>1
    <3> QED
      BY <3>2, <3>3
  <2> QED
    BY <1>8, <2>2, <2>3 DEF AddFinalizer
<1>9. CASE ReleaseCluster
  <2>1. CASE UNCHANGED clusterVars
    BY <1>4, <2>1 DEF clusterVars
  <2>2. CASE Remove(w.c)
    <3>1. /\ w.pc = "deletion" /\ w.seen = None /\ "foreign" \notin w.fins
          /\ w.c \in Clusters
      BY <1>1, <1>9 DEF ReleaseCluster, HasForeignFinalizers, WorkerType
    <3>2. ShootsOf(w.c) = {} /\ stage[w.c] = "deleting" /\ fins[w.c] = {"own"}
      BY <1>1, <3>1 DEF WorkerInv
    <3>3. shootState[w.c] = "none" /\ w.c \in Held
      BY <1>3, <3>1, <3>2 DEF ShootState, Held
    <3>4. Held' = Held \ {w.c}
      BY <1>1, <2>2, <3>1 DEF Held, Remove, ClusterType
    <3>5. Lifecycle!Release(w.c)
      BY <1>2, <2>2, <3>2, <3>3, <3>4 DEF Lifecycle!Release, Remove, shootState
    <3> QED
      BY <1>5, <3>1, <3>5
  <2> QED
    BY <1>9, <2>1, <2>2 DEF ReleaseCluster
<1>10. CASE \/ Prepare \/ WriteShoot \/ Observe \/ PostponeDeletion \/ DeleteShoot
            \/ UpdateStatus
  BY <1>4, <1>10 DEF Prepare, WriteShoot, Observe, PostponeDeletion, DeleteShoot,
     UpdateStatus, clusterVars
<1>11. ASSUME NEW c \in Clusters, CreateCluster(c)
       PROVE  Lifecycle!Next
  <2>1. Lifecycle!Appear(c)
    BY <1>2, <1>11 DEF CreateCluster, Lifecycle!Appear, shootState, Held
  <2> QED
    BY <1>5, <2>1
<1>12. ASSUME NEW c \in Clusters, DeleteCluster(c)
       PROVE  Lifecycle!Next
  <2>1. CASE fins[c] = {} /\ Remove(c)
    <3>1. c \notin Held /\ stage[c] # "absent"
      BY <1>12, <2>1 DEF Held, DeleteCluster
    <3> QED
      BY <1>7, <2>1, <3>1
  <2>2. CASE stage' = [stage EXCEPT ![c] = "deleting"] /\ UNCHANGED fins
    <3>1. Lifecycle!Withdraw(c)
      BY <1>2, <1>12, <2>2 DEF DeleteCluster, Lifecycle!Withdraw, shootState, Held
    <3> QED
      BY <1>5, <3>1
  <2> QED
    BY <1>12, <2>1, <2>2 DEF DeleteCluster
<1>13. ASSUME NEW c \in Clusters, AddForeignFinalizer(c)
       PROVE  UNCHANGED Lifecycle!vars
  <2>1. Held' = Held /\ UNCHANGED stage
    BY <1>1, <1>13 DEF AddForeignFinalizer, Held, ClusterType
  <2> QED
    BY <1>6, <2>1
<1>14. ASSUME NEW c \in Clusters, RemoveForeignFinalizer(c)
       PROVE  [Lifecycle!Next]_Lifecycle!vars
  <2>1. CASE fins[c] = {"foreign"} /\ stage[c] = "deleting" /\ Remove(c)
    <3>1. c \notin Held
      BY <2>1 DEF Held
    <3> QED
      BY <1>7, <2>1, <3>1
  <2>2. CASE UNCHANGED stage /\ fins' = [fins EXCEPT ![c] = @ \ {"foreign"}]
    <3>1. Held' = Held
      BY <1>1, <2>2 DEF Held, ClusterType
    <3> QED
      BY <1>6, <2>2, <3>1
  <2> QED
    BY <1>14, <2>1, <2>2 DEF RemoveForeignFinalizer
<1>15. ASSUME NEW c \in Clusters, Relabel(c) \/ Annotate(c) \/ GenerationChanged(c)
       PROVE  UNCHANGED Lifecycle!vars
  BY <1>4, <1>15 DEF Relabel, Annotate, GenerationChanged, clusterVars
<1> QED
  BY <1>8, <1>9, <1>10, <1>11, <1>12, <1>13, <1>14, <1>15 DEF Step, Users

\* The controller implements the promise of ShootLifecycle: a shoot exists only for
\* a Cluster that is held, is terminated only for a Cluster in deletion, and the
\* Cluster is released only without a shoot.  (Nobody else may delete shoots in
\* Gardener: the abstract specification has no such step.)
THEOREM ImplementsShootLifecycle ==
  ASSUME StableNames, FixedHomes, DistinctNames, "gardendelete" \notin Env
  PROVE  Spec => ImplementsLifecycle
<1>1. Init => Lifecycle!Init
  BY DEF Init, Lifecycle!Init, Held, ShootState, ShootsOf
<1>2. IInv /\ [Next]_vars => [Lifecycle!Next]_Lifecycle!vars
  <2> SUFFICES ASSUME IInv, [Next]_vars PROVE [Lifecycle!Next]_Lifecycle!vars
    OBVIOUS
  <2>1. CASE ~UNCHANGED shoots
    BY <2>1, ShootWriters, ShootStepRefines
  <2>2. CASE UNCHANGED shoots /\ (Step \/ Users)
    BY <2>2, ClusterStepRefines
  <2>3. CASE UNCHANGED <<shoots, stage, fins>>
    <3>1. Held' = Held /\ shootState' = shootState
      BY <2>3, StateSame DEF Held
    <3> QED
      BY <2>3, <3>1 DEF Lifecycle!vars, shootState
  <2>4. [Next]_vars => \/ ~UNCHANGED shoots
                       \/ UNCHANGED shoots /\ (Step \/ Users)
                       \/ UNCHANGED <<shoots, stage, fins>>
    BY DEF Next, Start, Skip, StartFails, UnknownLandscape, PanicOnMissingClient,
       LookupFinds, LookupFindsNone, LookupFails, Crash, Registry, RegisterProfile,
       DropProfile, SetLandscape, LoseLandscape, WatchSynced, Gardener, ShootCondition,
       ShootUpgrade, ShootDeletedByUser, ShootGone, vars, clusterVars
  <2> QED
    BY <2>1, <2>2, <2>3, <2>4
<1> QED
  BY <1>1, <1>2, InvariantHolds, PTL DEF Spec, ImplementsLifecycle, Lifecycle!Spec

-------------------------------------------------------------------------------
(***************************************************************************)
(* A Cluster that reports Ready has a shoot.                               *)
(***************************************************************************)
\* What an action leaves alone stays as a Ready Cluster needs it.
LEMMA SameReady ==
  /\ ShootsWanted /\ UNCHANGED <<shoots, stage>> => ShootsWanted'
  /\ PhaseInv /\ UNCHANGED <<stage, phase>> => PhaseInv'
  /\ ReadyHasShoot /\ UNCHANGED <<stage, phase, ref, shoots>> => ReadyHasShoot'
  BY DEF ShootsWanted, PhaseInv, ReadyHasShoot, ShootsOf

\* A Cluster that reported Ready before keeps the shoot it recorded.
LEMMA ReadyStays ==
  ASSUME ReadyHasShoot,
         \A c \in Clusters : phase'[c] = "Ready" /\ stage'[c] = "live" =>
           /\ phase[c] = "Ready" /\ stage[c] = "live" /\ ref'[c] = ref[c]
           /\ ShootsOf(c) \subseteq ShootsOf(c)'
  PROVE  ReadyHasShoot'
  BY DEF ReadyHasShoot

\* An idle worker, and one whose reconcile has failed or waits, will not report.
LEMMA WillNotReport ==
  ASSUME w' = Idle \/ (w'.pc = "status" /\ w'.cons # {})
  PROVE  WorkerReadyInv'
  BY DEF Idle, WorkerReadyInv, WillReport

\* A failed reconcile leaves a condition.
LEMMA FailedWillNotReport ==
  ASSUME NEW r \in Worker, NEW con \in Conditions, w' = StatusError(r, con)
  PROVE  WorkerReadyInv'
<1>1. w'.pc = "status"
  BY StatusErrorType
<1>2. w'.cons = ConditionFalse(r.cons, con)
  BY DEF StatusError, Worker
<1>3. w'.cons # {}
  BY <1>2 DEF ConditionFalse
<1> QED
  BY <1>1, <1>3, WillNotReport

\* What the worker knows stays true if held Clusters stay, none comes back to
\* life, and live ones keep their shoots.
LEMMA WorkerStaysReady ==
  ASSUME DistinctNames, IInv, WorkerReadyInv, UNCHANGED w,
         \A c \in Clusters : stage[c] # "absent" /\ "own" \in fins[c] =>
           /\ stage'[c] # "absent" /\ "own" \in fins'[c]
           /\ stage'[c] = "live" => /\ stage[c] = "live"
                                    /\ ShootsOf(c) \subseteq ShootsOf(c)'
  PROVE  WorkerReadyInv'
<1>1. WorkerType /\ WorkerInv
  BY DEF IInv, TypeOK
<1>2. w.pc = "finalizer" => w.seen = None
  BY DEF WorkerReadyInv
<1>3. ASSUME w.pc \in {"prepare", "write"}, w.seen # None, stage'[w.c] = "live"
      PROVE  shoots'[w.key] # None
  <2>1. /\ w.c \in Clusters /\ w.key \in Keys /\ HomeKey(w.c, w.key)
        /\ stage[w.c] # "absent" /\ "own" \in fins[w.c]
    BY <1>1, <1>3 DEF WorkerType, WorkerInv
  <2>2. stage[w.c] = "live" /\ ShootsOf(w.c) \subseteq ShootsOf(w.c)'
    BY <1>3, <2>1
  <2>3. shoots[w.key] # None
    BY <1>3, <2>2 DEF WorkerReadyInv
  <2>4. w.key \in ShootsOf(w.c)
    BY <2>1, <2>3, OwnerIsHome DEF ShootsOf
  <2>5. w.key \in ShootsOf(w.c)'
    BY <2>2, <2>4
  <2> QED
    BY <2>5 DEF ShootsOf
<1>4. w.pc = "write" => w.ref = <<w.key[2], w.key[3]>>
  BY DEF WorkerReadyInv
<1>5. ASSUME WillReport
      PROVE  /\ stage'[w.c] # "absent" /\ "own" \in fins'[w.c]
             /\ stage'[w.c] = "live" => HasShoot(w.c, w.ref)'
  <2>1. w.c \in Clusters
    BY <1>1, <1>5 DEF WorkerType, WillReport
  <2>2. /\ stage[w.c] # "absent" /\ "own" \in fins[w.c]
        /\ stage[w.c] = "live" => HasShoot(w.c, w.ref)
    BY <1>5 DEF WorkerReadyInv
  <2>3. ASSUME stage'[w.c] = "live" PROVE HasShoot(w.c, w.ref)'
    <3>1. HasShoot(w.c, w.ref) /\ ShootsOf(w.c) \subseteq ShootsOf(w.c)'
      BY <2>1, <2>2, <2>3
    <3> QED
      BY <3>1 DEF HasShoot
  <2> QED
    BY <2>1, <2>2, <2>3
<1>6. WillReport' <=> WillReport
  BY DEF WillReport
<1> QED
  BY <1>2, <1>3, <1>4, <1>5, <1>6 DEF WorkerReadyInv

\* A reconcile that starts has seen the shoot of its Cluster, or none.
LEMMA StartReady ==
  ASSUME StableNames, FixedHomes, DistinctNames, ReadyInv, NEW c \in Clusters, Start(c)
  PROVE  ShootsWanted' /\ PhaseInv' /\ ReadyHasShoot' /\ WorkerReadyInv'
<1>1. /\ IInv /\ TypeOK /\ RegistryInv /\ ClusterInv /\ ShootInv
      /\ ClusterType /\ StatusType /\ RegistryType
  BY DEF ReadyInv, IInv, TypeOK
<1>2. UNCHANGED <<stage, fins, ref, phase, shoots>>
  BY DEF Start, Skip, StartFails, UnknownLandscape, PanicOnMissingClient, LookupFinds,
         LookupFindsNone, LookupFails, Ready, Started, statusVars, clusterVars
<1>3. ShootsWanted' /\ PhaseInv' /\ ReadyHasShoot'
  BY <1>2, SameReady DEF ReadyInv
<1>4. Begin(c) \in Worker
  BY <1>1, BeginType
<1>5. CASE UNCHANGED w
  BY <1>1, <1>2, <1>3, <1>5, WorkerStaysReady DEF ReadyInv, ShootsOf
<1>6. CASE UnknownLandscape(c)
  <2>1. w' = StatusError(Begin(c), "Landscape") /\ "Landscape" \in Conditions
    BY <1>6 DEF UnknownLandscape, Conditions
  <2> QED
    BY <1>3, <1>4, <2>1, FailedWillNotReport
<1>7. CASE LookupFails(c)
  <2> DEFINE r == [Begin(c) EXCEPT !.cons = @ \ {"Landscape"}]
  <2>1. r \in Worker
    BY <1>4 DEF Worker
  <2>2. w' = StatusError(r, "Shoot") /\ "Shoot" \in Conditions
    BY <1>7 DEF LookupFails, Conditions
  <2> HIDE DEF r
  <2> QED
    BY <1>3, <2>1, <2>2, FailedWillNotReport
<1>8. cons[c] \in SUBSET Conditions
  BY <1>1 DEF StatusType
<1>9. ASSUME Ready(c), NEW k \in Keys, NEW s \in Shoots \cup {None},
             NEW cs \in SUBSET Conditions, w' = AfterLookup(c, k, s, cs),
             s # None => shoots[k] # None /\ "own" \in fins[c]
      PROVE  WorkerReadyInv'
  <2>1. /\ w'.c = c /\ w'.pc = NextCall(c) /\ w'.key = k /\ w'.seen = s
    BY <1>1, <1>9, AfterLookupType
  <2>2. /\ w'.pc \in {"deletion", "prepare", "finalizer"}
        /\ w'.pc = "finalizer" => "own" \notin fins[c]
    BY <2>1 DEF NextCall
  <2> QED
    BY <1>2, <1>9, <2>1, <2>2 DEF WorkerReadyInv, WillReport
<1>10. CASE LookupFinds(c)
  <2>1. PICK k \in GetShoot(c) :
          w' = AfterLookup(c, k, shoots[k],
                 WithGardener(ConditionFalse(cons[c] \ {"Landscape"}, "ShootNotFound"),
                              shoots[k]))
    BY <1>10 DEF LookupFinds
  <2>2. Ready(c) /\ SpecOf(c) # None /\ stage[c] # "absent"
    BY <1>10 DEF LookupFinds, Ready, Started
  <2>3. k \in Keys /\ shoots[k] \in Shoots /\ shoots[k] # None
    BY <1>1, <2>2, GetShootType, ConstantsAssumption DEF TypeOK
  <2>4. HomeKey(c, k)
    BY <1>1, <2>2, FoundIsHome
  <2>5. shoots[k].owner = c
    BY <1>1, <2>2, <2>3, <2>4, OwnerIsHome
  <2>6. "own" \in fins[c]
    BY <1>1, <2>3, <2>5 DEF ShootInv
  <2> DEFINE d == ConditionFalse(cons[c] \ {"Landscape"}, "ShootNotFound")
  <2>7. d \in SUBSET Conditions
    BY <1>8, ConditionType DEF Conditions
  <2> HIDE DEF d
  <2>8. WithGardener(d, shoots[k]) \in SUBSET Conditions
    BY <2>7 DEF WithGardener, Conditions
  <2>9. w' = AfterLookup(c, k, shoots[k], WithGardener(d, shoots[k]))
    BY <2>1 DEF d
  <2> QED
    BY <1>3, <1>9, <2>2, <2>3, <2>6, <2>8, <2>9
<1>11. CASE LookupFindsNone(c)
  <2>1. /\ Ready(c) /\ SpecOf(c) # None
        /\ w' = AfterLookup(c, NewKey(c), None, cons[c] \ {"Landscape"})
    BY <1>11 DEF LookupFindsNone, Ready, Started
  <2>2. NewKey(c) \in Keys
    BY <1>1, <2>1, NewKeyType
  <2> QED
    BY <1>3, <1>8, <1>9, <2>1, <2>2
<1> QED
  BY <1>3, <1>5, <1>6, <1>7, <1>10, <1>11 DEF Start, Skip, StartFails, PanicOnMissingClient

\* A call of a reconcile that has started: it has seen or written the shoot before
\* it reports, and a Cluster only loses its shoots on its way out.
LEMMA StepReady ==
  ASSUME DistinctNames, ReadyInv, Step
  PROVE  ShootsWanted' /\ PhaseInv' /\ ReadyHasShoot' /\ WorkerReadyInv'
<1>1. /\ IInv /\ TypeOK /\ ClusterInv /\ ShootInv /\ WorkerInv /\ WorkerReadyInv
      /\ ShootsWanted /\ PhaseInv /\ ReadyHasShoot
      /\ ClusterType /\ StatusType /\ RegistryType /\ WorkerType
      /\ shoots \in [Keys -> Shoots \cup {None}]
  BY DEF ReadyInv, IInv, TypeOK
<1>2. w \in Worker /\ w.c \in Clusters
  BY <1>1 DEF Step, AddFinalizer, Prepare, WriteShoot, Observe, PostponeDeletion,
              DeleteShoot, ReleaseCluster, UpdateStatus, WorkerType
<1>3. /\ {"Foreign", "Shoot", "Config", "Meta", "Observability"} \subseteq Conditions
      /\ [w EXCEPT !.cons = w.cons \ {"Foreign"}] \in Worker
  BY <1>2 DEF Conditions, Worker
<1>4. CASE AddFinalizer
  <2>1. UNCHANGED <<stage, shoots, ref, phase>> /\ w.pc = "finalizer" /\ w.seen = None
    BY <1>1, <1>4 DEF AddFinalizer, statusVars, WorkerReadyInv
  <2>2. ShootsWanted' /\ PhaseInv' /\ ReadyHasShoot'
    BY <1>1, <2>1, SameReady
  <2>3. CASE w' = StatusError(w, "Meta")
    BY <1>2, <1>3, <2>2, <2>3, FailedWillNotReport
  <2>4. CASE w' = [w EXCEPT !.pc = "prepare", !.fins = @ \cup {"own"}]
    <3>1. w'.pc = "prepare" /\ w'.seen = None
      BY <1>2, <2>1, <2>4 DEF Worker
    <3> QED
      BY <2>2, <3>1 DEF WorkerReadyInv, WillReport
  <2> QED
    BY <1>4, <2>3, <2>4 DEF AddFinalizer
<1>5. CASE Prepare
  <2>1. UNCHANGED <<stage, shoots, ref, phase>> /\ w.pc = "prepare"
    BY <1>5 DEF Prepare, clusterVars, statusVars
  <2>2. ShootsWanted' /\ PhaseInv' /\ ReadyHasShoot'
    BY <1>1, <2>1, SameReady
  <2>3. ASSUME NEW con \in {"Config", "Shoot", "Meta"}, w' = StatusError(w, con)
        PROVE  WorkerReadyInv'
    BY <1>2, <1>3, <2>3, FailedWillNotReport
  <2>4. ASSUME NEW d, w' = [w EXCEPT !.pc = "write", !.deleting = d,
                                     !.ref = <<w.key[2], w.key[3]>>,
                                     !.cons = @ \ {"Config", "Meta"}]
        PROVE  WorkerReadyInv'
    <3>1. /\ w'.pc = "write" /\ w'.c = w.c /\ w'.key = w.key /\ w'.seen = w.seen
          /\ w'.ref = <<w'.key[2], w'.key[3]>>
      BY <1>2, <2>4 DEF Worker
    <3> QED
      BY <1>1, <2>1, <3>1 DEF WorkerReadyInv, WillReport
  <2> QED
    BY <1>5, <2>2, <2>3, <2>4 DEF Prepare
<1>6. CASE WriteShoot
  <2>1. UNCHANGED <<stage, fins, ref, phase>> /\ w.pc = "write"
    BY <1>6 DEF WriteShoot, clusterVars, statusVars
  <2>2. /\ w.key \in Keys /\ HomeKey(w.c, w.key)
        /\ stage[w.c] # "absent" /\ "own" \in fins[w.c]
    BY <1>1, <2>1 DEF WorkerInv
  <2>3. UpdateShootFields \in Shoots /\ UpdateShootFields.owner = w.c
    BY <1>1, <2>1, UpdateType
  <2>4. CASE UNCHANGED shoots
    <3>1. ShootsWanted' /\ PhaseInv' /\ ReadyHasShoot'
      BY <1>1, <2>1, <2>4, SameReady
    <3>2. CASE w' = StatusError(w, "Shoot")
      BY <1>2, <1>3, <3>1, <3>2, FailedWillNotReport
    <3>3. CASE w.seen # None /\ w' = [w EXCEPT !.pc = "observe", !.cons = ManagementTrue(@)]
      <4>1. /\ w'.pc = "observe" /\ w'.c = w.c /\ w'.ref = <<w.key[2], w.key[3]>>
        BY <1>1, <1>2, <2>1, <3>3 DEF Worker, WorkerReadyInv
      <4>2. ASSUME stage[w.c] = "live" PROVE w.key \in ShootsOf(w.c)
        <5>1. shoots[w.key] # None
          BY <1>1, <2>1, <3>3, <4>2 DEF WorkerReadyInv
        <5> QED
          BY <1>1, <1>2, <2>2, <5>1, OwnerIsHome DEF ShootsOf
      <4>3. stage'[w.c] = "live" => w.key \in ShootsOf(w.c)'
        BY <2>1, <2>4, <4>1, <4>2 DEF ShootsOf
      <4>4. WorkerReadyInv'
        BY <2>1, <2>2, <4>1, <4>3 DEF WorkerReadyInv, WillReport, HasShoot
      <4> QED
        BY <3>1, <4>4
    <3>4. ASSUME UpdateShootFields # w.seen, WriteSucceeds,
                 shoots' = [shoots EXCEPT ![w.key] = UpdateShootFields]
          PROVE  FALSE
      BY <1>1, <2>2, <2>4, <3>4 DEF WriteSucceeds
    <3> QED
      BY <1>6, <3>2, <3>3, <3>4 DEF WriteShoot
  <2>5. CASE ~UNCHANGED shoots
    <3>1. /\ shoots' = [shoots EXCEPT ![w.key] = UpdateShootFields]
          /\ shoots[w.key] = None => ShootsOf(w.c) = {} /\ ~UpdateShootFields.deleting
          /\ shoots[w.key] # None => /\ shoots[w.key].owner = w.c
                                     /\ UpdateShootFields.deleting = shoots[w.key].deleting
      BY <1>1, <1>6, <2>5, WriteEffect
    <3>2. shoots'[w.key] = UpdateShootFields /\ UpdateShootFields # None
      BY <1>1, <2>2, <2>3, <3>1, ConstantsAssumption
    <3>3. ShootsWanted'
      BY <1>1, <2>1, <2>2, <2>3, <3>1, <3>2 DEF ShootsWanted
    <3>4. \A c \in Clusters : ShootsOf(c) \subseteq ShootsOf(c)'
      BY <1>1, <2>2, <2>3, <3>1, <3>2 DEF ShootsOf
    <3>5. ReadyHasShoot'
      BY <1>1, <2>1, <3>4, ReadyStays
    <3>6. CASE w' = StatusError(w, "Shoot")
      BY <1>1, <1>2, <1>3, <2>1, <3>3, <3>5, <3>6, FailedWillNotReport, SameReady
    <3>7. CASE w' = [w EXCEPT !.pc = "observe", !.cons = ManagementTrue(@)]
      <4>1. /\ w'.pc = "observe" /\ w'.c = w.c /\ w'.ref = <<w.key[2], w.key[3]>>
        BY <1>1, <1>2, <2>1, <3>7 DEF Worker, WorkerReadyInv
      <4>2. w.key \in ShootsOf(w.c)'
        BY <2>2, <2>3, <3>2, <4>1 DEF ShootsOf
      <4>3. WorkerReadyInv'
        BY <2>1, <2>2, <4>1, <4>2 DEF WorkerReadyInv, WillReport, HasShoot
      <4> QED
        BY <1>1, <2>1, <3>3, <3>5, <4>3, SameReady
    <3> QED
      BY <1>6, <2>5, <3>6, <3>7 DEF WriteShoot
  <2> QED
    BY <2>4, <2>5
<1>7. CASE Observe
  <2>1. UNCHANGED <<stage, fins, shoots, ref, phase>> /\ w.pc = "observe"
    BY <1>7 DEF Observe, clusterVars, statusVars
  <2>2. ShootsWanted' /\ PhaseInv' /\ ReadyHasShoot'
    BY <1>1, <2>1, SameReady
  <2>3. CASE w' = StatusError(w, "Observability")
    BY <1>2, <1>3, <2>2, <2>3, FailedWillNotReport
  <2>4. CASE w' = [w EXCEPT !.pc = "status", !.cons = @ \ {"Observability"}]
    <3>1. w'.pc = "status" /\ w'.c = w.c /\ w'.ref = w.ref
      BY <1>2, <2>4 DEF Worker
    <3>2. /\ stage[w.c] # "absent" /\ "own" \in fins[w.c]
          /\ stage[w.c] = "live" => HasShoot(w.c, w.ref)
      BY <1>1, <2>1 DEF WorkerReadyInv, WillReport
    <3>3. stage'[w.c] = "live" => HasShoot(w.c, w.ref)'
      BY <2>1, <3>1, <3>2 DEF HasShoot, ShootsOf
    <3>4. WorkerReadyInv'
      BY <2>1, <3>1, <3>2, <3>3 DEF WorkerReadyInv
    <3> QED
      BY <2>2, <3>4
  <2> QED
    BY <1>7, <2>3, <2>4 DEF Observe
<1>8. CASE PostponeDeletion
  <2>1. UNCHANGED <<stage, shoots, ref, phase>>
    BY <1>8 DEF PostponeDeletion, clusterVars, statusVars
  <2>2. w' = [w EXCEPT !.pc = "status", !.cons = ConditionFalse(w.cons, "Foreign")]
    BY <1>8 DEF PostponeDeletion
  <2>3. w'.pc = "status" /\ w'.cons # {}
    BY <1>2, <2>2 DEF Worker, ConditionFalse
  <2> QED
    BY <1>1, <2>1, <2>3, SameReady, WillNotReport
<1>9. CASE DeleteShoot
  <2>1. UNCHANGED <<stage, fins, ref, phase>>
    BY <1>9 DEF DeleteShoot, clusterVars, statusVars
  <2>2. PhaseInv'
    BY <1>1, <2>1, SameReady
  <2>3. WorkerReadyInv'
    <3>1. CASE w' = StatusError([w EXCEPT !.cons = w.cons \ {"Foreign"}], "Shoot")
      BY <1>3, <3>1, FailedWillNotReport
    <3>2. CASE w' = [w EXCEPT !.pc = "status",
                              !.cons = ConditionFalse(w.cons \ {"Foreign"}, "Shoot")]
      <4>1. w'.pc = "status" /\ w'.cons # {}
        BY <1>2, <3>2 DEF Worker, ConditionFalse
      <4> QED
        BY <4>1, WillNotReport
    <3> QED
      BY <1>9, <3>1, <3>2 DEF DeleteShoot
  <2>4. CASE UNCHANGED shoots
    BY <1>1, <2>1, <2>2, <2>3, <2>4, SameReady
  <2>5. CASE ~UNCHANGED shoots
    <3>1. /\ w.key \in Keys /\ shoots[w.key] \in Shoots /\ shoots[w.key].owner = w.c
          /\ shoots' = [shoots EXCEPT ![w.key].deleting = TRUE]
          /\ stage[w.c] = "deleting"
      BY <1>1, <1>9, <2>5, DeleteEffect
    <3>2. ASSUME NEW k \in Keys
          PROVE  /\ shoots[k] # None => /\ shoots'[k] # None
                                        /\ shoots'[k].owner = shoots[k].owner
                 /\ k # w.key => shoots'[k] = shoots[k]
                 /\ shoots'[w.key].owner = w.c
      <4>1. [shoots[w.key] EXCEPT !.deleting = TRUE] \in Shoots
        BY <3>1 DEF Shoots
      <4>2. [shoots[w.key] EXCEPT !.deleting = TRUE].owner = w.c
        BY <3>1 DEF Shoots
      <4> QED
        BY <1>1, <3>1, <4>1, <4>2, ConstantsAssumption
    <3>3. ShootsWanted'
      BY <1>1, <2>1, <3>1, <3>2 DEF ShootsWanted
    <3>4. \A c \in Clusters : ShootsOf(c) \subseteq ShootsOf(c)'
      BY <3>2 DEF ShootsOf
    <3>5. ReadyHasShoot'
      BY <1>1, <2>1, <3>4, ReadyStays
    <3> QED
      BY <2>2, <2>3, <3>3, <3>5
  <2> QED
    BY <2>4, <2>5
<1>10. CASE ReleaseCluster
  <2>1. CASE Remove(w.c) /\ w' = Idle
    <3>1. UNCHANGED shoots /\ ShootsOf(w.c) = {}
      BY <1>1, <1>10 DEF ReleaseCluster, WorkerInv
    <3>2. /\ stage' = [stage EXCEPT ![w.c] = "absent"]
          /\ phase' = [phase EXCEPT ![w.c] = "none"]
          /\ ref' = [ref EXCEPT ![w.c] = None]
      BY <2>1 DEF Remove
    <3>3. ShootsWanted'
      BY <1>1, <1>2, <3>1, <3>2 DEF ShootsWanted, ShootsOf, ClusterType, Shoots
    <3>4. PhaseInv'
      BY <1>1, <1>2, <3>2 DEF PhaseInv, ClusterType, StatusType
    <3>5. \A c \in Clusters : ShootsOf(c) \subseteq ShootsOf(c)'
      BY <3>1 DEF ShootsOf
    <3>6. ReadyHasShoot'
      BY <1>1, <1>2, <3>2, <3>5, ReadyStays DEF ClusterType, StatusType
    <3> QED
      BY <2>1, <3>3, <3>4, <3>6, WillNotReport
  <2>2. CASE UNCHANGED <<clusterVars, statusVars>>
    <3>1. UNCHANGED <<stage, shoots, ref, phase>>
      BY <1>10, <2>2 DEF ReleaseCluster, clusterVars, statusVars
    <3>2. ASSUME NEW con \in {"Config", "Meta"},
                 w' = StatusError([w EXCEPT !.cons = w.cons \ {"Foreign"}], con)
          PROVE  WorkerReadyInv'
      BY <1>3, <3>2, FailedWillNotReport
    <3> QED
      BY <1>1, <1>10, <2>1, <3>1, <3>2, SameReady DEF ReleaseCluster
  <2> QED
    BY <1>10, <2>1, <2>2 DEF ReleaseCluster
<1>11. CASE UpdateStatus
  <2>1. UNCHANGED <<stage, fins, shoots>> /\ w' = Idle /\ w.pc = "status"
    BY <1>11 DEF UpdateStatus, clusterVars
  <2>2. ShootsWanted' /\ WorkerReadyInv'
    BY <1>1, <2>1, SameReady, WillNotReport
  <2>3. CASE UNCHANGED statusVars
    BY <1>1, <2>1, <2>2, <2>3, SameReady DEF statusVars
  <2>4. CASE /\ stage[w.c] # "absent"
             /\ ref' = [ref EXCEPT ![w.c] = w.ref]
             /\ phase' = [phase EXCEPT ![w.c] = PhaseOf(w)]
    <3>1. PhaseInv'
      BY <1>1, <1>2, <2>1, <2>4 DEF PhaseInv, StatusType
    <3>2. ASSUME NEW c \in Clusters, phase'[c] = "Ready", stage'[c] = "live"
          PROVE  \E k \in ShootsOf(c)' : ref'[c] = <<k[2], k[3]>>
      <4>1. ShootsOf(c)' = ShootsOf(c)
        BY <2>1 DEF ShootsOf
      <4>2. CASE c # w.c
        BY <1>1, <2>1, <2>4, <3>2, <4>1, <4>2 DEF ReadyHasShoot, StatusType
      <4>3. CASE c = w.c
        <5>1. PhaseOf(w) = "Ready" /\ ref'[c] = w.ref
          BY <1>1, <2>4, <3>2, <4>3 DEF StatusType
        <5>2. WillReport
          BY <2>1, <5>1 DEF PhaseOf, WillReport
        <5>3. HasShoot(w.c, w.ref)
          BY <1>1, <2>1, <3>2, <4>3, <5>2 DEF WorkerReadyInv
        <5> QED
          BY <4>1, <4>3, <5>1, <5>3 DEF HasShoot
      <4> QED
        BY <4>2, <4>3
    <3>3. ReadyHasShoot'
      BY <3>2 DEF ReadyHasShoot
    <3> QED
      BY <2>2, <3>1, <3>3
  <2> QED
    BY <1>11, <2>3, <2>4 DEF UpdateStatus
<1> QED
  BY <1>4, <1>5, <1>6, <1>7, <1>8, <1>9, <1>10, <1>11 DEF Step

\* A crash and the other controllers change nothing a Ready Cluster needs.
LEMMA RegistryStepReady ==
  ASSUME DistinctNames, ReadyInv, Crash \/ Registry
  PROVE  ShootsWanted' /\ PhaseInv' /\ ReadyHasShoot' /\ WorkerReadyInv'
<1>1. UNCHANGED <<stage, fins, shoots, ref, phase>> /\ (UNCHANGED w \/ w' = Idle)
  BY DEF Crash, Registry, RegisterProfile, DropProfile, SetLandscape, LoseLandscape,
         WatchSynced, clusterVars, statusVars
<1>2. ShootsWanted' /\ PhaseInv' /\ ReadyHasShoot'
  BY <1>1, SameReady DEF ReadyInv
<1>3. \A c \in Clusters : ShootsOf(c) \subseteq ShootsOf(c)'
  BY <1>1 DEF ShootsOf
<1>4. CASE UNCHANGED w
  BY <1>1, <1>2, <1>3, <1>4, WorkerStaysReady DEF ReadyInv
<1> QED
  BY <1>1, <1>2, <1>4, WillNotReport

\* Gardener only removes shoots of Clusters in deletion.
LEMMA GardenerReady ==
  ASSUME DistinctNames, "gardendelete" \notin Env, ReadyInv, Gardener
  PROVE  ShootsWanted' /\ PhaseInv' /\ ReadyHasShoot' /\ WorkerReadyInv'
<1>1. UNCHANGED <<stage, fins, ref, phase, w>>
  BY DEF Gardener, ShootCondition, ShootUpgrade, ShootDeletedByUser, ShootGone,
         clusterVars, statusVars
<1>2. PICK k \in Keys :
        /\ shoots[k] \in Shoots
        /\ \/ /\ shoots'[k].deleting = shoots[k].deleting
              /\ shoots'[k] \in Shoots /\ shoots'[k].owner = shoots[k].owner
           \/ shoots[k].deleting /\ shoots'[k] = None
        /\ shoots' = [shoots EXCEPT ![k] = shoots'[k]]
  BY GardenerEffect DEF ReadyInv, ShootDeletedByUser
<1>3. /\ shoots[k] # None /\ shoots \in [Keys -> Shoots \cup {None}]
      /\ \A j \in Keys : j # k => shoots'[j] = shoots[j]
  BY <1>2, ConstantsAssumption DEF ReadyInv, IInv, TypeOK
<1>4. shoots'[k] \in Shoots => shoots'[k] # None
  BY ConstantsAssumption
<1>5. ShootsWanted'
  BY <1>1, <1>2, <1>3 DEF ReadyInv, ShootsWanted
<1>6. ASSUME NEW c \in Clusters, stage[c] = "live"
      PROVE  ShootsOf(c) \subseteq ShootsOf(c)'
  <2>1. shoots[k].owner = c => ~shoots[k].deleting
    BY <1>3, <1>6 DEF ReadyInv, ShootsWanted
  <2> QED
    BY <1>2, <1>3, <1>4, <2>1 DEF ShootsOf
<1>7. PhaseInv' /\ ReadyHasShoot'
  BY <1>1, <1>6, SameReady, ReadyStays DEF ReadyInv
<1>8. WorkerReadyInv'
  BY <1>1, <1>6, WorkerStaysReady DEF ReadyInv
<1> QED
  BY <1>5, <1>7, <1>8

\* What users do to a Cluster: they create it, remove it while it is not held, put
\* it in deletion, or change something else.
LEMMA UsersEffect ==
  ASSUME TypeOK, Users
  PROVE  /\ UNCHANGED <<shoots, w>>
         /\ \E c \in Clusters :
              \/ /\ UNCHANGED <<stage, ref, phase>>
                 /\ \A d \in Clusters : "own" \in fins[d] => "own" \in fins'[d]
              \/ /\ stage[c] = "absent" /\ stage' = [stage EXCEPT ![c] = "live"]
                 /\ UNCHANGED <<fins, ref, phase>>
              \/ "own" \notin fins[c] /\ Remove(c)
              \/ /\ stage[c] = "live" /\ stage' = [stage EXCEPT ![c] = "deleting"]
                 /\ UNCHANGED <<fins, ref, phase>>
<1>1. UNCHANGED <<shoots, w>>
  BY DEF Users, CreateCluster, DeleteCluster, Relabel, AddForeignFinalizer,
         RemoveForeignFinalizer, Annotate, GenerationChanged, registryVars
<1>2. PICK c \in Clusters : \/ CreateCluster(c) \/ DeleteCluster(c) \/ Relabel(c)
                            \/ AddForeignFinalizer(c) \/ RemoveForeignFinalizer(c)
                            \/ Annotate(c) \/ GenerationChanged(c)
  BY DEF Users
<1>3. fins \in [Clusters -> SUBSET {"own", "foreign"}]
  BY DEF TypeOK, ClusterType
<1>4. CASE CreateCluster(c)
  BY <1>1, <1>4 DEF CreateCluster, statusVars
<1>5. CASE DeleteCluster(c)
  BY <1>1, <1>5 DEF DeleteCluster, statusVars
<1>6. CASE Relabel(c) \/ Annotate(c) \/ GenerationChanged(c)
  BY <1>1, <1>6 DEF Relabel, Annotate, GenerationChanged, clusterVars, statusVars
<1>7. CASE AddForeignFinalizer(c)
  <2>1. UNCHANGED <<stage, ref, phase>> /\ fins' = [fins EXCEPT ![c] = @ \cup {"foreign"}]
    BY <1>7 DEF AddForeignFinalizer, statusVars
  <2>2. \A d \in Clusters : "own" \in fins[d] => "own" \in fins'[d]
    BY <1>3, <2>1
  <2> QED
    BY <1>1, <2>1, <2>2
<1>8. CASE RemoveForeignFinalizer(c)
  <2>1. CASE fins[c] = {"foreign"} /\ Remove(c)
    BY <1>1, <2>1
  <2>2. CASE /\ fins' = [fins EXCEPT ![c] = @ \ {"foreign"}]
             /\ UNCHANGED <<stage, ref, phase>>
    <3>1. \A d \in Clusters : "own" \in fins[d] => "own" \in fins'[d]
      BY <1>3, <2>2
    <3> QED
      BY <1>1, <2>2, <3>1
  <2> QED
    BY <1>8, <2>1, <2>2 DEF RemoveForeignFinalizer, statusVars
<1> QED
  BY <1>2, <1>4, <1>5, <1>6, <1>7, <1>8

\* Users cannot take the shoot from a Cluster that reports Ready.
LEMMA UsersReady ==
  ASSUME DistinctNames, ReadyInv, Users
  PROVE  ShootsWanted' /\ PhaseInv' /\ ReadyHasShoot' /\ WorkerReadyInv'
<1>1. /\ IInv /\ TypeOK /\ ShootInv /\ WorkerReadyInv
      /\ ShootsWanted /\ PhaseInv /\ ReadyHasShoot
      /\ ClusterType /\ StatusType /\ shoots \in [Keys -> Shoots \cup {None}]
  BY DEF ReadyInv, IInv, TypeOK
<1>2. UNCHANGED <<shoots, w>>
  BY <1>1, UsersEffect
<1>3. \A d \in Clusters : ShootsOf(d) \subseteq ShootsOf(d)'
  BY <1>2 DEF ShootsOf
<1>4. ASSUME \A d \in Clusters :
               /\ "own" \in fins[d] /\ stage[d] # "absent" =>
                    /\ "own" \in fins'[d] /\ stage'[d] # "absent"
                    /\ stage'[d] = "live" => stage[d] = "live"
               /\ stage'[d] = "absent" => phase'[d] = "none"
               /\ phase'[d] = "Ready" /\ stage'[d] = "live" =>
                    phase[d] = "Ready" /\ stage[d] = "live" /\ ref'[d] = ref[d],
             stage' \in [Clusters -> {"absent", "live", "deleting"}]
      PROVE  ShootsWanted' /\ PhaseInv' /\ ReadyHasShoot' /\ WorkerReadyInv'
  <2>1. ASSUME NEW k \in Keys, shoots'[k] # None, shoots'[k].deleting
        PROVE  stage'[shoots'[k].owner] = "deleting"
    <3>1. shoots[k] \in Shoots /\ shoots'[k] = shoots[k] /\ shoots[k].owner \in Clusters
      BY <1>1, <1>2, <2>1 DEF Shoots
    <3>2. /\ stage[shoots[k].owner] = "deleting"
          /\ "own" \in fins[shoots[k].owner]
      BY <1>1, <2>1, <3>1 DEF ShootsWanted, ShootInv
    <3> QED
      BY <1>4, <3>1, <3>2
  <2>2. ShootsWanted' /\ PhaseInv'
    BY <1>4, <2>1 DEF ShootsWanted, PhaseInv
  <2>3. ReadyHasShoot'
    BY <1>1, <1>3, <1>4, ReadyStays
  <2>4. WorkerReadyInv'
    BY <1>1, <1>2, <1>3, <1>4, WorkerStaysReady
  <2> QED
    BY <2>2, <2>3, <2>4
<1>5. stage' \in [Clusters -> {"absent", "live", "deleting"}]
  BY <1>1, EnvironmentType DEF TypeOK, ClusterType
<1>6. PICK c \in Clusters :
         \/ /\ UNCHANGED <<stage, ref, phase>>
            /\ \A d \in Clusters : "own" \in fins[d] => "own" \in fins'[d]
         \/ /\ stage[c] = "absent" /\ stage' = [stage EXCEPT ![c] = "live"]
            /\ UNCHANGED <<fins, ref, phase>>
         \/ "own" \notin fins[c] /\ Remove(c)
         \/ /\ stage[c] = "live" /\ stage' = [stage EXCEPT ![c] = "deleting"]
            /\ UNCHANGED <<fins, ref, phase>>
  BY <1>1, UsersEffect
<1>7. CASE /\ UNCHANGED <<stage, ref, phase>>
           /\ \A d \in Clusters : "own" \in fins[d] => "own" \in fins'[d]
  BY <1>1, <1>4, <1>5, <1>7 DEF PhaseInv
<1>8. CASE /\ stage[c] = "absent" /\ stage' = [stage EXCEPT ![c] = "live"]
           /\ UNCHANGED <<fins, ref, phase>>
  BY <1>1, <1>4, <1>5, <1>8 DEF PhaseInv, ClusterType
<1>9. CASE "own" \notin fins[c] /\ Remove(c)
  BY <1>1, <1>4, <1>5, <1>9 DEF PhaseInv, ClusterType, StatusType, Remove
<1>10. CASE /\ stage[c] = "live" /\ stage' = [stage EXCEPT ![c] = "deleting"]
            /\ UNCHANGED <<fins, ref, phase>>
  BY <1>1, <1>4, <1>5, <1>10 DEF PhaseInv, ClusterType
<1> QED
  BY <1>6, <1>7, <1>8, <1>9, <1>10

\* A Cluster that reports Ready has the shoot its status names (the status object
\* names it before it is written, Ready is published after). Names must be distinct,
\* and nobody else may delete the shoot: Ready is not withdrawn when that happens.
THEOREM ReadyIsTrue ==
  ASSUME StableNames, FixedHomes, DistinctNames, "gardendelete" \notin Env
  PROVE  Spec => []ReadyHasShoot
<1>1. Init => ReadyInv
  <2> SUFFICES ASSUME Init PROVE ReadyInv
    OBVIOUS
  <2>1. IInv
    BY InitInv
  <2>2. Idle.pc = "idle"
    BY DEF Idle
  <2> QED
    BY <2>1, <2>2 DEF Init, ReadyInv, ShootsWanted, PhaseInv, ReadyHasShoot,
                      WorkerReadyInv, WillReport
<1>2. ReadyInv /\ [Next]_vars => ReadyInv'
  <2> SUFFICES ASSUME ReadyInv, [Next]_vars PROVE ReadyInv'
    OBVIOUS
  <2>1. IInv'
    BY NextInv DEF ReadyInv
  <2>2. CASE Next
    BY <2>1, <2>2, StartReady, StepReady, RegistryStepReady, GardenerReady, UsersReady
       DEF Next, ReadyInv
  <2>3. CASE UNCHANGED vars
    <3>1. UNCHANGED <<stage, fins, shoots, ref, phase, w>>
      BY <2>3 DEF vars, clusterVars, statusVars
    <3>2. \A c \in Clusters : ShootsOf(c) \subseteq ShootsOf(c)'
      BY <3>1 DEF ShootsOf
    <3> QED
      BY <2>1, <3>1, <3>2, SameReady, WorkerStaysReady DEF ReadyInv
  <2> QED
    BY <2>2, <2>3
<1>3. ReadyInv => ReadyHasShoot
  BY DEF ReadyInv
<1> QED
  BY <1>1, <1>2, <1>3, PTL DEF Spec
=============================================================================
