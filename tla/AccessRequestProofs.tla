--------------------------- MODULE AccessRequestProofs ---------------------------
(***************************************************************************)
(* Theorems about the AccessRequest controller, for any number of requests *)
(* and Clusters, any permissions and any number of failures.               *)
(***************************************************************************)
EXTENDS AccessInvariant, TLAPS

\* A fault leaves the count of faults within its bound.
LEMMA FaultsType ==
  ASSUME faults \in 0..MaxFaults, Fault \/ NoFault
  PROVE  faults' \in 0..MaxFaults
  BY AccessAssumption DEF Fault, NoFault

\* There are six kinds.
LEMMA KindOrder == Len(CleanupOrder) = 6 /\ DOMAIN CleanupOrder = 1..6
  BY DEF CleanupOrder

\* A worker that goes on to another call, after an error to the status update, keeps
\* everything else.
LEMMA GotoKeeps ==
  ASSUME w \in Worker, NEW pc \in Calls, Goto(pc)
  PROVE  /\ w' \in Worker /\ w'.pc = pc /\ w'.pc # "idle"
         /\ w'.ar = w.ar /\ w'.gen = w.gen /\ w'.deleting = w.deleting /\ w'.held = w.held
         /\ w'.granted = w.granted /\ w'.client = w.client /\ w'.todo = w.todo
         /\ w'.kind = w.kind /\ w'.failed = w.failed /\ w'.timer = w.timer
  BY DEF Worker, Goto, Calls

LEMMA ErrorKeeps ==
  ASSUME w \in Worker, StatusError
  PROVE  /\ w' \in Worker /\ w'.pc = "status" /\ w'.failed = TRUE
         /\ w'.ar = w.ar /\ w'.gen = w.gen /\ w'.deleting = w.deleting /\ w'.held = w.held
         /\ w'.granted = w.granted /\ w'.client = w.client /\ w'.todo = w.todo
         /\ w'.kind = w.kind /\ w'.timer = w.timer
  BY DEF Worker, StatusError, Calls

LEMMA IdleType == Idle \in Worker
  BY AccessAssumption, KindOrder DEF Idle, Worker, Calls

\* Calls that change the worker and the queue only keep the types.
LEMMA ReadingType ==
  ASSUME AccessInv,
         \/ GetClusterAndProfile \/ CheckGrant \/ ScheduleRenewal
         \/ GetShootAccess \/ PanicOnMissingClient \/ Ensured \/ CleanedUp
  PROVE  TypeOK'
<1> USE DEF AccessInv, TypeOK, requestVars, statusVars, shootVars, clusterVars, queueVars
<1>1. ASSUME w.pc # "idle", StatusError \/ \E pc \in Calls : Goto(pc)
      PROVE  w' \in Worker /\ w'.ar \in Requests /\ w'.gen \in Generations
  BY <1>1, GotoKeeps, ErrorKeeps
<1>2. CASE GetClusterAndProfile
  <2>1. w.pc # "idle" /\ (StatusError \/ \E pc \in Calls : Goto(pc))
    BY <1>2 DEF GetClusterAndProfile, Calls
  <2> QED
    BY <1>1, <1>2, <2>1, FaultsType DEF GetClusterAndProfile
<1>3. CASE CheckGrant
  <2>1. w.pc # "idle" /\ (StatusError \/ \E pc \in Calls : Goto(pc))
    BY <1>3 DEF CheckGrant, Calls
  <2> QED
    BY <1>1, <1>3, <2>1, FaultsType DEF CheckGrant
<1>4. CASE ScheduleRenewal
  <2>1. (secret[w.ar] # "due") \in BOOLEAN
    OBVIOUS
  <2> QED
    BY <1>4, <2>1 DEF ScheduleRenewal, Worker, Calls
<1>5. CASE GetShootAccess
  <2>1. w.ar \in Requests /\ w.gen \in Generations
    BY <1>5 DEF GetShootAccess
  <2>2. CASE StatusError
    BY <1>1, <1>5, <2>2, FaultsType DEF GetShootAccess
  <2>3. CASE ~StatusError
    <3> DEFINE todo == IF w.deleting THEN {} ELSE WantedSpec.objects
               pc == IF w.deleting THEN "cleanup" ELSE "ensure"
    <3>1. todo \in SUBSET Objects /\ pc \in Calls
      BY <2>1, AccessAssumption DEF WantedSpec, Calls
    <3>2. w' = [w EXCEPT !.client = TRUE, !.pc = pc, !.todo = todo]
      BY <1>5, <2>3 DEF GetShootAccess
    <3> HIDE DEF todo, pc
    <3>3. w' \in Worker /\ w'.ar = w.ar /\ w'.gen = w.gen
      BY <3>1, <3>2 DEF Worker
    <3> QED
      BY <1>5, <2>1, <3>3, FaultsType DEF GetShootAccess
  <2> QED
    BY <2>2, <2>3
<1>6. CASE PanicOnMissingClient
  BY <1>6, IdleType DEF PanicOnMissingClient, Idle
<1>7. CASE Ensured
  <2>1. w.pc # "idle" /\ \E pc \in Calls : Goto(pc)
    BY <1>7 DEF Ensured, Calls
  <2> QED
    BY <1>1, <1>7, <2>1 DEF Ensured
<1>8. CASE CleanedUp
  <2>1. w.pc # "idle" /\ \E pc \in Calls : Goto(pc)
    BY <1>8 DEF CleanedUp, Calls
  <2> QED
    BY <1>1, <1>8, <2>1 DEF CleanedUp
<1> QED
  BY <1>2, <1>3, <1>4, <1>5, <1>6, <1>7, <1>8

\* What creating, replacing and deleting objects does to the permissions of a request.
LEMMA WithType ==
  ASSUME NEW S \in SUBSET Objects, NEW o \in Objects
  PROVE  With(S, o) \in SUBSET Objects
  BY DEF With

\* Calls that write to the shoot keep the types.
LEMMA ShootWriteType ==
  ASSUME AccessInv,
         \/ \E o \in Objects : \/ EnsureServiceAccount(o) \/ EnsureTokenPermission(o)
                               \/ EnsureOpenIDConnect(o) \/ EnsureOIDCPermission(o)
         \/ CleanupKind
  PROVE  TypeOK'
<1> USE DEF AccessInv, TypeOK, requestVars, statusVars, shootVars, clusterVars, queueVars
<1>1. ASSUME NEW o \in Objects, NEW failed, w.pc = "ensure",
             failed \in {Abort, GoOn(o), [Done(o) EXCEPT !.failed = TRUE]},
             EnsureObject(o, Done(o), failed)
      PROVE  TypeOK'
  <2>1. w' \in Worker /\ w'.ar = w.ar /\ w'.gen = w.gen
    <3>1. /\ Done(o) \in Worker /\ Done(o).ar = w.ar /\ Done(o).gen = w.gen
          /\ Abort \in Worker /\ Abort.ar = w.ar /\ Abort.gen = w.gen
      BY DEF Done, Abort, Worker, Calls
    <3>2. /\ GoOn(o) \in Worker /\ GoOn(o).ar = w.ar /\ GoOn(o).gen = w.gen
      BY DEF GoOn, Worker, Calls
    <3>3. LET d == [Done(o) EXCEPT !.failed = TRUE]
          IN  d \in Worker /\ d.ar = w.ar /\ d.gen = w.gen
      BY <3>1 DEF Worker
    <3>4. w' = Done(o) \/ w' = failed
      BY <1>1 DEF EnsureObject
    <3>5. CASE w' = Done(o)
      BY <3>1, <3>5
    <3>6. CASE w' = failed
      BY <1>1, <3>1, <3>2, <3>3, <3>6
    <3> QED
      BY <3>4, <3>5, <3>6
  <2>2. perms' \in [Requests -> SUBSET Objects]
    BY <1>1, WithType DEF EnsureObject, Ensure
  <2> QED
    BY <1>1, <2>1, <2>2, FaultsType DEF EnsureObject
<1>2. ASSUME NEW o \in Objects, EnsureServiceAccount(o) PROVE TypeOK'
  BY <1>1, <1>2 DEF EnsureServiceAccount, Due
<1>3. ASSUME NEW o \in Objects, EnsureTokenPermission(o) PROVE TypeOK'
  BY <1>1, <1>3 DEF EnsureTokenPermission, Due
<1>4. ASSUME NEW o \in Objects, EnsureOpenIDConnect(o) PROVE TypeOK'
  BY <1>1, <1>4 DEF EnsureOpenIDConnect, Due
<1>5. ASSUME NEW o \in Objects, EnsureOIDCPermission(o) PROVE TypeOK'
  BY <1>1, <1>5 DEF EnsureOIDCPermission, Due
<1>6. CASE CleanupKind
  <2>1. w' \in Worker /\ w'.ar = w.ar /\ w'.gen = w.gen
    <3>1. CASE StatusError
      BY <3>1, ErrorKeeps
    <3>2. CASE w' = [w EXCEPT !.kind = @ + 1]
      BY <1>6, <3>2, KindOrder DEF CleanupKind, Worker
    <3> QED
      BY <1>6, <3>1, <3>2 DEF CleanupKind
  <2>2. perms' \in [Requests -> SUBSET Objects]
    BY <1>6 DEF CleanupKind
  <2> QED
    BY <1>6, <2>1, <2>2, FaultsType DEF CleanupKind
<1> QED
  BY <1>2, <1>3, <1>4, <1>5, <1>6

\* A request that disappears keeps the types.
LEMMA RemoveType ==
  ASSUME TypeOK, NEW r \in Requests, Remove(r)
  PROVE  /\ stage' \in [Requests -> {"absent", "live", "deleting"}]
         /\ gen' \in [Requests -> 0..MaxGen]
         /\ op' \in [Requests -> {"none", "ignore", "reconcile"}]
         /\ phase' \in [Requests -> {"none", "PENDING", "GRANTED"}]
         /\ observed' \in [Requests -> 0..MaxGen]
         /\ secret' \in [Requests -> {"none", "static", "fresh", "due"}]
         /\ current' \in SUBSET Requests
  BY AccessAssumption DEF TypeOK, Remove

\* Calls that write to the platform cluster keep the types.
LEMMA PlatformWriteType ==
  ASSUME AccessInv,
         \/ AddFinalizer \/ WriteTokenSecret \/ WriteOIDCSecret
         \/ RemoveFinalizer \/ UpdateStatus
  PROVE  TypeOK'
<1> USE DEF AccessInv, TypeOK, requestVars, statusVars, shootVars, clusterVars, queueVars
<1>1. CASE AddFinalizer
  <2>1. w' \in Worker /\ w'.ar = w.ar /\ w'.gen \in Generations
    <3>1. CASE StatusError
      BY <1>1, <3>1, ErrorKeeps DEF AddFinalizer
    <3>2. CASE w' = [w EXCEPT !.pc = "check", !.gen = gen[w.ar]] /\ stage[w.ar] = "live"
      <4>1. w.ar \in Requests /\ gen[w.ar] \in Generations
        BY <1>1, <3>2 DEF AddFinalizer, RequestInv
      <4> QED
        BY <3>2, <4>1 DEF Worker, Calls
    <3> QED
      BY <1>1, <3>1, <3>2 DEF AddFinalizer
  <2> QED
    BY <1>1, <2>1, FaultsType DEF AddFinalizer, Updated
<1>2. CASE WriteTokenSecret
  <2>1. w' \in Worker /\ w'.ar = w.ar /\ w'.gen = w.gen
    <3>1. CASE StatusError
      BY <3>1, ErrorKeeps
    <3>2. CASE w' = [w EXCEPT !.pc = "cleanup", !.timer = TRUE]
      BY <3>2 DEF Worker, Calls
    <3> QED
      BY <1>2, <3>1, <3>2 DEF WriteTokenSecret
  <2> QED
    BY <1>2, <2>1, FaultsType DEF WriteTokenSecret, SecretWritten
<1>3. CASE WriteOIDCSecret
  <2>1. w' \in Worker /\ w'.ar = w.ar /\ w'.gen = w.gen
    BY <1>3, ErrorKeeps, GotoKeeps DEF WriteOIDCSecret, Calls
  <2> QED
    BY <1>3, <2>1, FaultsType DEF WriteOIDCSecret, SecretWritten
<1>4. CASE RemoveFinalizer
  <2>1. w.ar \in Requests /\ w.gen \in Generations /\ (Fault \/ NoFault)
    BY <1>4 DEF RemoveFinalizer
  <2>2. w' = Idle \/ StatusError
    BY <1>4 DEF RemoveFinalizer
  <2>3. w' \in Worker /\ (w'.pc # "idle" => w'.ar = w.ar /\ w'.gen = w.gen)
    <3>1. Idle.pc = "idle"
      BY DEF Idle
    <3> QED
      BY <2>2, <3>1, ErrorKeeps, IdleType
  <2>4. CASE Remove(w.ar)
    BY <1>4, <2>1, <2>3, <2>4, RemoveType, FaultsType DEF RemoveFinalizer
  <2>5. CASE ~Remove(w.ar)
    BY <1>4, <2>1, <2>3, <2>5, FaultsType DEF RemoveFinalizer
  <2> QED
    BY <2>4, <2>5
<1>5. CASE UpdateStatus
  <2>1. w' = Idle /\ w'.pc = "idle" /\ w.ar \in Requests
    BY <1>5 DEF UpdateStatus, Idle
  <2>2. PhaseOf(w) \in {"none", "PENDING", "GRANTED"} /\ w.gen \in 0..MaxGen
    BY DEF PhaseOf, Worker
  <2>3. /\ phase' \in [Requests -> {"none", "PENDING", "GRANTED"}]
        /\ observed' \in [Requests -> 0..MaxGen]
        /\ queue' \in SUBSET Requests /\ timer' \in SUBSET Requests
        /\ Fault \/ NoFault
    BY <1>5, <2>1, <2>2 DEF UpdateStatus
  <2> QED
    BY <1>5, <2>1, <2>3, FaultsType, IdleType DEF UpdateStatus
<1> QED
  BY <1>1, <1>2, <1>3, <1>4, <1>5

\* Starting a reconcile, crashes and the environment keep the types.
LEMMA EnvironmentType ==
  ASSUME AccessInv,
         \/ \E r \in Requests : Start(r) \/ RenewalDue(r)
         \/ Crash \/ RegistryChanges \/ Users
         \/ \E c \in Clusters : ClusterChanges(c) \/ ShootGone(c)
  PROVE  TypeOK'
<1> USE DEF AccessInv, TypeOK, requestVars, statusVars, shootVars, clusterVars, queueVars
<1>1. ASSUME NEW r \in Requests, Skip(r) PROVE TypeOK'
  BY <1>1 DEF Skip
<1>2. ASSUME NEW r \in Requests, StartFails(r) PROVE TypeOK'
  BY <1>2, FaultsType DEF StartFails
<1>3. ASSUME NEW r \in Requests, Begin(r) PROVE TypeOK'
  <2> DEFINE del == stage[r] = "deleting"
             held1 == r \in held
             granted == stage[r] = "live" /\ AlreadyGranted(r)
  <2>1. del \in BOOLEAN /\ held1 \in BOOLEAN /\ granted \in BOOLEAN
    BY DEF AlreadyGranted
  <2>2. gen[r] \in Generations
    BY <1>3 DEF Begin, RequestInv
  <2>3. w' = [Idle EXCEPT !.pc = "cluster", !.ar = r, !.gen = gen[r], !.deleting = del,
                          !.held = held1, !.granted = granted]
    BY <1>3 DEF Begin
  <2> HIDE DEF del, held1, granted
  <2>4. w' \in Worker /\ w'.ar \in Requests /\ w'.gen \in Generations
    <3>1. [Idle EXCEPT !.pc = "cluster", !.ar = r, !.gen = gen[r]] \in Worker
      BY <2>2, IdleType DEF Worker, Calls, Generations
    <3>2. \A x \in Worker : [x EXCEPT !.deleting = del, !.held = held1, !.granted = granted]
                              \in Worker
      BY <2>1 DEF Worker
    <3>3. w' = [[Idle EXCEPT !.pc = "cluster", !.ar = r, !.gen = gen[r]]
                  EXCEPT !.deleting = del, !.held = held1, !.granted = granted]
      BY <2>3 DEF Idle
    <3>4. w' \in Worker
      BY <3>1, <3>2, <3>3, Zenon
    <3>5. w'.ar = r /\ w'.gen = gen[r]
      BY <2>3 DEF Idle
    <3> QED
      BY <2>2, <3>4, <3>5
  <2> QED
    BY <1>3, <2>4 DEF Begin, Updated
<1>4. ASSUME NEW r \in Requests, RenewalDue(r) PROVE TypeOK'
  BY <1>4 DEF RenewalDue
<1>5. CASE Crash
  BY <1>5, FaultsType, IdleType DEF Crash, Idle
<1>6. CASE RegistryChanges
  BY <1>6 DEF RegistryChanges
<1>7. CASE Users
  <2>1. PICK r \in Requests : \/ CreateRequest(r) \/ ChangeSpec(r) \/ DeleteRequest(r)
                              \/ Annotate(r) \/ SecretDeleted(r) \/ TokenAges(r)
    BY <1>7 DEF Users
  <2>2. CASE CreateRequest(r)
    BY <2>2, AccessAssumption DEF CreateRequest, Generations
  <2>3. CASE ChangeSpec(r)
    BY <2>3, AccessAssumption DEF ChangeSpec, Updated
  <2>4. CASE DeleteRequest(r)
    <3>1. CASE Remove(r)
      BY <2>4, <3>1, RemoveType DEF DeleteRequest
    <3>2. CASE ~Remove(r)
      BY <2>4, <3>2 DEF DeleteRequest
    <3> QED
      BY <3>1, <3>2
  <2>5. CASE Annotate(r)
    BY <2>5 DEF Annotate
  <2>6. CASE SecretDeleted(r)
    BY <2>6 DEF SecretDeleted
  <2>7. CASE TokenAges(r)
    BY <2>7 DEF TokenAges
  <2> QED
    BY <2>1, <2>2, <2>3, <2>4, <2>5, <2>6, <2>7
<1>8. ASSUME NEW c \in Clusters, ClusterChanges(c) PROVE TypeOK'
  BY <1>8
  DEF ClusterChanges, Lifecycle!Appear, Lifecycle!Withdraw, Lifecycle!Vanish,
      Lifecycle!Hold, Lifecycle!Provide, Lifecycle!Terminate, Lifecycle!Release
<1>9. ASSUME NEW c \in Clusters, ShootGone(c) PROVE TypeOK'
  <2> DEFINE client == w.client /\ w.ar \notin {r \in Requests : ClusterOf[r] = c}
  <2>1. client \in BOOLEAN /\ w' = [w EXCEPT !.client = client]
    BY <1>9 DEF ShootGone, Worker
  <2> HIDE DEF client
  <2>2. w' \in Worker /\ w'.ar = w.ar /\ w'.gen = w.gen /\ w'.pc = w.pc
    BY <2>1 DEF Worker
  <2> QED
    BY <1>9, <2>2 DEF ShootGone, Lifecycle!Terminated
<1> QED
  BY <1>1, <1>2, <1>3, <1>4, <1>5, <1>6, <1>7, <1>8, <1>9 DEF Start

\* Every step of the controller and its environment keeps the types.
LEMMA NextType ==
  ASSUME AccessInv, [Next]_vars
  PROVE  TypeOK'
<1>1. CASE Next
  BY <1>1, ReadingType, ShootWriteType, PlatformWriteType, EnvironmentType DEF Next, Step
<1>2. CASE UNCHANGED vars
  BY <1>2 DEF AccessInv, TypeOK, vars, requestVars, statusVars, shootVars, clusterVars, queueVars
<1> QED
  BY <1>1, <1>2

-------------------------------------------------------------------------------
\* Which steps leave Clusters, requests, permissions or secrets alone.
LEMMA StepFrame ==
  ASSUME Step
  PROVE  UNCHANGED clusterVars
  BY DEF Step, GetClusterAndProfile, AddFinalizer, CheckGrant, ScheduleRenewal,
         GetShootAccess, PanicOnMissingClient, EnsureServiceAccount, EnsureTokenPermission,
         EnsureOpenIDConnect, EnsureOIDCPermission, EnsureObject, Ensured, WriteTokenSecret,
         WriteOIDCSecret, CleanupKind, CleanedUp, RemoveFinalizer, UpdateStatus

\* Clusters with a shoot stay there and held.
LEMMA NextLifecycle ==
  ASSUME AccessInv, [Next]_vars
  PROVE  LifecycleInv'
<1>1. ASSUME UNCHANGED clusterVars PROVE LifecycleInv'
  BY <1>1 DEF AccessInv, LifecycleInv, clusterVars
<1>2. CASE Step
  BY <1>1, <1>2, StepFrame
<1>3. ASSUME NEW c \in Clusters, ClusterChanges(c) \/ ShootGone(c) PROVE LifecycleInv'
  <2> USE DEF AccessInv, TypeOK, LifecycleInv
  <2>1. CASE Lifecycle!Appear(c) \/ Lifecycle!Withdraw(c) \/ Lifecycle!Vanish(c)
    BY <2>1 DEF Lifecycle!Appear, Lifecycle!Withdraw, Lifecycle!Vanish
  <2>2. CASE Lifecycle!Hold(c) \/ Lifecycle!Release(c)
    BY <2>2 DEF Lifecycle!Hold, Lifecycle!Release
  <2>3. CASE Lifecycle!Provide(c)
    BY <2>3 DEF Lifecycle!Provide
  <2>4. CASE Lifecycle!Terminate(c) \/ Lifecycle!Terminated(c)
    BY <2>4 DEF Lifecycle!Terminate, Lifecycle!Terminated
  <2> QED
    BY <1>3, <2>1, <2>2, <2>3, <2>4 DEF ClusterChanges, ShootGone
<1>4. ASSUME NEW r \in Requests, Start(r) \/ RenewalDue(r) PROVE LifecycleInv'
  BY <1>1, <1>4 DEF Start, Skip, StartFails, Begin, RenewalDue
<1>5. CASE Crash \/ RegistryChanges
  BY <1>1, <1>5 DEF Crash, RegistryChanges
<1>6. CASE Users
  BY <1>1, <1>6
  DEF Users, CreateRequest, ChangeSpec, DeleteRequest, Annotate, SecretDeleted, TokenAges
<1>7. CASE UNCHANGED vars
  BY <1>1, <1>7 DEF vars
<1> QED
  BY <1>2, <1>3, <1>4, <1>5, <1>6, <1>7 DEF Next

\* Creating or replacing an object keeps the names of a request's objects unique.
LEMMA WithUnique ==
  ASSUME NEW S, UniqueNames(S), NEW o
  PROVE  UniqueNames(With(S, o))
  BY DEF UniqueNames, With

\* Requests, their status and their permissions go on to agree.
LEMMA NextRequest ==
  ASSUME AccessInv, [Next]_vars
  PROVE  RequestInv'
<1> USE DEF AccessInv, TypeOK
<1>1. ASSUME UNCHANGED <<stage, held, gen, statusVars, perms, shoot>> PROVE RequestInv'
  BY <1>1 DEF RequestInv, statusVars, UniqueNames
<1>2. CASE Step
  <2>1. CASE AddFinalizer
    BY <2>1 DEF AddFinalizer, RequestInv, statusVars, shootVars, clusterVars, UniqueNames
  <2>2. ASSUME NEW o \in Objects, NEW done, NEW failed, Due(o), EnsureObject(o, done, failed)
        PROVE  RequestInv'
    <3>1. CASE UNCHANGED perms
      BY <1>1, <2>2, <3>1 DEF EnsureObject, requestVars, clusterVars
    <3>2. CASE w.client /\ Ensure(o)
      <4>1. w.ar \in Requests /\ w.ar \in held /\ shoot[ClusterOf[w.ar]] # "none"
        BY <2>2, <3>2 DEF Due, WorkerInv, ReadInv, CallInv
      <4>2. UniqueNames(With(perms[w.ar], o))
        BY <4>1, WithUnique DEF RequestInv
      <4>3. UNCHANGED <<stage, held, gen, phase, observed, shoot>>
        BY <2>2 DEF EnsureObject, requestVars, statusVars, clusterVars
      <4> QED
        BY <3>2, <4>1, <4>2, <4>3 DEF Ensure, RequestInv
    <3> QED
      BY <2>2, <3>1, <3>2 DEF EnsureObject
  <2>3. CASE CleanupKind
    <3>1. /\ UNCHANGED <<stage, held, gen, phase, observed, shoot>>
          /\ \A r \in Requests : perms'[r] \subseteq perms[r]
      BY <2>3 DEF CleanupKind, requestVars, statusVars, clusterVars
    <3> QED
      BY <3>1 DEF RequestInv, UniqueNames
  <2>4. CASE RemoveFinalizer
    <3>1. w.ar \in Requests /\ perms[w.ar] = {}
      BY <2>4 DEF RemoveFinalizer, WorkerInv, EndInv
    <3> QED
      BY <2>4, <3>1
      DEF RemoveFinalizer, Remove, RequestInv, requestVars, statusVars, clusterVars, UniqueNames
  <2>5. CASE UpdateStatus
    <3>1. UNCHANGED <<stage, held, gen, perms, shoot>> /\ w.ar \in Requests
      BY <2>5 DEF UpdateStatus, requestVars, shootVars, clusterVars
    <3>2. CASE UNCHANGED statusVars
      BY <1>1, <3>1, <3>2
    <3>3. CASE ~UNCHANGED statusVars
      <4>1. /\ phase' = [phase EXCEPT ![w.ar] = PhaseOf(w)]
            /\ observed' = [observed EXCEPT ![w.ar] = w.gen]
            /\ stage[w.ar] # "absent"
        BY <2>5, <3>3 DEF UpdateStatus
      <4>2. PhaseOf(w) = "GRANTED" => w.ar \in held /\ w.gen <= gen[w.ar]
        BY <2>5 DEF PhaseOf, WorkerInv, ReadInv, EndInv, UpdateStatus
      <4> QED
        BY <3>1, <4>1, <4>2 DEF RequestInv, UniqueNames
    <3> QED
      BY <3>2, <3>3
  <2>6. CASE \/ GetClusterAndProfile \/ CheckGrant \/ ScheduleRenewal \/ GetShootAccess
             \/ PanicOnMissingClient \/ Ensured \/ WriteTokenSecret \/ WriteOIDCSecret
             \/ CleanedUp
    BY <1>1, <2>6
    DEF GetClusterAndProfile, CheckGrant, ScheduleRenewal, GetShootAccess,
        PanicOnMissingClient, Ensured, WriteTokenSecret, WriteOIDCSecret, CleanedUp,
        requestVars, shootVars, clusterVars
  <2> QED
    BY <1>2, <2>1, <2>2, <2>3, <2>4, <2>5, <2>6
    DEF Step, EnsureServiceAccount, EnsureTokenPermission, EnsureOpenIDConnect,
        EnsureOIDCPermission
<1>3. ASSUME NEW r \in Requests, Start(r) \/ RenewalDue(r) PROVE RequestInv'
  BY <1>1, <1>3 DEF Start, Skip, StartFails, Begin, RenewalDue, requestVars, shootVars, clusterVars
<1>4. CASE Crash \/ RegistryChanges
  BY <1>1, <1>4 DEF Crash, RegistryChanges, requestVars, shootVars, clusterVars
<1>5. CASE Users
  <2> USE DEF requestVars, statusVars, shootVars, clusterVars
  <2>1. PICK r \in Requests : \/ CreateRequest(r) \/ ChangeSpec(r) \/ DeleteRequest(r)
                              \/ Annotate(r) \/ SecretDeleted(r) \/ TokenAges(r)
    BY <1>5 DEF Users
  <2>2. CASE CreateRequest(r)
    BY <2>2, AccessAssumption DEF CreateRequest, RequestInv, Generations, UniqueNames
  <2>3. CASE ChangeSpec(r)
    <3>1. /\ gen[r] \in 1..MaxGen /\ gen' = [gen EXCEPT ![r] = @ + 1] /\ gen[r] < MaxGen
          /\ UNCHANGED <<stage, held, phase, observed, perms, shoot>>
      BY <2>3 DEF ChangeSpec, RequestInv, Generations
    <3> QED
      BY <3>1, AccessAssumption DEF RequestInv, Generations, UniqueNames
  <2>4. CASE DeleteRequest(r)
    BY <2>4 DEF DeleteRequest, Remove, RequestInv, UniqueNames
  <2>5. CASE Annotate(r) \/ SecretDeleted(r) \/ TokenAges(r)
    BY <1>1, <2>5 DEF Annotate, SecretDeleted, TokenAges
  <2> QED
    BY <2>1, <2>2, <2>3, <2>4, <2>5
<1>6. ASSUME NEW c \in Clusters, ClusterChanges(c) PROVE RequestInv'
  <2>1. UNCHANGED <<stage, held, gen, phase, observed, perms>>
    BY <1>6 DEF ClusterChanges, requestVars, statusVars, shootVars
  <2>2. \A d \in Clusters : shoot[d] # "none" => shoot'[d] # "none"
    BY <1>6
    DEF ClusterChanges, Lifecycle!Appear, Lifecycle!Withdraw, Lifecycle!Vanish,
        Lifecycle!Hold, Lifecycle!Provide, Lifecycle!Terminate, Lifecycle!Release
  <2> QED
    BY <2>1, <2>2, AccessAssumption DEF RequestInv, UniqueNames
<1>7. ASSUME NEW c \in Clusters, ShootGone(c) PROVE RequestInv'
  <2>1. UNCHANGED <<stage, held, gen, phase, observed>>
    BY <1>7 DEF ShootGone, requestVars, statusVars
  <2>2. ASSUME NEW r \in Requests
        PROVE  /\ perms'[r] = {} \/ perms'[r] = perms[r]
               /\ perms'[r] # {} => shoot'[ClusterOf[r]] = shoot[ClusterOf[r]]
    BY <1>7, AccessAssumption DEF ShootGone, Lifecycle!Terminated
  <2> QED
    BY <2>1, <2>2 DEF RequestInv, UniqueNames
<1>8. CASE UNCHANGED vars
  BY <1>1, <1>8 DEF vars, requestVars, shootVars, clusterVars
<1> QED
  BY <1>2, <1>3, <1>4, <1>5, <1>6, <1>7, <1>8 DEF Next

-------------------------------------------------------------------------------
\* The objects a generation asks for have names of their own.
LEMMA WantedUnique ==
  ASSUME NEW r \in Requests, NEW g \in Generations
  PROVE  /\ Wanted[r][g].objects \in SUBSET Objects
         /\ UniqueNames(Wanted[r][g].objects)
  BY AccessAssumption DEF UniqueNames

\* Creating an object that is asked for keeps what is exact, and what is there already.
LEMMA WithExact ==
  ASSUME NEW A, UniqueNames(A), NEW S, NEW o \in A
  PROVE  /\ S \subseteq A => With(S, o) \subseteq A
         /\ S = A => With(S, o) = A
         /\ \A T : A \ T \subseteq S => A \ (T \ {o}) \subseteq With(S, o)
  BY DEF UniqueNames, With

\* A request that shows GRANTED keeps having exactly what it asks for.
LEMMA NextGrant ==
  ASSUME AccessInv, [Next]_vars
  PROVE  GrantIsExact'
<1> USE DEF AccessInv, TypeOK
<1>1. ASSUME UNCHANGED <<stage, gen, statusVars, perms, current>> PROVE GrantIsExact'
  BY <1>1 DEF GrantIsExact, statusVars
<1>2. CASE Step
  <2>1. ASSUME NEW o \in Objects, NEW done, NEW failed, Due(o), EnsureObject(o, done, failed)
        PROVE  GrantIsExact'
    <3>1. CASE UNCHANGED perms
      BY <1>1, <2>1, <3>1 DEF EnsureObject, requestVars
    <3>2. CASE Ensure(o)
      <4>1. /\ w.ar \in Requests /\ w.gen \in Generations /\ w.ar \in held
            /\ o \in Wanted[w.ar][w.gen].objects
            /\ w.gen <= gen[w.ar]
            /\ phase[w.ar] = "GRANTED" => observed[w.ar] <= w.gen
        BY <2>1 DEF Due, WorkerInv, ReadInv, CallInv, EnsureInv, WantedSpec
      <4>2. phase[w.ar] = "GRANTED" /\ observed[w.ar] = gen[w.ar] => w.gen = gen[w.ar]
        BY <4>1 DEF Generations
      <4>3. UNCHANGED <<stage, gen, phase, observed, current>>
        BY <2>1 DEF EnsureObject, requestVars, statusVars
      <4>4. /\ perms[w.ar] \subseteq Wanted[w.ar][w.gen].objects
                 => perms'[w.ar] \subseteq Wanted[w.ar][w.gen].objects
            /\ perms[w.ar] = Wanted[w.ar][w.gen].objects
                 => perms'[w.ar] = Wanted[w.ar][w.gen].objects
            /\ \A r \in Requests \ {w.ar} : perms'[r] = perms[r]
        BY <3>2, <4>1, WantedUnique, WithExact DEF Ensure
      <4> QED
        BY <4>1, <4>2, <4>3, <4>4 DEF GrantIsExact
    <3> QED
      BY <2>1, <3>1, <3>2 DEF EnsureObject
  <2>2. CASE CleanupKind
    <3>1. /\ w.ar \in Requests /\ w.gen \in Generations /\ w.ar \in held
          /\ ~w.failed /\ (w.deleting => stage[w.ar] = "deleting")
          /\ w.gen <= gen[w.ar]
          /\ phase[w.ar] = "GRANTED" => observed[w.ar] <= w.gen
      BY <2>2 DEF CleanupKind, WorkerInv, ReadInv, CallInv
    <3>2. phase[w.ar] = "GRANTED" /\ observed[w.ar] = gen[w.ar] => w.gen = gen[w.ar]
      BY <3>1 DEF Generations
    <3>3. UNCHANGED <<stage, gen, phase, observed, current>>
      BY <2>2 DEF CleanupKind, requestVars, statusVars
    <3>4. /\ perms'[w.ar] \subseteq perms[w.ar]
          /\ ~w.deleting =>
               \A o \in Wanted[w.ar][w.gen].objects : o \in perms[w.ar] => o \in perms'[w.ar]
          /\ \A r \in Requests \ {w.ar} : perms'[r] = perms[r]
      BY <2>2, <3>1 DEF CleanupKind, Unwanted, Keep, WantedSpec
    <3> SUFFICES ASSUME NEW r \in Requests, stage[r] = "live", phase[r] = "GRANTED",
                        observed[r] = gen[r]
                 PROVE  /\ perms'[r] \subseteq Wanted[r][gen[r]].objects
                        /\ r \in current => perms'[r] = Wanted[r][gen[r]].objects
      BY <3>3 DEF GrantIsExact
    <3>5. /\ perms[r] \subseteq Wanted[r][gen[r]].objects
          /\ r \in current => perms[r] = Wanted[r][gen[r]].objects
      BY DEF GrantIsExact
    <3>6. CASE r = w.ar
      <4>1. ~w.deleting /\ w.gen = gen[r]
        BY <3>1, <3>2, <3>6
      <4> QED
        BY <3>4, <3>5, <3>6, <4>1
    <3> QED
      BY <3>4, <3>5, <3>6
  <2>3. ASSUME WriteTokenSecret \/ WriteOIDCSecret PROVE GrantIsExact'
    <3>1. UNCHANGED <<stage, gen, phase, observed, perms>>
      BY <2>3 DEF WriteTokenSecret, WriteOIDCSecret, requestVars, statusVars
    <3>2. /\ w.ar \in Requests /\ w.gen \in Generations /\ w.ar \in held
          /\ w.client => HasAllBut(w.ar, w.gen, {})
          /\ ~w.failed /\ w.gen <= gen[w.ar]
          /\ phase[w.ar] = "GRANTED" => observed[w.ar] <= w.gen
      BY <2>3 DEF WriteTokenSecret, WriteOIDCSecret, WorkerInv, ReadInv, CallInv, EnsureInv
    <3>3. phase[w.ar] = "GRANTED" /\ observed[w.ar] = gen[w.ar] => w.gen = gen[w.ar]
      BY <3>2 DEF Generations
    <3>4. \A r \in Requests : r \in current' => r \in current \/ (r = w.ar /\ w.client)
      BY <2>3 DEF WriteTokenSecret, WriteOIDCSecret, SecretWritten
    <3> SUFFICES ASSUME NEW r \in Requests, stage[r] = "live", phase[r] = "GRANTED",
                        observed[r] = gen[r], r \in current'
                 PROVE  perms[r] = Wanted[r][gen[r]].objects
      BY <3>1 DEF GrantIsExact
    <3>5. CASE r = w.ar /\ w.client
      <4>1. w.gen = gen[r] /\ HasAllBut(r, w.gen, {})
        BY <3>2, <3>3, <3>5
      <4> QED
        BY <4>1 DEF GrantIsExact, HasAllBut
    <3> QED
      BY <3>4, <3>5 DEF GrantIsExact
  <2>4. CASE RemoveFinalizer
    BY <2>4 DEF RemoveFinalizer, Remove, GrantIsExact, statusVars, requestVars
  <2>5. CASE UpdateStatus
    <3>1. UNCHANGED <<stage, gen, perms, current>> /\ w.ar \in Requests
      BY <2>5 DEF UpdateStatus, requestVars, shootVars
    <3>2. CASE UNCHANGED statusVars
      BY <1>1, <3>1, <3>2
    <3>3. CASE ~UNCHANGED statusVars
      <4>1. /\ phase' = [phase EXCEPT ![w.ar] = PhaseOf(w)]
            /\ observed' = [observed EXCEPT ![w.ar] = w.gen]
        BY <2>5, <3>3 DEF UpdateStatus
      <4>2. PhaseOf(w) = "GRANTED" => Exact(w.ar, w.gen)
        BY <2>5 DEF PhaseOf, WorkerInv, EndInv, UpdateStatus
      <4> QED
        BY <3>1, <4>1, <4>2 DEF GrantIsExact, Exact
    <3> QED
      BY <3>2, <3>3
  <2>6. CASE \/ GetClusterAndProfile \/ AddFinalizer \/ CheckGrant \/ ScheduleRenewal
             \/ GetShootAccess \/ PanicOnMissingClient \/ Ensured \/ CleanedUp
    BY <1>1, <2>6
    DEF GetClusterAndProfile, AddFinalizer, CheckGrant, ScheduleRenewal, GetShootAccess,
        PanicOnMissingClient, Ensured, CleanedUp, requestVars, shootVars
  <2> QED
    BY <1>2, <2>1, <2>2, <2>3, <2>4, <2>5, <2>6
    DEF Step, EnsureServiceAccount, EnsureTokenPermission, EnsureOpenIDConnect,
        EnsureOIDCPermission
<1>3. ASSUME NEW r \in Requests, Start(r) \/ RenewalDue(r) PROVE GrantIsExact'
  BY <1>1, <1>3 DEF Start, Skip, StartFails, Begin, RenewalDue, requestVars, shootVars
<1>4. CASE Crash \/ RegistryChanges
  BY <1>1, <1>4 DEF Crash, RegistryChanges, requestVars, shootVars
<1>5. CASE Users
  <2> USE DEF requestVars, statusVars, shootVars
  <2>1. PICK r \in Requests : \/ CreateRequest(r) \/ ChangeSpec(r) \/ DeleteRequest(r)
                              \/ Annotate(r) \/ SecretDeleted(r) \/ TokenAges(r)
    BY <1>5 DEF Users
  <2>2. CASE CreateRequest(r)
    BY <2>2 DEF CreateRequest, RequestInv, GrantIsExact
  <2>3. CASE ChangeSpec(r)
    <3>1. /\ gen[r] \in Nat /\ observed[r] \in Nat
          /\ gen' = [gen EXCEPT ![r] = @ + 1]
          /\ phase[r] = "GRANTED" => observed[r] <= gen[r]
          /\ UNCHANGED <<stage, phase, observed, perms, current>>
      BY <2>3, AccessAssumption DEF ChangeSpec, RequestInv
    <3> QED
      BY <3>1 DEF GrantIsExact
  <2>4. CASE DeleteRequest(r)
    BY <2>4 DEF DeleteRequest, Remove, GrantIsExact
  <2>5. CASE SecretDeleted(r)
    BY <2>5 DEF SecretDeleted, GrantIsExact
  <2>6. CASE Annotate(r) \/ TokenAges(r)
    BY <1>1, <2>6 DEF Annotate, TokenAges
  <2> QED
    BY <2>1, <2>2, <2>3, <2>4, <2>5, <2>6
<1>6. ASSUME NEW c \in Clusters, ClusterChanges(c) PROVE GrantIsExact'
  BY <1>1, <1>6 DEF ClusterChanges, requestVars, shootVars
<1>7. ASSUME NEW c \in Clusters, ShootGone(c) PROVE GrantIsExact'
  <2>1. /\ UNCHANGED <<stage, gen, phase, observed>>
        /\ \A r \in Requests :
             \/ perms'[r] = {} /\ r \notin current'
             \/ perms'[r] = perms[r] /\ (r \in current' => r \in current)
    BY <1>7 DEF ShootGone, requestVars, statusVars
  <2> QED
    BY <2>1 DEF GrantIsExact
<1>8. CASE UNCHANGED vars
  BY <1>1, <1>8 DEF vars, requestVars, shootVars
<1> QED
  BY <1>2, <1>3, <1>4, <1>5, <1>6, <1>7, <1>8 DEF Next

-------------------------------------------------------------------------------
\* What others may do while the worker is between two calls leaves WorkerInv alone.
LEMMA WorkerFrame ==
  ASSUME AccessInv, TypeOK', w' = w, perms' = perms, held' = held, current' \subseteq current,
         \A c \in Clusters : shoot[c] # "none" => shoot'[c] # "none",
         \A r \in Requests :
           /\ stage[r] = "deleting" => stage'[r] = "deleting"
           /\ r \in held => /\ gen[r] <= gen'[r]
                            /\ phase'[r] = phase[r] /\ observed'[r] = observed[r]
  PROVE  WorkerInv'
<1> SUFFICES ASSUME w.pc # "idle"
             PROVE  (ReadInv /\ GrantedInv /\ CallInv /\ EnsureInv /\ CleanupInv /\ EndInv)'
  BY DEF WorkerInv
<1> USE DEF AccessInv, TypeOK, WorkerInv
<1>1. w.ar \in Requests /\ w.gen \in Generations /\ ClusterOf[w.ar] \in Clusters
  BY AccessAssumption
<1>2. w.gen \in Nat /\ gen[w.ar] \in Nat /\ gen'[w.ar] \in Nat
  BY <1>1, AccessAssumption DEF Generations
<1>3. ReadInv'
  BY <1>1, <1>2 DEF ReadInv
<1>4. (GrantedInv /\ CallInv /\ EndInv)'
  BY <1>1 DEF GrantedInv, CallInv, EndInv, Exact
<1>5. (EnsureInv /\ CleanupInv)'
  BY <1>1 DEF EnsureInv, CleanupInv, HasAllBut, WantedSpec, Unwanted, Keep
<1> QED
  BY <1>3, <1>4, <1>5

\* So do users, the other controllers and the end of a shoot.
LEMMA EnvironmentWorker ==
  ASSUME AccessInv, TypeOK',
         \/ \E r \in Requests : Skip(r) \/ StartFails(r) \/ RenewalDue(r)
         \/ RegistryChanges \/ Users \/ UNCHANGED vars
         \/ \E c \in Clusters : ClusterChanges(c)
  PROVE  WorkerInv'
<1> USE DEF requestVars, statusVars, shootVars, clusterVars
<1>1. ASSUME UNCHANGED <<stage, held, gen, phase, observed, perms, current, shoot, w>>
      PROVE  WorkerInv'
  <2>1. \A r \in Requests : gen[r] <= gen'[r]
    BY <1>1, AccessAssumption DEF AccessInv, TypeOK
  <2> QED
    BY <1>1, <2>1, WorkerFrame
<1>2. ASSUME NEW r \in Requests, Skip(r) \/ StartFails(r) \/ RenewalDue(r) PROVE WorkerInv'
  BY <1>1, <1>2 DEF Skip, StartFails, RenewalDue
<1>3. CASE RegistryChanges
  BY <1>1, <1>3 DEF RegistryChanges
<1>4. CASE Users
  <2>1. PICK r \in Requests : \/ CreateRequest(r) \/ ChangeSpec(r) \/ DeleteRequest(r)
                              \/ Annotate(r) \/ SecretDeleted(r) \/ TokenAges(r)
    BY <1>4 DEF Users
  <2>2. /\ w' = w /\ perms' = perms /\ held' = held /\ current' \subseteq current
        /\ shoot' = shoot
    BY <2>1 DEF CreateRequest, ChangeSpec, DeleteRequest, Annotate, SecretDeleted, TokenAges, Remove
  <2>3. ASSUME NEW q \in Requests
        PROVE  /\ stage[q] = "deleting" => stage'[q] = "deleting"
               /\ q \in held => /\ gen[q] <= gen'[q]
                                /\ phase'[q] = phase[q] /\ observed'[q] = observed[q]
    <3> USE DEF AccessInv, TypeOK
    <3>1. gen[q] \in Nat
      BY AccessAssumption
    <3>2. CASE CreateRequest(r)
      BY <3>1, <3>2 DEF CreateRequest, RequestInv
    <3>3. CASE ChangeSpec(r)
      BY <3>1, <3>3 DEF ChangeSpec
    <3>4. CASE DeleteRequest(r)
      BY <3>1, <3>4 DEF DeleteRequest, Remove
    <3>5. CASE Annotate(r) \/ SecretDeleted(r) \/ TokenAges(r)
      BY <3>1, <3>5 DEF Annotate, SecretDeleted, TokenAges
    <3> QED
      BY <2>1, <3>2, <3>3, <3>4, <3>5
  <2> QED
    BY <2>2, <2>3, WorkerFrame
<1>5. CASE UNCHANGED vars
  BY <1>1, <1>5 DEF vars
<1>6. ASSUME NEW c \in Clusters, ClusterChanges(c) PROVE WorkerInv'
  <2>1. UNCHANGED <<stage, held, gen, phase, observed, perms, current, w>>
    BY <1>6 DEF ClusterChanges
  <2>2. \A d \in Clusters : shoot[d] # "none" => shoot'[d] # "none"
    BY <1>6
    DEF AccessInv, TypeOK, ClusterChanges, Lifecycle!Appear, Lifecycle!Withdraw,
        Lifecycle!Vanish, Lifecycle!Hold, Lifecycle!Provide, Lifecycle!Terminate,
        Lifecycle!Release
  <2>3. \A r \in Requests : gen[r] <= gen'[r]
    BY <2>1, AccessAssumption DEF AccessInv, TypeOK
  <2> QED
    BY <2>1, <2>2, <2>3, WorkerFrame
<1> QED
  BY <1>2, <1>3, <1>4, <1>5, <1>6

\* A shoot that goes takes the permissions and the client with it.
LEMMA ShootGoneWorker ==
  ASSUME AccessInv, TypeOK', NEW c \in Clusters, ShootGone(c)
  PROVE  WorkerInv'
<1>1. /\ w'.pc = w.pc /\ w'.ar = w.ar /\ w'.gen = w.gen /\ w'.deleting = w.deleting
      /\ w'.held = w.held /\ w'.granted = w.granted /\ w'.todo = w.todo
      /\ w'.kind = w.kind /\ w'.failed = w.failed
      /\ UNCHANGED <<stage, held, gen, phase, observed>>
  BY DEF AccessInv, TypeOK, Worker, ShootGone, requestVars, statusVars
<1> SUFFICES ASSUME w.pc # "idle"
             PROVE  (ReadInv /\ GrantedInv /\ CallInv /\ EnsureInv /\ CleanupInv /\ EndInv)'
  BY <1>1 DEF WorkerInv
<1> USE DEF AccessInv, TypeOK, WorkerInv
<1>2. w.ar \in Requests /\ w.gen \in Generations /\ ClusterOf[w.ar] \in Clusters
  BY AccessAssumption
<1>3. CASE ClusterOf[w.ar] = c
  <2>1. w'.client = FALSE /\ perms'[w.ar] = {} /\ w.ar \notin current'
    BY <1>2, <1>3 DEF ShootGone, Worker
  <2>2. ReadInv'
    BY <1>1, <2>1 DEF ReadInv
  <2>3. (GrantedInv /\ CallInv /\ EndInv)'
    BY <1>1, <2>1 DEF GrantedInv, CallInv, EndInv, Exact
  <2>4. (EnsureInv /\ CleanupInv)'
    BY <1>1, <2>1 DEF EnsureInv, CleanupInv, WantedSpec, Unwanted
  <2> QED
    BY <2>2, <2>3, <2>4
<1>4. CASE ClusterOf[w.ar] # c
  <2>1. w'.client = w.client
    BY <1>2, <1>4 DEF ShootGone, Worker
  <2>2. /\ perms'[w.ar] = perms[w.ar] /\ (w.ar \in current' <=> w.ar \in current)
        /\ shoot'[ClusterOf[w.ar]] = shoot[ClusterOf[w.ar]]
    BY <1>2, <1>4 DEF ShootGone, Lifecycle!Terminated
  <2>3. ReadInv'
    BY <1>1, <2>1, <2>2 DEF ReadInv
  <2>4. (GrantedInv /\ CallInv /\ EndInv)'
    BY <1>1, <2>1, <2>2 DEF GrantedInv, CallInv, EndInv, Exact
  <2>5. (EnsureInv /\ CleanupInv)'
    BY <1>1, <2>1, <2>2 DEF EnsureInv, CleanupInv, HasAllBut, WantedSpec, Unwanted, Keep
  <2> QED
    BY <2>3, <2>4, <2>5
<1> QED
  BY <1>3, <1>4

-------------------------------------------------------------------------------
\* An error leads to a status update that claims nothing.
LEMMA ErrorWorker ==
  ASSUME AccessInv, w.pc # "idle", StatusError, UNCHANGED shoot
  PROVE  WorkerInv'
  BY ErrorKeeps
  DEF AccessInv, TypeOK, WorkerInv, ReadInv, GrantedInv, CallInv, EnsureInv, CleanupInv, EndInv

\* An idle worker has nothing to keep.
LEMMA IdleWorker ==
  ASSUME w' = Idle
  PROVE  WorkerInv'
  BY DEF Idle, WorkerInv

\* What was read is still true after a call that changes neither request nor shoot.
LEMMA StillRead ==
  ASSUME AccessInv, w.pc \notin {"idle", "status"},
         w'.ar = w.ar, w'.gen = w.gen, w'.deleting = w.deleting, w'.held = w.held,
         w'.granted = w.granted, w.failed => w'.failed,
         w'.client => shoot[ClusterOf[w.ar]] # "none",
         UNCHANGED <<stage, held, gen, phase, observed, shoot>>
  PROVE  ReadInv'
  BY DEF AccessInv, WorkerInv, ReadInv

\* A reconcile that begins has read what is true.
LEMMA BeginWorker ==
  ASSUME AccessInv, NEW r \in Requests, Begin(r)
  PROVE  WorkerInv'
<1> USE DEF AccessInv, TypeOK
<1>1. /\ w'.pc = "cluster" /\ w'.ar = r /\ w'.gen = gen[r]
      /\ w'.client = FALSE /\ w'.kind = 1 /\ w'.failed = FALSE
      /\ w'.deleting = (stage[r] = "deleting") /\ w'.held = (r \in held)
      /\ w'.granted = (stage[r] = "live" /\ AlreadyGranted(r))
      /\ UNCHANGED <<stage, held, gen, phase, observed, perms, current, shoot>>
  BY DEF Begin, Idle, statusVars, shootVars, clusterVars
<1>2. w'.deleting => stage[r] = "deleting"
  BY <1>1
<1>3. w'.held <=> r \in held
  BY <1>1
<1>4. w'.granted => /\ stage[r] = "live" /\ phase[r] = "GRANTED"
                    /\ observed[r] = gen[r] /\ r \in held
  BY <1>1 DEF AlreadyGranted, RequestInv
<1>5. w'.granted => Exact(r, gen[r])
  BY <1>4 DEF GrantIsExact, Exact
<1>6. phase[r] = "GRANTED" => observed[r] <= gen[r]
  BY DEF RequestInv
<1>7. gen[r] \in Nat
  BY AccessAssumption
<1>8. ReadInv'
  BY <1>1, <1>2, <1>3, <1>4, <1>6, <1>7 DEF ReadInv
<1>9. GrantedInv'
  BY <1>1, <1>5 DEF GrantedInv, Exact
<1> QED
  BY <1>1, <1>8, <1>9 DEF WorkerInv, CallInv, EnsureInv, CleanupInv, EndInv

\* Calls that only read go on with what holds.
LEMMA ReadingWorker ==
  ASSUME AccessInv,
         \/ GetClusterAndProfile \/ CheckGrant \/ ScheduleRenewal
         \/ GetShootAccess \/ PanicOnMissingClient \/ Ensured \/ CleanedUp
  PROVE  WorkerInv'
<1> USE DEF AccessInv, TypeOK
<1>1. UNCHANGED <<stage, held, gen, phase, observed, perms, current, shoot>>
  BY DEF GetClusterAndProfile, CheckGrant, ScheduleRenewal, GetShootAccess,
         PanicOnMissingClient, Ensured, CleanedUp, requestVars, statusVars, shootVars,
         clusterVars
<1>2. ASSUME NEW pc \in Calls, Goto(pc), w.pc \notin {"idle", "status"}
      PROVE  ReadInv'
  <2>1. w.client => shoot[ClusterOf[w.ar]] # "none"
    BY <1>2 DEF WorkerInv, ReadInv
  <2> QED
    BY <1>1, <1>2, <2>1, GotoKeeps, StillRead
<1>3. CASE StatusError /\ w.pc # "idle"
  BY <1>1, <1>3, ErrorWorker
<1>4. CASE GetClusterAndProfile /\ ~StatusError
  <2>1. w.pc = "cluster"
    BY <1>4 DEF GetClusterAndProfile
  <2>2. PICK pc \in {"release", "access", "check", "finalizer"} :
          /\ Goto(pc)
          /\ pc = "release" => w.deleting /\ cluster[ClusterOf[w.ar]] = "absent"
          /\ pc = "check" => ~w.deleting /\ w.held
          /\ pc = "finalizer" => ~w.deleting /\ ~w.held
          /\ pc = "access" => w.deleting
    BY <1>4 DEF GetClusterAndProfile
  <2>3. pc \in Calls
    BY <2>2 DEF Calls
  <2>4. ReadInv'
    BY <1>2, <2>1, <2>2, <2>3
  <2>5. /\ w'.pc = pc /\ w'.ar = w.ar /\ w'.gen = w.gen /\ w'.deleting = w.deleting
        /\ w'.held = w.held /\ w'.granted = w.granted /\ w'.client = w.client
        /\ w'.kind = w.kind /\ w'.failed = w.failed
    BY <2>2, <2>3, GotoKeeps
  <2>6. /\ w.held => w.ar \in held
        /\ w.deleting => w.ar \in held
        /\ ~w.failed /\ w.kind = 1 /\ (w.granted => Exact(w.ar, w.gen) /\ w.held)
    BY <2>1 DEF WorkerInv, ReadInv, GrantedInv, CallInv, RequestInv
  <2>7. pc = "release" => perms[w.ar] = {}
    BY <2>1, <2>2, AccessAssumption DEF RequestInv, LifecycleInv
  <2> QED
    BY <1>1, <2>2, <2>4, <2>5, <2>6, <2>7
    DEF WorkerInv, GrantedInv, CallInv, EnsureInv, CleanupInv, EndInv, Exact
<1>5. CASE CheckGrant /\ ~StatusError
  <2>1. w.pc = "check"
    BY <1>5 DEF CheckGrant
  <2>2. PICK pc \in {"access", "settled", "status"} :
          Goto(pc) /\ (pc \in {"settled", "status"} => w.granted)
    BY <1>5 DEF CheckGrant
  <2>3. pc \in Calls
    BY <2>2 DEF Calls
  <2>4. ReadInv'
    BY <1>2, <2>1, <2>2, <2>3
  <2>5. /\ w'.pc = pc /\ w'.ar = w.ar /\ w'.gen = w.gen /\ w'.deleting = w.deleting
        /\ w'.held = w.held /\ w'.granted = w.granted /\ w'.client = w.client
        /\ w'.kind = w.kind /\ w'.failed = w.failed
    BY <2>2, <2>3, GotoKeeps
  <2>6. /\ w.ar \in held /\ ~w.deleting /\ ~w.failed /\ w.kind = 1
        /\ w.granted => Exact(w.ar, w.gen)
    BY <2>1 DEF WorkerInv, GrantedInv, CallInv
  <2> QED
    BY <1>1, <2>2, <2>4, <2>5, <2>6
    DEF WorkerInv, GrantedInv, CallInv, EnsureInv, CleanupInv, EndInv, Exact
<1>6. CASE ScheduleRenewal
  <2>1. w.pc = "settled" /\ UNCHANGED <<stage, held, gen, phase, observed, perms, current, shoot>>
    BY <1>1, <1>6 DEF ScheduleRenewal
  <2>2. /\ w'.pc = "status" /\ w'.ar = w.ar /\ w'.gen = w.gen /\ w'.deleting = w.deleting
        /\ w'.held = w.held /\ w'.granted = w.granted /\ w'.client = w.client
        /\ w'.kind = w.kind /\ w'.failed = w.failed
    BY <1>6 DEF ScheduleRenewal, Worker
  <2>3. /\ w.ar \in held /\ ~w.deleting /\ ~w.failed /\ Exact(w.ar, w.gen)
        /\ w.client => shoot[ClusterOf[w.ar]] # "none"
    BY <2>1 DEF WorkerInv, ReadInv, GrantedInv, CallInv
  <2>4. ReadInv'
    BY <2>1, <2>2, <2>3, StillRead
  <2> QED
    BY <2>1, <2>2, <2>3, <2>4
    DEF WorkerInv, GrantedInv, CallInv, EnsureInv, CleanupInv, EndInv, Exact
<1>7. CASE GetShootAccess /\ ~StatusError
  <2>1. w.pc = "access" /\ shoot[ClusterOf[w.ar]] # "none"
    BY <1>7 DEF GetShootAccess
  <2>2. /\ w'.pc = IF w.deleting THEN "cleanup" ELSE "ensure"
        /\ w'.todo = IF w.deleting THEN {} ELSE WantedSpec.objects
        /\ w'.client = TRUE /\ w'.ar = w.ar /\ w'.gen = w.gen /\ w'.deleting = w.deleting
        /\ w'.held = w.held /\ w'.granted = w.granted /\ w'.kind = w.kind
        /\ w'.failed = w.failed
    <3> DEFINE todo == IF w.deleting THEN {} ELSE WantedSpec.objects
               pc == IF w.deleting THEN "cleanup" ELSE "ensure"
    <3>1. w' = [w EXCEPT !.client = TRUE, !.pc = pc, !.todo = todo]
      BY <1>7 DEF GetShootAccess
    <3> HIDE DEF todo, pc
    <3>2. /\ w'.pc = pc /\ w'.todo = todo
          /\ w'.client = TRUE /\ w'.ar = w.ar /\ w'.gen = w.gen /\ w'.deleting = w.deleting
          /\ w'.held = w.held /\ w'.granted = w.granted /\ w'.kind = w.kind
          /\ w'.failed = w.failed
      BY <3>1 DEF Worker
    <3> QED
      BY <3>2 DEF todo, pc
  <2>3. w.ar \in held /\ ~w.failed /\ w.kind = 1
    BY <2>1 DEF WorkerInv, CallInv
  <2>4. ReadInv'
    BY <1>1, <2>1, <2>2, StillRead
  <2>5. EnsureInv'
    BY <1>1, <2>2 DEF EnsureInv, HasAllBut, WantedSpec
  <2>6. CleanupInv'
    BY <2>2, <2>3 DEF CleanupInv
  <2>7. (GrantedInv /\ CallInv /\ EndInv)'
    BY <1>1, <2>2, <2>3 DEF GrantedInv, CallInv, EndInv
  <2> QED
    BY <2>4, <2>5, <2>6, <2>7 DEF WorkerInv
<1>8. CASE PanicOnMissingClient
  BY <1>8, IdleWorker DEF PanicOnMissingClient
<1>9. CASE Ensured
  <2>1. w.pc = "ensure" /\ w.todo = {} /\ Goto(IF w.failed THEN "status" ELSE "secret")
    BY <1>9 DEF Ensured
  <2>2. /\ w'.pc = IF w.failed THEN "status" ELSE "secret"
        /\ w'.ar = w.ar /\ w'.gen = w.gen /\ w'.deleting = w.deleting
        /\ w'.held = w.held /\ w'.granted = w.granted /\ w'.client = w.client
        /\ w'.kind = w.kind /\ w'.failed = w.failed
    BY <2>1, GotoKeeps DEF Calls
  <2>3. ReadInv'
    BY <1>2, <2>1 DEF Calls
  <2>4. /\ w.ar \in held /\ ~w.deleting /\ w.kind = 1
        /\ ~w.client => perms[w.ar] = {}
        /\ w.client /\ ~w.failed => HasAllBut(w.ar, w.gen, {})
    BY <2>1 DEF WorkerInv, CallInv, EnsureInv
  <2> QED
    BY <1>1, <2>2, <2>3, <2>4
    DEF WorkerInv, GrantedInv, CallInv, EnsureInv, CleanupInv, EndInv, HasAllBut
<1>10. CASE CleanedUp
  <2>1. /\ w.pc = "cleanup" /\ w.kind = 7
        /\ Goto(IF w.deleting THEN "release" ELSE "status")
    BY <1>10, KindOrder DEF CleanedUp
  <2>2. /\ w'.pc = IF w.deleting THEN "release" ELSE "status"
        /\ w'.ar = w.ar /\ w'.gen = w.gen /\ w'.deleting = w.deleting
        /\ w'.held = w.held /\ w'.granted = w.granted /\ w'.client = w.client
        /\ w'.failed = w.failed
    BY <2>1, GotoKeeps DEF Calls
  <2>3. ReadInv'
    BY <1>2, <2>1 DEF Calls
  <2>4. /\ w.ar \in held /\ ~w.failed
        /\ ~w.client => perms[w.ar] = {} /\ w.ar \notin current
        /\ ~w.deleting /\ w.client => HasAllBut(w.ar, w.gen, {})
        /\ \A i \in 1..6 : Unwanted(CleanupOrder[i]) = {}
        /\ UniqueNames(perms[w.ar]) /\ perms[w.ar] \in SUBSET Objects
    BY <2>1 DEF WorkerInv, CallInv, CleanupInv, RequestInv
  <2>5. ASSUME NEW o \in perms[w.ar] PROVE \E p \in Keep : NameOf[p] = NameOf[o]
    <3>1. KindOf[o] \in Kinds
      BY <2>4, AccessAssumption
    <3>2. PICK i \in 1..6 : KindOf[o] = CleanupOrder[i]
      BY <3>1, KindOrder DEF Kinds
    <3>3. o \notin Unwanted(CleanupOrder[i])
      BY <2>4
    <3> QED
      BY <3>2, <3>3 DEF Unwanted
  <2>6. w.deleting => perms[w.ar] = {}
    BY <2>5 DEF Keep
  <2>7. ~w.deleting => Exact(w.ar, w.gen)
    <3>1. CASE w.client /\ ~w.deleting
      <4>1. ASSUME NEW o \in perms[w.ar] PROVE o \in Wanted[w.ar][w.gen].objects
        <5>1. PICK p \in Wanted[w.ar][w.gen].objects : NameOf[p] = NameOf[o]
          BY <2>5, <3>1 DEF Keep, WantedSpec
        <5>2. p \in perms[w.ar]
          BY <2>4, <3>1 DEF HasAllBut
        <5> QED
          BY <2>4, <5>1, <5>2 DEF UniqueNames
      <4> QED
        BY <2>4, <3>1, <4>1 DEF HasAllBut, Exact
    <3> QED
      BY <2>4, <3>1 DEF Exact
  <2> QED
    BY <1>1, <2>2, <2>3, <2>4, <2>6, <2>7
    DEF WorkerInv, GrantedInv, CallInv, EnsureInv, CleanupInv, EndInv, Exact
<1> QED
  <2>1. GetClusterAndProfile \/ CheckGrant \/ GetShootAccess => w.pc # "idle"
    BY DEF GetClusterAndProfile, CheckGrant, GetShootAccess
  <2> QED
    BY <1>3, <1>4, <1>5, <1>6, <1>7, <1>8, <1>9, <1>10, <2>1

\* A call for an object leaves the worker with what it has really created.
LEMMA EnsureWorker ==
  ASSUME AccessInv,
         \E o \in Objects : \/ EnsureServiceAccount(o) \/ EnsureTokenPermission(o)
                           \/ EnsureOpenIDConnect(o) \/ EnsureOIDCPermission(o)
  PROVE  WorkerInv'
<1> USE DEF AccessInv, TypeOK
<1>1. PICK o \in Objects :
        /\ Due(o)
        /\ \/ EnsureObject(o, Done(o), Abort)
           \/ EnsureObject(o, Done(o), GoOn(o))
           \/ EnsureObject(o, Done(o), [Done(o) EXCEPT !.failed = TRUE])
  BY DEF EnsureServiceAccount, EnsureTokenPermission, EnsureOpenIDConnect, EnsureOIDCPermission
<1>2. w.pc = "ensure" /\ o \in w.todo /\ w.ar \in Requests
  BY <1>1 DEF Due
<1>3. UNCHANGED <<stage, held, gen, phase, observed, current, shoot>>
  BY <1>1 DEF EnsureObject, requestVars, statusVars, clusterVars
<1>4. /\ w.ar \in held /\ ~w.deleting /\ w.kind = 1
      /\ w.client => shoot[ClusterOf[w.ar]] # "none"
      /\ ~w.client => perms[w.ar] = {}
      /\ w.todo \subseteq WantedSpec.objects
      /\ w.client /\ ~w.failed => HasAllBut(w.ar, w.gen, w.todo)
  BY <1>2 DEF WorkerInv, ReadInv, CallInv, EnsureInv
<1>5. CASE w' = Done(o) /\ Ensure(o) /\ w.client
  <2>1. /\ w'.pc = "ensure" /\ w'.ar = w.ar /\ w'.gen = w.gen /\ w'.deleting = w.deleting
        /\ w'.held = w.held /\ w'.granted = w.granted /\ w'.client = w.client
        /\ w'.kind = w.kind /\ w'.failed = w.failed /\ w'.todo = w.todo \ {o}
    BY <1>2, <1>5 DEF Done, Worker
  <2>2. ReadInv'
    BY <1>2, <1>3, <1>4, <2>1, StillRead
  <2>3. /\ perms'[w.ar] = With(perms[w.ar], o) /\ UniqueNames(WantedSpec.objects)
        /\ o \in WantedSpec.objects
    BY <1>2, <1>4, <1>5, WantedUnique DEF Ensure, WantedSpec
  <2>4. w.client /\ ~w.failed => WantedSpec.objects \ (w.todo \ {o}) \subseteq perms'[w.ar]
    BY <1>4, <2>3, WithExact DEF HasAllBut, WantedSpec
  <2>5. EnsureInv'
    BY <1>4, <2>1, <2>4 DEF EnsureInv, HasAllBut, WantedSpec
  <2> QED
    BY <1>3, <1>4, <1>5, <2>1, <2>2, <2>5
    DEF WorkerInv, GrantedInv, CallInv, CleanupInv, EndInv
<1>6. CASE w' = Abort
  <2>1. StatusError
    BY <1>6 DEF Abort, StatusError
  <2> QED
    BY <1>2, <1>3, <2>1, ErrorWorker
<1>7. CASE /\ w' \in {GoOn(o), [Done(o) EXCEPT !.failed = TRUE]}
           /\ w.client \/ UNCHANGED perms
  <2>1. /\ w'.pc = "ensure" /\ w'.ar = w.ar /\ w'.gen = w.gen /\ w'.deleting = w.deleting
        /\ w'.held = w.held /\ w'.granted = w.granted /\ w'.client = w.client
        /\ w'.kind = w.kind /\ w'.failed = TRUE /\ w'.todo \subseteq w.todo
    <3>1. CASE w' = GoOn(o)
      BY <1>2, <3>1 DEF GoOn, Worker
    <3>2. CASE w' = [Done(o) EXCEPT !.failed = TRUE]
      BY <1>2, <3>2 DEF Done, Worker
    <3> QED
      BY <1>7, <3>1, <3>2
  <2>2. ReadInv'
    BY <1>2, <1>3, <1>4, <2>1, StillRead
  <2> QED
    BY <1>3, <1>4, <1>7, <2>1, <2>2
    DEF WorkerInv, GrantedInv, CallInv, EnsureInv, CleanupInv, EndInv, WantedSpec
<1> QED
  BY <1>1, <1>5, <1>6, <1>7 DEF EnsureObject

\* Once a kind is cleaned up, nothing unwanted of it is left.
LEMMA CleanupWorker ==
  ASSUME AccessInv, CleanupKind
  PROVE  WorkerInv'
<1> USE DEF AccessInv, TypeOK
<1>1. /\ w.pc = "cleanup" /\ w.kind \in 1..6 /\ w.ar \in Requests
      /\ UNCHANGED <<stage, held, gen, phase, observed, current, shoot>>
  BY KindOrder DEF CleanupKind, requestVars, statusVars, clusterVars
<1>2. CASE StatusError
  BY <1>1, <1>2, ErrorWorker
<1>3. CASE ~StatusError
  <2>1. /\ w.client /\ w' = [w EXCEPT !.kind = @ + 1]
        /\ perms' = [perms EXCEPT ![w.ar] = @ \ Unwanted(CleanupOrder[w.kind])]
    BY <1>3 DEF CleanupKind
  <2>2. /\ w'.pc = "cleanup" /\ w'.ar = w.ar /\ w'.gen = w.gen /\ w'.deleting = w.deleting
        /\ w'.held = w.held /\ w'.granted = w.granted /\ w'.client = w.client
        /\ w'.kind = w.kind + 1 /\ w'.failed = w.failed
    BY <1>1, <2>1 DEF Worker
  <2>3. /\ w.ar \in held /\ ~w.failed /\ shoot[ClusterOf[w.ar]] # "none"
        /\ ~w.deleting => HasAllBut(w.ar, w.gen, {})
        /\ \A i \in 1..(w.kind - 1) : Unwanted(CleanupOrder[i]) = {}
    BY <1>1, <2>1 DEF WorkerInv, ReadInv, CallInv, CleanupInv
  <2>4. ReadInv'
    BY <1>1, <2>2, <2>3, StillRead
  <2>5. perms'[w.ar] = perms[w.ar] \ Unwanted(CleanupOrder[w.kind])
    BY <1>1, <2>1
  <2>6. ~w.deleting => HasAllBut(w.ar, w.gen, {})'
    <3>1. ~w.deleting => \A o \in Wanted[w.ar][w.gen].objects :
                           o \notin Unwanted(CleanupOrder[w.kind])
      BY DEF Unwanted, Keep, WantedSpec
    <3> QED
      BY <2>2, <2>3, <2>5, <3>1 DEF HasAllBut
  <2>7. ASSUME NEW i \in 1..w.kind PROVE Unwanted(CleanupOrder[i])' = {}
    <3>1. Keep' = Keep
      BY <2>2 DEF Keep, WantedSpec
    <3>2. Unwanted(CleanupOrder[i])' \subseteq Unwanted(CleanupOrder[i])
      BY <2>2, <2>5, <3>1 DEF Unwanted
    <3>3. CASE i = w.kind
      BY <2>2, <2>5, <3>1, <3>3 DEF Unwanted
    <3>4. CASE i # w.kind
      BY <1>1, <2>3, <3>2, <3>4
    <3> QED
      BY <3>3, <3>4
  <2>8. CleanupInv'
    <3>1. w'.kind - 1 = w.kind
      BY <1>1, <2>2
    <3> QED
      BY <2>1, <2>2, <2>6, <2>7, <3>1 DEF CleanupInv
  <2> QED
    BY <1>1, <2>1, <2>2, <2>3, <2>4, <2>8
    DEF WorkerInv, GrantedInv, CallInv, EnsureInv, EndInv
<1> QED
  BY <1>2, <1>3

\* Writing to the platform cluster leaves the worker with what holds.
LEMMA PlatformWriteWorker ==
  ASSUME AccessInv,
         \/ AddFinalizer \/ WriteTokenSecret \/ WriteOIDCSecret
         \/ RemoveFinalizer \/ UpdateStatus
  PROVE  WorkerInv'
<1> USE DEF AccessInv, TypeOK
<1>1. w.pc # "idle" /\ UNCHANGED <<perms, shoot>>
  BY DEF AddFinalizer, WriteTokenSecret, WriteOIDCSecret, RemoveFinalizer, UpdateStatus,
         shootVars, clusterVars
<1>2. CASE StatusError
  BY <1>1, <1>2, ErrorWorker
<1>3. CASE AddFinalizer /\ ~StatusError
  <2>1. /\ w.pc = "finalizer" /\ stage[w.ar] = "live" /\ held' = held \cup {w.ar}
        /\ w' = [w EXCEPT !.pc = "check", !.gen = gen[w.ar]]
        /\ UNCHANGED <<stage, gen, phase, observed, current>>
    BY <1>3 DEF AddFinalizer, statusVars, shootVars
  <2>2. /\ w'.pc = "check" /\ w'.ar = w.ar /\ w'.gen = gen[w.ar]
        /\ w'.deleting = w.deleting /\ w'.held = w.held /\ w'.granted = w.granted
        /\ w'.client = w.client /\ w'.kind = w.kind /\ w'.failed = w.failed
    BY <2>1 DEF Worker
  <2>3. /\ w.ar \in Requests /\ ~w.deleting /\ ~w.held /\ ~w.granted /\ ~w.failed
        /\ w.kind = 1 /\ (w.client => shoot[ClusterOf[w.ar]] # "none")
    BY <2>1 DEF WorkerInv, ReadInv, CallInv
  <2>4. gen[w.ar] \in Nat /\ (phase[w.ar] = "GRANTED" => observed[w.ar] <= gen[w.ar])
    BY <2>3, AccessAssumption DEF RequestInv
  <2>5. ReadInv'
    BY <1>1, <2>1, <2>2, <2>3, <2>4 DEF ReadInv
  <2> QED
    BY <2>1, <2>2, <2>3, <2>5 DEF WorkerInv, GrantedInv, CallInv, EnsureInv, CleanupInv, EndInv
<1>4. CASE (WriteTokenSecret \/ WriteOIDCSecret) /\ ~StatusError
  <2>1. /\ w.pc = "secret" /\ UNCHANGED <<stage, held, gen, phase, observed>>
        /\ w' = [w EXCEPT !.pc = "cleanup", !.timer = TRUE] \/ Goto("cleanup")
        /\ current' = IF w.client THEN current \cup {w.ar} ELSE current \ {w.ar}
    BY <1>4 DEF WriteTokenSecret, WriteOIDCSecret, SecretWritten, requestVars, statusVars
  <2>2. /\ w'.pc = "cleanup" /\ w'.ar = w.ar /\ w'.gen = w.gen /\ w'.deleting = w.deleting
        /\ w'.held = w.held /\ w'.granted = w.granted /\ w'.client = w.client
        /\ w'.kind = w.kind /\ w'.failed = w.failed
    <3>1. CASE Goto("cleanup")
      BY <3>1, GotoKeeps DEF Calls
    <3>2. CASE w' = [w EXCEPT !.pc = "cleanup", !.timer = TRUE]
      BY <3>2 DEF Worker
    <3> QED
      BY <2>1, <3>1, <3>2
  <2>3. /\ w.ar \in held /\ ~w.deleting /\ w.kind = 1 /\ ~w.failed
        /\ w.client => HasAllBut(w.ar, w.gen, {}) /\ shoot[ClusterOf[w.ar]] # "none"
        /\ ~w.client => perms[w.ar] = {}
    BY <2>1 DEF WorkerInv, ReadInv, CallInv, EnsureInv
  <2>4. ReadInv'
    BY <1>1, <2>1, <2>2, <2>3, StillRead
  <2>5. CleanupInv'
    BY <1>1, <2>1, <2>2, <2>3 DEF CleanupInv, HasAllBut
  <2> QED
    BY <1>1, <2>1, <2>2, <2>3, <2>4, <2>5
    DEF WorkerInv, GrantedInv, CallInv, EnsureInv, EndInv
<1>5. CASE RemoveFinalizer /\ ~StatusError
  BY <1>5, IdleWorker DEF RemoveFinalizer
<1>6. CASE UpdateStatus
  BY <1>6, IdleWorker DEF UpdateStatus
<1> QED
  BY <1>2, <1>3, <1>4, <1>5, <1>6

-------------------------------------------------------------------------------
\* In the initial state nothing runs, exists or is granted.
LEMMA InitInv ==
  ASSUME Init
  PROVE  AccessInv
<1> USE AccessAssumption
    DEF Init, Lifecycle!Init, AccessInv, Idle
<1>1. TypeOK
  BY IdleType DEF TypeOK
<1>2. LifecycleInv /\ RequestInv /\ WorkerInv /\ GrantIsExact
  BY DEF LifecycleInv, RequestInv, WorkerInv, GrantIsExact, UniqueNames
<1> QED
  BY <1>1, <1>2

\* The invariant is inductive.
LEMMA NextInv ==
  ASSUME AccessInv, [Next]_vars
  PROVE  AccessInv'
<1>1. TypeOK' /\ LifecycleInv' /\ RequestInv' /\ GrantIsExact'
  BY NextType, NextLifecycle, NextRequest, NextGrant
<1>2. WorkerInv'
  <2>1. CASE Step
    BY <2>1, ReadingWorker, EnsureWorker, CleanupWorker, PlatformWriteWorker DEF Step
  <2>2. ASSUME NEW r \in Requests, Begin(r) PROVE WorkerInv'
    BY <2>2, BeginWorker
  <2>3. CASE Crash
    BY <2>3, IdleWorker DEF Crash
  <2>4. ASSUME NEW c \in Clusters, ShootGone(c) PROVE WorkerInv'
    BY <1>1, <2>4, ShootGoneWorker
  <2> QED
    BY <1>1, <2>1, <2>2, <2>3, <2>4, EnvironmentWorker DEF Next, Start
<1> QED
  BY <1>1, <1>2 DEF AccessInv

\* The inductive invariant of the AccessRequest controller: what the worker has read, created
\* and deleted, the requests, their permissions and the Clusters agree at every moment.
THEOREM AccessInvariance == Spec => []AccessInv
<1>1. Init => AccessInv
  BY InitInv
<1>2. AccessInv /\ [Next]_vars => AccessInv'
  BY NextInv
<1> QED
  BY <1>1, <1>2, PTL DEF Spec

\* Every variable of the AccessRequest controller keeps its type.
THEOREM AccessTypes == Spec => []TypeOK
<1>1. AccessInv => TypeOK
  BY DEF AccessInv
<1> QED
  BY <1>1, AccessInvariance, PTL

\* Nobody keeps permissions on a shoot that nobody can take away any more: whatever a request
\* has there, the request exists and holds the finalizer.
THEOREM NoPermissionIsLeft == Spec => []NoPermissionLeft
<1>1. AccessInv => NoPermissionLeft
  BY DEF AccessInv, RequestInv, NoPermissionLeft
<1> QED
  BY <1>1, AccessInvariance, PTL

\* A request that shows GRANTED for its present generation has nothing but what that generation
\* asks for, and all of it on the shoot its kubeconfig belongs to.
THEOREM GrantsAreExact == Spec => []GrantIsExact
<1>1. AccessInv => GrantIsExact
  BY DEF AccessInv
<1> QED
  BY <1>1, AccessInvariance, PTL

-------------------------------------------------------------------------------
\* Every step is a step of AccessGrant or changes nothing of it.
LEMMA NextGrants ==
  ASSUME AccessInv, [Next]_vars
  PROVE  [Grant!Next]_(Grant!vars)
<1> USE DEF AccessInv, TypeOK, requestVars, shootVars
<1>1. ASSUME UNCHANGED <<stage, held, perms>> PROVE [Grant!Next]_(Grant!vars)
  BY <1>1 DEF Grant!vars
<1>2. CASE Step
  <2>1. CASE AddFinalizer
    <3>1. w.ar \in Requests /\ UNCHANGED <<stage, perms>>
      BY <2>1 DEF AddFinalizer
    <3>2. CASE held' = held
      BY <1>1, <3>1, <3>2
    <3>3. CASE held' # held
      BY <2>1, <3>1, <3>3 DEF AddFinalizer, Grant!Next, Grant!Hold
    <3> QED
      BY <3>2, <3>3
  <2>2. ASSUME NEW o \in Objects, NEW done, NEW failed, Due(o), EnsureObject(o, done, failed)
        PROVE  [Grant!Next]_(Grant!vars)
    <3>1. w.ar \in Requests /\ w.ar \in held /\ UNCHANGED <<stage, held>>
      BY <2>2 DEF Due, EnsureObject, WorkerInv, CallInv
    <3>2. CASE UNCHANGED perms
      BY <1>1, <3>1, <3>2
    <3>3. CASE Ensure(o)
      <4>1. With(perms[w.ar], o) \in SUBSET Objects
        BY <3>1, WithType
      <4> QED
        BY <3>1, <3>3, <4>1 DEF Ensure, Grant!Next, Grant!Adjust
    <3> QED
      BY <2>2, <3>2, <3>3 DEF EnsureObject
  <2>3. CASE CleanupKind
    <3>1. w.ar \in Requests /\ w.ar \in held /\ UNCHANGED <<stage, held>>
      BY <2>3 DEF CleanupKind, WorkerInv, CallInv
    <3>2. CASE UNCHANGED perms
      BY <1>1, <3>1, <3>2
    <3>3. CASE \E S \in SUBSET Objects : perms' = [perms EXCEPT ![w.ar] = @ \ S]
      <4>1. PICK S \in SUBSET Objects : perms' = [perms EXCEPT ![w.ar] = @ \ S]
        BY <3>3
      <4>2. perms[w.ar] \ S \in SUBSET Objects
        BY <3>1
      <4> QED
        BY <3>1, <4>1, <4>2 DEF Grant!Next, Grant!Adjust
    <3>4. \A k : Unwanted(k) \in SUBSET Objects
      BY <3>1 DEF Unwanted
    <3> QED
      BY <2>3, <3>2, <3>3, <3>4 DEF CleanupKind
  <2>4. CASE RemoveFinalizer
    <3>1. w.ar \in Requests /\ UNCHANGED perms /\ perms[w.ar] = {}
      BY <2>4 DEF RemoveFinalizer, WorkerInv, EndInv
    <3>2. CASE UNCHANGED requestVars
      BY <1>1, <3>1, <3>2
    <3>3. CASE /\ stage[w.ar] = "deleting" /\ held' = held \ {w.ar}
               /\ stage' = [stage EXCEPT ![w.ar] = "absent"]
      BY <3>1, <3>3 DEF RequestInv, Grant!Next, Grant!Release
    <3> QED
      BY <2>4, <3>2, <3>3 DEF RemoveFinalizer, Remove
  <2>5. CASE \/ GetClusterAndProfile \/ CheckGrant \/ ScheduleRenewal \/ GetShootAccess
             \/ PanicOnMissingClient \/ Ensured \/ WriteTokenSecret \/ WriteOIDCSecret
             \/ CleanedUp \/ UpdateStatus
    BY <1>1, <2>5
    DEF GetClusterAndProfile, CheckGrant, ScheduleRenewal, GetShootAccess,
        PanicOnMissingClient, Ensured, WriteTokenSecret, WriteOIDCSecret, CleanedUp,
        UpdateStatus
  <2> QED
    BY <1>2, <2>1, <2>2, <2>3, <2>4, <2>5
    DEF Step, EnsureServiceAccount, EnsureTokenPermission, EnsureOpenIDConnect,
        EnsureOIDCPermission
<1>3. ASSUME NEW r \in Requests, Start(r) \/ RenewalDue(r) PROVE [Grant!Next]_(Grant!vars)
  BY <1>1, <1>3 DEF Start, Skip, StartFails, Begin, RenewalDue
<1>4. CASE Crash \/ RegistryChanges
  BY <1>1, <1>4 DEF Crash, RegistryChanges
<1>5. CASE Users
  <2>1. PICK r \in Requests : \/ CreateRequest(r) \/ ChangeSpec(r) \/ DeleteRequest(r)
                              \/ Annotate(r) \/ SecretDeleted(r) \/ TokenAges(r)
    BY <1>5 DEF Users
  <2>2. CASE CreateRequest(r)
    BY <2>2 DEF CreateRequest, Grant!Next, Grant!Appear
  <2>3. CASE DeleteRequest(r)
    BY <2>3 DEF DeleteRequest, Remove, Grant!Next, Grant!Withdraw, Grant!Vanish
  <2>4. CASE ChangeSpec(r) \/ Annotate(r) \/ SecretDeleted(r) \/ TokenAges(r)
    BY <1>1, <2>4 DEF ChangeSpec, Annotate, SecretDeleted, TokenAges
  <2> QED
    BY <2>1, <2>2, <2>3, <2>4
<1>6. ASSUME NEW c \in Clusters, ClusterChanges(c) PROVE [Grant!Next]_(Grant!vars)
  BY <1>1, <1>6 DEF ClusterChanges
<1>7. ASSUME NEW c \in Clusters, ShootGone(c) PROVE [Grant!Next]_(Grant!vars)
  <2>1. /\ UNCHANGED <<stage, held>>
        /\ perms' = [q \in Requests |-> IF ClusterOf[q] = c THEN {} ELSE perms[q]]
    BY <1>7 DEF ShootGone
  <2>2. CASE \E r \in Requests : ClusterOf[r] = c
    BY <2>1, <2>2 DEF Grant!Next, Grant!ShootGone
  <2>3. CASE ~\E r \in Requests : ClusterOf[r] = c
    BY <1>1, <2>1, <2>3
  <2> QED
    BY <2>2, <2>3
<1>8. CASE UNCHANGED vars
  BY <1>1, <1>8 DEF vars
<1> QED
  BY <1>2, <1>3, <1>4, <1>5, <1>6, <1>7, <1>8 DEF Next

\* The AccessRequest controller implements AccessGrant: permissions on a shoot change only for one
\* request that is held back from disappearing, or with the shoot, and a request is released
\* without any left.
THEOREM AccessImplementsGrant == Spec => ImplementsGrant
<1>1. Init => Grant!Init
  BY DEF Init, Grant!Init
<1>2. AccessInv /\ [Next]_vars => [Grant!Next]_(Grant!vars)
  BY NextGrants
<1> QED
  BY <1>1, <1>2, AccessInvariance, PTL DEF Spec, ImplementsGrant, Grant!Spec
==================================================================================
