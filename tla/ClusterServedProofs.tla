-------------------------- MODULE ClusterServedProofs --------------------------
(***************************************************************************)
(* No wake-up of the Cluster controller is lost: the safety side of its    *)
(* progress, for any number of Clusters, profiles and landscapes, any      *)
(* number of failed calls and crashes, and users and Gardener acting at    *)
(* any point of a reconcile - if every event of a watched shoot and every  *)
(* notification by the ProviderConfig controller is delivered.             *)
(***************************************************************************)
EXTENDS ClusterControllerProofs

\* What a step leaves of Cluster c keeps it served: its shoots stay, none of them
\* gets older or comes back from deletion, and a finalizer that holds up a deletion
\* stays.
Keeps(c) ==
  /\ stage'[c] = stage[c] /\ SpecOf(c)' = SpecOf(c)
  /\ stage[c] = "deleting" /\ "foreign" \in fins[c] => "foreign" \in fins'[c]
  /\ \A k \in ShootsOf(c) :
       /\ shoots'[k] \in Shoots /\ shoots'[k].owner = c
       /\ shoots'[k].ver >= shoots[k].ver
       /\ shoots[k].deleting => shoots'[k].deleting

\* The facts about the types that the proofs below keep using.
LEMMA SpecType ==
  ASSUME TypeOK, NEW c \in Clusters, SpecOf(c) # None
  PROVE  SpecOf(c) \in Specs /\ SpecOf(c).ver \in Nat
<1>1. ProfileOf[c] \in Profiles
  BY ConstantsAssumption
<1>2. SpecOf(c) \in Specs
  BY <1>1 DEF TypeOK, RegistryType, SpecOf
<1> QED
  BY <1>2, ConstantsAssumption DEF Specs, Versions

LEMMA ShootType ==
  ASSUME NEW s \in Shoots
  PROVE  /\ s # None /\ s.ver \in Nat /\ s.owner \in Clusters /\ s.deleting \in BOOLEAN
  BY ConstantsAssumption DEF Shoots, Versions

\* What is kept stays served.
LEMMA KeepsServed ==
  ASSUME TypeOK, NEW c \in Clusters, SpecOf(c) # None, Served(c), Keeps(c)
  PROVE  Served(c)'
<1>1. SpecOf(c).ver \in Nat
  BY SpecType
<1>2. \A k \in ShootsOf(c) : /\ k \in Keys /\ k \in ShootsOf(c)'
                             /\ shoots[k].ver \in Nat /\ shoots'[k].ver \in Nat
  <2>1. ASSUME NEW k \in ShootsOf(c)
        PROVE  k \in Keys /\ shoots[k] \in Shoots /\ shoots'[k] \in Shoots /\ shoots'[k].owner = c
    BY <2>1 DEF Keeps, ShootsOf, TypeOK
  <2> QED
    BY <2>1, ShootType DEF ShootsOf
<1>3. ASSUME stage'[c] = "live"
      PROVE  \E k \in ShootsOf(c)' : shoots'[k].ver >= SpecOf(c)'.ver
  <2>1. PICK k \in ShootsOf(c) : shoots[k].ver >= SpecOf(c).ver
    BY <1>3 DEF Served, Keeps
  <2>2. shoots'[k].ver >= SpecOf(c).ver
    BY <1>1, <1>2, <2>1 DEF Keeps
  <2> QED
    BY <1>2, <2>2 DEF Keeps
<1>4. ASSUME stage'[c] = "deleting", "foreign" \notin fins'[c]
      PROVE  \E k \in ShootsOf(c)' : shoots'[k].deleting
  <2>1. PICK k \in ShootsOf(c) : shoots[k].deleting
    BY <1>4 DEF Served, Keeps
  <2> QED
    BY <1>2, <2>1 DEF Keeps
<1> QED
  BY <1>3, <1>4 DEF Served

\* The shoot that the worker has seen stays, if the shoots of its Cluster do.
LEMMA SeenStays ==
  ASSUME TypeOK, w.c \in Clusters, w.key \in Keys, w.seen \in Shoots \cup {None},
         SeenStands, Keeps(w.c), w'.c = w.c, w'.key = w.key, w'.seen = w.seen
  PROVE  SeenStands'
<1>1. ASSUME w.seen # None
      PROVE  /\ shoots'[w.key] # None /\ shoots'[w.key].owner = w.c
             /\ shoots'[w.key].ver >= w.seen.ver
             /\ w.seen.deleting => shoots'[w.key].deleting
  <2>1. w.key \in ShootsOf(w.c) /\ shoots[w.key].ver >= w.seen.ver
        /\ (w.seen.deleting => shoots[w.key].deleting)
    BY <1>1 DEF SeenStands, ShootsOf
  <2>2. shoots[w.key] \in Shoots /\ shoots'[w.key] \in Shoots /\ shoots'[w.key].owner = w.c
        /\ shoots'[w.key].ver >= shoots[w.key].ver
        /\ (shoots[w.key].deleting => shoots'[w.key].deleting)
    BY <2>1 DEF Keeps, TypeOK, ShootsOf
  <2>3. w.seen.ver \in Nat /\ shoots[w.key].ver \in Nat /\ shoots'[w.key].ver \in Nat
    BY <1>1, <2>2, ShootType
  <2> QED
    BY <2>1, <2>2, <2>3, ShootType
<1> QED
  BY <1>1 DEF SeenStands

\* Steps that leave the worker alone keep the invariant if they keep every Cluster
\* that is unattended afterwards, or enqueue it.
LEMMA OthersServe ==
  ASSUME TypeOK, SettledIsServed, WorkerServesInv, UNCHANGED w,
         \A c \in Clusters : Unattended(c)' => Unattended(c) /\ Keeps(c)
  PROVE  SettledIsServed' /\ WorkerServesInv'
<1>1. ASSUME NEW c \in Clusters, Unattended(c)', w.c # c PROVE Served(c)'
  <2>1. Unattended(c) /\ Keeps(c)
    BY <1>1
  <2>2. Served(c) /\ SpecOf(c) # None
    BY <1>1, <2>1 DEF SettledIsServed, Unattended
  <2> QED
    BY <2>1, <2>2, KeepsServed
<1>2. ASSUME w.pc # "idle", Unattended(w.c)' PROVE WorkerServesInv'
  <2>1. w.c \in Clusters /\ w.seen \in Shoots \cup {None}
        /\ (w.pc \in {"finalizer", "prepare", "write", "deletion"} => w.key \in Keys)
    BY <1>2 DEF TypeOK, WorkerType, Worker
  <2>2. Unattended(w.c) /\ Keeps(w.c) /\ SpecOf(w.c) # None
    BY <1>2, <2>1 DEF Unattended
  <2>3. CASE w.pc \in {"finalizer", "prepare", "write"}
    <3>1. stage[w.c] = "live" /\ SeenStands
      BY <1>2, <2>2, <2>3 DEF WorkerServesInv
    <3>2. SeenStands'
      BY <2>1, <2>2, <2>3, <3>1, SeenStays
    <3> QED
      BY <2>2, <2>3, <3>1, <3>2 DEF WorkerServesInv, Keeps
  <2>4. CASE w.pc = "deletion"
    <3>1. stage[w.c] = "deleting" /\ SeenStands /\ ("foreign" \in w.fins => "foreign" \in fins[w.c])
      BY <2>2, <2>4 DEF WorkerServesInv
    <3>2. SeenStands'
      BY <2>1, <2>2, <2>4, <3>1, SeenStays
    <3> QED
      BY <2>2, <2>4, <3>1, <3>2 DEF WorkerServesInv, Keeps
  <2>5. CASE w.pc \in {"observe", "status"}
    <3>1. ~w.failed => Served(w.c)
      BY <1>2, <2>2, <2>5 DEF WorkerServesInv
    <3>2. ~w.failed => Served(w.c)'
      BY <2>1, <2>2, <3>1, KeepsServed
    <3> QED
      BY <2>5, <3>2 DEF WorkerServesInv
  <2> QED
    BY <2>1, <2>3, <2>4, <2>5, <1>2 DEF WorkerServesInv, TypeOK, WorkerType, Worker
<1> QED
  BY <1>1, <1>2 DEF SettledIsServed, WorkerServesInv

\* A Cluster keeps what it has if nothing of it changes but the shoots of others.
LEMMA NothingChanges ==
  ASSUME TypeOK, NEW c \in Clusters, stage'[c] = stage[c], SpecOf(c)' = SpecOf(c),
         stage[c] = "deleting" => fins'[c] = fins[c],
         \A k \in ShootsOf(c) : shoots'[k] = shoots[k]
  PROVE  Keeps(c)
<1>1. \A k \in ShootsOf(c) : shoots[k] \in Shoots /\ shoots[k].owner = c
  BY DEF ShootsOf, TypeOK
<1> QED
  BY <1>1, ShootType DEF Keeps

-------------------------------------------------------------------------------
(***************************************************************************)
(* The registry and the environment.                                       *)
(***************************************************************************)
\* Without gaps and lost landscapes every registered profile has a landscape that is
\* ready and watched: only a restart forgets landscapes, together with profiles.
LEMMA WatchStays ==
  ASSUME NothingIsMissed, TypeOK, WatchInv, [Next]_vars
  PROVE  WatchInv'
<1>1. RegistryType /\ "gap" \notin Env /\ "landscapes" \notin Env
  BY DEF NothingIsMissed, TypeOK
<1>2. CASE UNCHANGED registryVars
  BY <1>2 DEF WatchInv, registryVars
<1>3. CASE Crash
  BY <1>3 DEF Crash, Reg!Restart, WatchInv
<1>4. ASSUME NEW p \in Profiles, RegisterProfile(p) PROVE WatchInv'
  BY <1>1, <1>4 DEF RegisterProfile, Reg!Register, WatchInv, RegistryType
<1>5. ASSUME NEW p \in Profiles, DropProfile(p) PROVE WatchInv'
  BY <1>1, <1>5 DEF DropProfile, Reg!Unregister, Reg!Publish, WatchInv, RegistryType
<1>6. ASSUME NEW l \in Landscapes, SetLandscape(l) \/ WatchSynced(l) PROVE WatchInv'
  <2>1. landscapes' = [landscapes EXCEPT ![l] = "ready"] /\ watch' = watch \cup {l}
        /\ profiles' = profiles
    BY <1>1, <1>6 DEF SetLandscape, WatchSynced, Reg!SetLandscape
  <2> QED
    BY <1>1, <2>1 DEF WatchInv, RegistryType
<1>7. ASSUME NEW l \in Landscapes, LoseLandscape(l) PROVE WatchInv'
  BY <1>1, <1>7 DEF LoseLandscape
<1>8. UNCHANGED registryVars \/ Crash \/ Registry
  BY DEF Next, vars, Start, Skip, StartFails, UnknownLandscape, PanicOnMissingClient,
         LookupFinds, LookupFindsNone, LookupFails, Ready, Started, Step, AddFinalizer,
         Prepare, WriteShoot, Observe, PostponeDeletion, DeleteShoot, ReleaseCluster,
         UpdateStatus, Gardener, ShootCondition, ShootUpgrade, ShootDeletedByUser,
         ShootGone, Users, CreateCluster, DeleteCluster, Relabel, AddForeignFinalizer,
         RemoveForeignFinalizer, Annotate, GenerationChanged
<1> QED
  BY <1>2, <1>3, <1>4, <1>5, <1>6, <1>7, <1>8 DEF Registry

\* A registered profile enqueues its Clusters, a dropped one leaves none to serve, and
\* a restart enqueues all that are not ignored.
LEMMA RegistryServes ==
  ASSUME NothingIsMissed, TypeOK, SettledIsServed, WorkerServesInv, Crash \/ Registry
  PROVE  SettledIsServed' /\ WorkerServesInv'
<1>1. CASE Crash
  <2>1. w' = Idle /\ \A c \in Clusters : ~Unattended(c)'
    BY <1>1, ConstantsAssumption DEF Crash, Reg!Restart, Unattended, SpecOf
  <2> QED
    BY <2>1 DEF SettledIsServed, WorkerServesInv, Idle
<1>2. ASSUME Registry,
             \A c \in Clusters : Unattended(c)' => SpecOf(c)' = SpecOf(c) /\ c \notin queue
      PROVE  SettledIsServed' /\ WorkerServesInv'
  <2>1. UNCHANGED <<stage, fins, op, shoots, w>>
    BY <1>2 DEF Registry, RegisterProfile, DropProfile, SetLandscape, LoseLandscape,
                WatchSynced, clusterVars
  <2>2. ASSUME NEW c \in Clusters, Unattended(c)' PROVE Unattended(c) /\ Keeps(c)
    <3>1. SpecOf(c)' = SpecOf(c) /\ c \notin queue
      BY <1>2, <2>2
    <3> QED
      BY <2>1, <2>2, <3>1, NothingChanges DEF Unattended
  <2> QED
    BY <2>1, <2>2, OthersServe
<1>3. ASSUME NEW p \in Profiles, RegisterProfile(p), NEW c \in Clusters, Unattended(c)'
      PROVE  SpecOf(c)' = SpecOf(c) /\ c \notin queue
  <2>1. queue' = queue \cup UsersOf(p)
    BY <1>3 DEF RegisterProfile, NothingIsMissed
  <2>2. stage[c] # "absent" /\ c \notin queue'
    BY <1>3 DEF RegisterProfile, clusterVars, Unattended
  <2>3. ProfileOf[c] # p /\ ProfileOf[c] \in Profiles
    BY <2>1, <2>2, ConstantsAssumption DEF UsersOf
  <2>4. profiles'[ProfileOf[c]] = profiles[ProfileOf[c]]
    BY <1>3, <2>3 DEF RegisterProfile, Reg!Register, TypeOK, RegistryType
  <2> QED
    BY <2>1, <2>2, <2>4 DEF SpecOf
<1>4. ASSUME NEW p \in Profiles, DropProfile(p), NEW c \in Clusters, Unattended(c)'
      PROVE  SpecOf(c)' = SpecOf(c) /\ c \notin queue
  <2>1. queue \subseteq queue' /\ c \notin queue' /\ profiles'[ProfileOf[c]] # None
    BY <1>4 DEF DropProfile, Unattended, SpecOf
  <2>2. ProfileOf[c] \in Profiles /\ profiles \in [Profiles -> Specs \cup {None}]
    BY ConstantsAssumption DEF TypeOK, RegistryType
  <2>3. profiles' = profiles \/ profiles' = [profiles EXCEPT ![p] = None]
    BY <1>4 DEF DropProfile, Reg!Unregister, Reg!Publish
  <2> QED
    BY <2>1, <2>2, <2>3 DEF SpecOf
<1>5. ASSUME NEW l \in Landscapes, SetLandscape(l) \/ LoseLandscape(l) \/ WatchSynced(l),
             NEW c \in Clusters, Unattended(c)'
      PROVE  SpecOf(c)' = SpecOf(c) /\ c \notin queue
  BY <1>5 DEF SetLandscape, LoseLandscape, WatchSynced, Reg!SetLandscape, Reg!LoseLandscape,
              Unattended, SpecOf
<1> QED
  BY <1>1, <1>2, <1>3, <1>4, <1>5 DEF Registry

\* A Cluster that has a profile has its shoots where the watch is running.
LEMMA ShootIsWatched ==
  ASSUME IInv, WatchInv, NEW k \in Keys, shoots[k] # None,
         NEW c \in Clusters, shoots[k].owner = c, SpecOf(c) # None
  PROVE  k[1] \in watch
<1>1. HomeKey(c, k) /\ ProfileOf[c] \in Profiles
  BY ConstantsAssumption DEF IInv, ShootInv
<1>2. SpecOf(c) \in ProfileSpecs[ProfileOf[c]] /\ SpecOf(c) \in Specs
  BY <1>1, SpecType DEF IInv, RegistryInv, SpecOf
<1>3. k[1] = SpecOf(c).ls /\ SpecOf(c).ls \in Landscapes
  BY <1>1, <1>2 DEF HomeKey, Specs
<1> QED
  BY <1>1, <1>3 DEF WatchInv, SpecOf

\* A shoot that Gardener does not remove keeps its owner and its version or gets a
\* higher one, and stays in deletion if it is.
LEMMA GardenerKeeps ==
  ASSUME TypeOK, NEW k \in Keys,
         ShootCondition(k) \/ ShootUpgrade(k) \/ ShootDeletedByUser(k)
  PROVE  /\ shoots'[k] \in Shoots /\ shoots'[k].owner = shoots[k].owner
         /\ shoots'[k].ver >= shoots[k].ver
         /\ shoots[k].deleting => shoots'[k].deleting
<1>1. shoots \in [Keys -> Shoots \cup {None}] /\ shoots[k] \in Shoots
  BY DEF TypeOK, ShootCondition, ShootUpgrade, ShootDeletedByUser
<1>2. shoots[k].ver \in Versions /\ shoots[k].ver \in Nat
  BY <1>1, ShootType DEF Shoots
<1>3. CASE ShootCondition(k)
  <2>1. PICK v \in {"bad", "good"} : shoots' = [shoots EXCEPT ![k].cond = v]
    BY <1>3 DEF ShootCondition
  <2> DEFINE r == [shoots[k] EXCEPT !.cond = v]
  <2>2. /\ r \in Shoots /\ r.owner = shoots[k].owner /\ r.ver = shoots[k].ver
        /\ r.deleting = shoots[k].deleting
    BY <1>1 DEF Shoots
  <2> QED
    BY <1>1, <1>2, <2>1, <2>2
<1>4. CASE ShootUpgrade(k)
  <2>1. shoots' = [shoots EXCEPT ![k].ver = shoots[k].ver + 1]
    BY <1>4 DEF ShootUpgrade
  <2>2. shoots[k].ver + 1 \in Versions
    BY <1>2, <1>4, ConstantsAssumption DEF ShootUpgrade, Versions
  <2> DEFINE r == [shoots[k] EXCEPT !.ver = shoots[k].ver + 1]
  <2>3. /\ r \in Shoots /\ r.owner = shoots[k].owner /\ r.ver = shoots[k].ver + 1
        /\ r.deleting = shoots[k].deleting
    BY <1>1, <2>2 DEF Shoots
  <2> QED
    BY <1>1, <1>2, <2>1, <2>3
<1>5. CASE ShootDeletedByUser(k)
  <2> DEFINE r == [shoots[k] EXCEPT !.deleting = TRUE]
  <2>1. r \in Shoots /\ r.owner = shoots[k].owner /\ r.ver = shoots[k].ver /\ r.deleting
    BY <1>1 DEF Shoots
  <2> QED
    BY <1>1, <1>2, <1>5, <2>1 DEF ShootDeletedByUser
<1> QED
  BY <1>3, <1>4, <1>5

\* Gardener keeps a shoot or removes it, and then its Cluster is woken.
LEMMA GardenerServes ==
  ASSUME NothingIsMissed, IInv, WatchInv, SettledIsServed, WorkerServesInv, Gardener
  PROVE  SettledIsServed' /\ WorkerServesInv'
<1>1. /\ TypeOK /\ shoots \in [Keys -> Shoots \cup {None}]
      /\ UNCHANGED <<stage, fins, op, profiles, w>>
  BY DEF Gardener, ShootCondition, ShootUpgrade, ShootDeletedByUser, ShootGone,
         clusterVars, registryVars, IInv, TypeOK
<1>2. PICK k \in Keys : ShootCondition(k) \/ ShootUpgrade(k) \/ ShootDeletedByUser(k)
                        \/ ShootGone(k)
  BY DEF Gardener
<1>3. shoots[k] # None /\ shoots[k] \in Shoots /\ queue \subseteq queue'
  BY <1>1, <1>2 DEF ShootCondition, ShootUpgrade, ShootDeletedByUser, ShootGone, ShootEvent
<1>4. \A j \in Keys : j # k => shoots'[j] = shoots[j]
  BY <1>1, <1>2 DEF ShootCondition, ShootUpgrade, ShootDeletedByUser, ShootGone
<1>5. ASSUME NEW c \in Clusters, Unattended(c)' PROVE Unattended(c) /\ Keeps(c)
  <2>1. Unattended(c) /\ SpecOf(c)' = SpecOf(c)
    BY <1>1, <1>3, <1>5 DEF Unattended, SpecOf
  <2>2. CASE shoots[k].owner # c
    <3>1. \A j \in ShootsOf(c) : shoots'[j] = shoots[j]
      BY <1>4, <2>2 DEF ShootsOf
    <3> QED
      BY <1>1, <2>1, <3>1, NothingChanges
  <2>3. CASE shoots[k].owner = c /\ ShootGone(k)
    <3>1. SpecOf(c) # None
      BY <2>1 DEF Unattended
    <3>2. k[1] \in watch
      BY <1>3, <2>3, <3>1, ShootIsWatched
    <3>3. c \in queue'
      BY <2>3, <3>2 DEF ShootGone, ShootEvent, NothingIsMissed
    <3> QED
      BY <1>5, <3>3 DEF Unattended
  <2>4. CASE shoots[k].owner = c /\ ~ShootGone(k)
    <3>1. /\ shoots'[k] \in Shoots /\ shoots'[k].owner = c
          /\ shoots'[k].ver >= shoots[k].ver
          /\ shoots[k].deleting => shoots'[k].deleting
      BY <1>1, <1>2, <2>4, GardenerKeeps
    <3>2. \A j \in ShootsOf(c) :
            /\ shoots'[j] \in Shoots /\ shoots'[j].owner = c
            /\ shoots'[j].ver >= shoots[j].ver
            /\ shoots[j].deleting => shoots'[j].deleting
      <4>1. ASSUME NEW j \in ShootsOf(c), j # k
            PROVE  /\ shoots'[j] \in Shoots /\ shoots'[j].owner = c
                   /\ shoots'[j].ver >= shoots[j].ver
                   /\ shoots[j].deleting => shoots'[j].deleting
        <5>1. shoots'[j] = shoots[j] /\ shoots[j] \in Shoots /\ shoots[j].owner = c
          BY <1>1, <1>4, <4>1 DEF ShootsOf
        <5> QED
          BY <5>1, ShootType
      <4> QED
        BY <3>1, <4>1
    <3> QED
      BY <1>1, <2>1, <3>2 DEF Keeps
  <2> QED
    BY <2>2, <2>3, <2>4
<1> QED
  BY <1>1, <1>5, OthersServe

\* What users do to a Cluster enqueues it, takes nothing from it, or has it ignored.
LEMMA UsersServe ==
  ASSUME TypeOK, SettledIsServed, WorkerServesInv, Users
  PROVE  SettledIsServed' /\ WorkerServesInv'
<1>1. /\ stage \in [Clusters -> {"absent", "live", "deleting"}]
      /\ fins \in [Clusters -> SUBSET {"own", "foreign"}]
      /\ op \in [Clusters -> {"none", "ignore", "reconcile"}]
  BY DEF TypeOK, ClusterType
<1>2. UNCHANGED <<shoots, profiles, w>>
  BY DEF Users, CreateCluster, DeleteCluster, Relabel, AddForeignFinalizer,
         RemoveForeignFinalizer, Annotate, GenerationChanged, registryVars
<1>3. PICK d \in Clusters :
        \/ CreateCluster(d) \/ DeleteCluster(d) \/ Relabel(d) \/ AddForeignFinalizer(d)
        \/ RemoveForeignFinalizer(d) \/ Annotate(d) \/ GenerationChanged(d)
  BY DEF Users
<1>4. ASSUME NEW c \in Clusters, Unattended(c)' PROVE Unattended(c) /\ Keeps(c)
  <2>1. SpecOf(c)' = SpecOf(c) /\ SpecOf(c) # None /\ c \notin queue' /\ op'[c] # "ignore"
        /\ stage'[c] # "absent"
    BY <1>2, <1>4 DEF Unattended, SpecOf
  <2>2. /\ c \notin queue /\ stage'[c] = stage[c] /\ op[c] # "ignore"
        /\ stage[c] = "deleting" => fins'[c] = fins[c]
    <3>1. CASE CreateCluster(d) \/ DeleteCluster(d)
      BY <1>1, <2>1, <3>1 DEF CreateCluster, DeleteCluster, Remove, Enqueue
    <3>2. CASE Relabel(d) \/ AddForeignFinalizer(d) \/ GenerationChanged(d)
      BY <1>1, <2>1, <3>2 DEF Relabel, AddForeignFinalizer, GenerationChanged, Enqueue,
                             clusterVars
    <3>3. CASE RemoveForeignFinalizer(d)
      BY <1>1, <2>1, <3>3 DEF RemoveForeignFinalizer, Remove, Enqueue
    <3>4. CASE Annotate(d)
      BY <1>1, <2>1, <3>4 DEF Annotate
    <3> QED
      BY <1>3, <3>1, <3>2, <3>3, <3>4
  <2>3. Keeps(c)
    BY <1>2, <2>1, <2>2, NothingChanges
  <2> QED
    BY <2>1, <2>2, <2>3 DEF Unattended
<1> QED
  BY <1>2, <1>4, OthersServe

-------------------------------------------------------------------------------
(***************************************************************************)
(* The controller.                                                         *)
(***************************************************************************)
\* A failed reconcile owes nothing: its Cluster is enqueued again at the end.
LEMMA FailedServes ==
  ASSUME NEW r \in Worker, NEW con \in Conditions, w' = StatusError(r, con)
  PROVE  w'.pc = "status" /\ w'.failed /\ w'.c = r.c /\ WorkerServesInv'
<1>1. w'.pc = "status" /\ w'.failed /\ w'.c = r.c
  BY DEF StatusError, Worker
<1> QED
  BY <1>1 DEF WorkerServesInv

\* When a worker takes or leaves a Cluster and the others keep what they have, those
\* that are settled afterwards were settled before.
LEMMA SettledStays ==
  ASSUME TypeOK, SettledIsServed,
         \A c \in Clusters : Unattended(c)' /\ w'.c # c =>
           Served(c)' \/ (Unattended(c) /\ w.c # c /\ Keeps(c))
  PROVE  SettledIsServed'
<1>1. ASSUME NEW c \in Clusters, Unattended(c)', w'.c # c PROVE Served(c)'
  <2>1. CASE Unattended(c) /\ w.c # c /\ Keeps(c)
    <3>1. Served(c) /\ SpecOf(c) # None
      BY <2>1 DEF SettledIsServed, Unattended
    <3> QED
      BY <2>1, <3>1, KeepsServed
  <2> QED
    BY <1>1, <2>1
<1> QED
  BY <1>1 DEF SettledIsServed

\* What the worker knows when it has taken a Cluster.
LEMMA BusyAfterStart ==
  ASSUME TypeOK, NEW c \in Clusters,
         UnknownLandscape(c) \/ LookupFinds(c) \/ LookupFindsNone(c) \/ LookupFails(c)
  PROVE  /\ w'.c = c
         /\ \/ w'.pc = "status" /\ w'.failed
            \/ /\ stage[c] # "absent" /\ SpecOf(c) # None
               /\ w'.pc = NextCall(c) /\ w'.fins = fins[c]
               /\ \/ w'.seen = None
                  \/ w'.key \in GetShoot(c) /\ w'.seen = shoots[w'.key]
<1>1. ClusterType /\ StatusType /\ RegistryType /\ cons[c] \in SUBSET Conditions
  BY DEF TypeOK, StatusType
<1>2. Begin(c) \in Worker /\ Begin(c).c = c
  BY <1>1, BeginType
<1>3. CASE UnknownLandscape(c)
  <2>1. w' = StatusError(Begin(c), "Landscape") /\ "Landscape" \in Conditions
    BY <1>3 DEF UnknownLandscape, Conditions
  <2> QED
    BY <1>2, <2>1, FailedServes
<1>4. CASE LookupFails(c)
  <2> DEFINE r == [Begin(c) EXCEPT !.cons = @ \ {"Landscape"}]
  <2>1. r \in Worker /\ r.c = c
    BY <1>2 DEF Worker
  <2>2. w' = StatusError(r, "Shoot") /\ "Shoot" \in Conditions
    BY <1>4 DEF LookupFails, Conditions
  <2> HIDE DEF r
  <2> QED
    BY <2>1, <2>2, FailedServes
<1>5. CASE LookupFinds(c)
  <2> DEFINE d == ConditionFalse(cons[c] \ {"Landscape"}, "ShootNotFound")
  <2>1. PICK k \in GetShoot(c) : w' = AfterLookup(c, k, shoots[k], WithGardener(d, shoots[k]))
    BY <1>5 DEF LookupFinds
  <2>2. SpecOf(c) # None /\ stage[c] # "absent"
    BY <1>5 DEF LookupFinds, Ready, Started
  <2>3. k \in Keys /\ shoots[k] \in Shoots
    BY <1>1, <2>2, GetShootType DEF TypeOK
  <2>4. d \in SUBSET Conditions
    BY <1>1, ConditionType DEF Conditions
  <2> HIDE DEF d
  <2>5. WithGardener(d, shoots[k]) \in SUBSET Conditions
    BY <2>4 DEF WithGardener, Conditions
  <2>6. /\ w'.c = c /\ w'.pc = NextCall(c) /\ w'.key = k /\ w'.seen = shoots[k]
        /\ w'.fins = fins[c]
    BY <1>1, <2>1, <2>3, <2>5, AfterLookupType
  <2> QED
    BY <2>2, <2>6
<1>6. CASE LookupFindsNone(c)
  <2>1. /\ SpecOf(c) # None /\ stage[c] # "absent"
        /\ w' = AfterLookup(c, NewKey(c), None, cons[c] \ {"Landscape"})
    BY <1>6 DEF LookupFindsNone, Ready, Started
  <2>2. NewKey(c) \in Keys
    BY <1>1, <2>1, NewKeyType
  <2>3. w'.c = c /\ w'.pc = NextCall(c) /\ w'.seen = None /\ w'.fins = fins[c]
    BY <1>1, <2>1, <2>2, AfterLookupType
  <2> QED
    BY <2>1, <2>3
<1> QED
  BY <1>3, <1>4, <1>5, <1>6

\* The shoot that GetShoot has found is the one of the Cluster.
LEMMA StartWorkerServes ==
  ASSUME StableNames, FixedHomes, DistinctNames, IInv, WorkerServesInv, w.pc = "idle",
         NEW c \in Clusters, Start(c), w'.c = c
  PROVE  WorkerServesInv'
<1>1. /\ TypeOK /\ RegistryInv /\ ClusterInv /\ ShootInv /\ w.c = None
      /\ stage[c] \in {"absent", "live", "deleting"}
  BY DEF IInv, WorkerServesInv, TypeOK, ClusterType
<1>2. UnknownLandscape(c) \/ LookupFinds(c) \/ LookupFindsNone(c) \/ LookupFails(c)
  BY <1>1, ConstantsAssumption DEF Start, Skip, StartFails, PanicOnMissingClient
<1>3. UNCHANGED <<stage, fins, shoots>>
  BY <1>2 DEF UnknownLandscape, LookupFinds, LookupFindsNone, LookupFails
<1>4. CASE w'.pc = "status" /\ w'.failed
  BY <1>4 DEF WorkerServesInv
<1>5. CASE /\ stage[c] # "absent" /\ SpecOf(c) # None
           /\ w'.pc = NextCall(c) /\ w'.fins = fins[c]
           /\ \/ w'.seen = None
              \/ w'.key \in GetShoot(c) /\ w'.seen = shoots[w'.key]
  <2>1. SeenStands'
    <3>1. CASE w'.seen = None
      BY <3>1 DEF SeenStands
    <3>2. CASE w'.key \in GetShoot(c) /\ w'.seen = shoots[w'.key]
      <4>1. w'.key \in Keys /\ shoots[w'.key] \in Shoots
        BY <1>1, <1>5, <3>2, GetShootType DEF TypeOK
      <4>2. HomeKey(c, w'.key)
        BY <1>1, <1>5, <3>2, FoundIsHome
      <4>3. shoots[w'.key] # None /\ shoots[w'.key].ver \in Nat
        BY <4>1, ShootType
      <4>4. shoots[w'.key].owner = c
        BY <1>5, <4>1, <4>2, <4>3, OwnerIsHome
      <4> QED
        BY <1>3, <3>2, <4>3, <4>4 DEF SeenStands
    <3> QED
      BY <1>5, <3>1, <3>2
  <2>2. \/ w'.pc = "deletion" /\ stage[c] = "deleting"
        \/ w'.pc \in {"prepare", "finalizer"} /\ stage[c] = "live"
    BY <1>1, <1>5 DEF NextCall
  <2> QED
    BY <1>3, <1>5, <2>1, <2>2 DEF WorkerServesInv
<1> QED
  BY <1>1, <1>2, <1>4, <1>5, BusyAfterStart

\* A reconcile that starts takes its Cluster over and touches no other.
LEMMA StartServes ==
  ASSUME StableNames, FixedHomes, DistinctNames, IInv, SettledIsServed, WorkerServesInv,
         NEW c \in Clusters, Start(c)
  PROVE  SettledIsServed' /\ WorkerServesInv'
<1>1. /\ TypeOK /\ ClusterType /\ StatusType /\ RegistryType /\ RegistryInv /\ ClusterInv
      /\ ShootInv /\ shoots \in [Keys -> Shoots \cup {None}]
      /\ op \in [Clusters -> {"none", "ignore", "reconcile"}]
  BY DEF IInv, TypeOK, ClusterType
<1>2. /\ UNCHANGED <<stage, fins, shoots, profiles>> /\ w.pc = "idle"
      /\ queue \ {c} \subseteq queue'
      /\ \A d \in Clusters : d # c => op'[d] = op[d]
  BY <1>1 DEF Start, Skip, StartFails, UnknownLandscape, PanicOnMissingClient, LookupFinds,
         LookupFindsNone, LookupFails, Ready, Started, Dequeue, RemoveReconcileAnnotation,
         clusterVars, registryVars
<1>3. ASSUME NEW d \in Clusters, d # c, Unattended(d)' PROVE Unattended(d) /\ Keeps(d)
  <2>1. Unattended(d) /\ SpecOf(d)' = SpecOf(d)
    BY <1>2, <1>3 DEF Unattended, SpecOf
  <2> QED
    BY <1>1, <1>2, <2>1, NothingChanges
<1>4. /\ w.c = None /\ \A d \in Clusters : w.c # d
  BY <1>2, ConstantsAssumption DEF WorkerServesInv
<1>5. CASE UNCHANGED w
  <2>1. ~Unattended(c)'
    <3>1. CASE Skip(c)
      BY <3>1 DEF Skip, Unattended, SpecOf, registryVars
    <3>2. CASE c \in queue'
      BY <3>2 DEF Unattended
    <3>3. CASE UnknownLandscape(c) \/ LookupFinds(c) \/ LookupFindsNone(c) \/ LookupFails(c)
      <4>1. w'.pc # "idle"
        BY <1>1, <3>3, BusyAfterStart DEF NextCall
      <4> QED
        BY <1>2, <1>5, <4>1
    <3> QED
      BY <3>1, <3>2, <3>3 DEF Start, StartFails, PanicOnMissingClient, Started, Dequeue
  <2> QED
    BY <1>1, <1>3, <1>5, <2>1, OthersServe
<1>6. CASE w'.c = c
  <2>1. SettledIsServed'
    BY <1>1, <1>3, <1>4, <1>6, SettledStays
  <2>2. WorkerServesInv'
    BY <1>2, <1>6, StartWorkerServes
  <2> QED
    BY <2>1, <2>2
<1>7. UNCHANGED w \/ w'.c = c
  BY <1>1, BusyAfterStart DEF Start, Skip, StartFails, PanicOnMissingClient
<1> QED
  BY <1>5, <1>6, <1>7

\* A version the controller writes is at least the configured one and the one it read.
LEMMA WrittenVersion ==
  ASSUME TypeOK, w.pc = "write"
  PROVE  /\ SpecOf(w.c) # None /\ SpecOf(w.c).ver \in Nat
         /\ UpdateShootFields \in Shoots /\ UpdateShootFields.owner = w.c
         /\ UpdateShootFields.ver >= SpecOf(w.c).ver
<1>1. /\ w.c \in Clusters /\ SpecOf(w.c) # None /\ w.seen \in Shoots \cup {None}
      /\ ClusterType /\ RegistryType /\ WorkerType
  BY DEF TypeOK, WorkerType, Worker, SpecOf
<1>2. SpecOf(w.c).ver \in Nat
  BY <1>1, SpecType
<1>3. UpdateShootFields \in Shoots /\ UpdateShootFields.owner = w.c
  BY <1>1, UpdateType
<1>4. CASE w.seen = None
  BY <1>1, <1>2, <1>3, <1>4 DEF UpdateShootFields
<1>5. CASE w.seen # None
  <2>1. w.seen \in Shoots /\ w.seen.ver \in Nat
    BY <1>1, <1>5, ShootType
  <2>2. UpdateShootFields.ver = computeK8sVersion(SpecOf(w.c).ver, w.seen.ver)
    BY <1>5, <2>1 DEF UpdateShootFields, Shoots
  <2> QED
    BY <1>1, <1>2, <1>3, <2>1, <2>2 DEF computeK8sVersion
<1> QED
  BY <1>4, <1>5

\* Once the shoot is written, or needs no change, the Cluster has what it is owed,
\* unless it has been enqueued again.
LEMMA WriteServes ==
  ASSUME DistinctNames, IInv, SettledIsServed, WorkerServesInv, WriteShoot
  PROVE  SettledIsServed' /\ WorkerServesInv'
<1>1. /\ TypeOK /\ w.pc = "write" /\ w \in Worker /\ w.c \in Clusters /\ w.key \in Keys
      /\ shoots \in [Keys -> Shoots \cup {None}] /\ "Shoot" \in Conditions
      /\ UNCHANGED <<stage, fins, op, queue, profiles>>
  BY DEF IInv, TypeOK, WorkerType, WriteShoot, clusterVars, registryVars, Conditions
<1>2. \/ w' = StatusError(w, "Shoot")
      \/ w' = [w EXCEPT !.pc = "observe", !.cons = ManagementTrue(w.cons)]
  BY DEF WriteShoot
<1>3. w'.c = w.c /\ (w'.pc = "observe" \/ (w'.pc = "status" /\ w'.failed))
  BY <1>1, <1>2, FailedServes DEF Worker
<1>4. ASSUME NEW c \in Clusters, Unattended(c)', c # w.c PROVE Unattended(c) /\ Keeps(c)
  <2>1. Unattended(c) /\ SpecOf(c)' = SpecOf(c)
    BY <1>1, <1>4 DEF Unattended, SpecOf
  <2>2. \A k \in ShootsOf(c) : shoots'[k] = shoots[k]
    <3>1. CASE UNCHANGED shoots
      BY <3>1
    <3>2. CASE ~UNCHANGED shoots
      BY <1>1, <1>4, <3>2, WriteEffect DEF ShootsOf
    <3> QED
      BY <3>1, <3>2
  <2> QED
    BY <1>1, <2>1, <2>2, NothingChanges
<1>5. SettledIsServed'
  BY <1>1, <1>3, <1>4, SettledStays
<1>6. ASSUME Unattended(w.c)', w'.pc = "observe" PROVE Served(w.c)'
  <2>1. Unattended(w.c)
    BY <1>1, <1>3, <1>6 DEF Unattended, SpecOf
  <2>2. stage[w.c] = "live" /\ SeenStands
    BY <1>1, <2>1 DEF WorkerServesInv
  <2>3. /\ SpecOf(w.c).ver \in Nat /\ UpdateShootFields \in Shoots
        /\ UpdateShootFields.owner = w.c /\ UpdateShootFields.ver >= SpecOf(w.c).ver
    BY <1>1, WrittenVersion
  <2>4. /\ shoots'[w.key] # None /\ shoots'[w.key].owner = w.c
        /\ shoots'[w.key].ver >= SpecOf(w.c).ver
    <3>1. CASE w.seen # None /\ UpdateShootFields = w.seen /\ UNCHANGED shoots
      <4>1. /\ shoots[w.key] # None /\ shoots[w.key].owner = w.c
            /\ shoots[w.key].ver >= w.seen.ver
        BY <2>2, <3>1 DEF SeenStands
      <4>2. shoots[w.key].ver \in Nat /\ w.seen.ver \in Nat
        BY <1>1, <2>3, <3>1, <4>1, ShootType
      <4> QED
        BY <2>3, <3>1, <4>1, <4>2
    <3>2. CASE shoots' = [shoots EXCEPT ![w.key] = UpdateShootFields]
      BY <1>1, <2>3, <3>2, ShootType
    <3>3. w'.pc # "status"
      BY <1>6
    <3>4. w' # StatusError(w, "Shoot")
      BY <1>1, <3>3, FailedServes
    <3> QED
      BY <3>1, <3>2, <3>4 DEF WriteShoot
  <2>5. w.key \in ShootsOf(w.c)' /\ SpecOf(w.c)' = SpecOf(w.c) /\ stage'[w.c] = "live"
    BY <1>1, <1>3, <2>2, <2>4 DEF ShootsOf, SpecOf
  <2> QED
    BY <1>3, <2>4, <2>5 DEF Served
<1>7. WorkerServesInv'
  BY <1>3, <1>6 DEF WorkerServesInv
<1> QED
  BY <1>5, <1>7

\* A shoot that is told to go, or was before, is what a Cluster in deletion is owed.
LEMMA DeleteServes ==
  ASSUME DistinctNames, IInv, SettledIsServed, WorkerServesInv, DeleteShoot
  PROVE  SettledIsServed' /\ WorkerServesInv'
<1>1. /\ TypeOK /\ w.pc = "deletion" /\ w \in Worker /\ w.c \in Clusters /\ w.key \in Keys
      /\ shoots \in [Keys -> Shoots \cup {None}] /\ "Shoot" \in Conditions
      /\ [w EXCEPT !.cons = w.cons \ {"Foreign"}] \in Worker
      /\ UNCHANGED <<stage, fins, op, queue, profiles>>
  BY DEF IInv, TypeOK, WorkerType, DeleteShoot, clusterVars, registryVars, Conditions, Worker
<1>2. \/ w' = StatusError([w EXCEPT !.cons = w.cons \ {"Foreign"}], "Shoot")
      \/ w' = [w EXCEPT !.pc = "status",
                        !.cons = ConditionFalse(w.cons \ {"Foreign"}, "Shoot")]
  BY DEF DeleteShoot
<1>3. w'.c = w.c /\ w'.pc = "status"
  BY <1>1, <1>2, FailedServes DEF Worker
<1>4. ASSUME NEW c \in Clusters, Unattended(c)', c # w.c PROVE Unattended(c) /\ Keeps(c)
  <2>1. Unattended(c) /\ SpecOf(c)' = SpecOf(c)
    BY <1>1, <1>4 DEF Unattended, SpecOf
  <2>2. \A k \in ShootsOf(c) : shoots'[k] = shoots[k]
    <3>1. CASE UNCHANGED shoots
      BY <3>1
    <3>2. CASE ~UNCHANGED shoots
      BY <1>1, <1>4, <3>2, DeleteEffect DEF ShootsOf
    <3> QED
      BY <3>1, <3>2
  <2> QED
    BY <1>1, <2>1, <2>2, NothingChanges
<1>5. SettledIsServed'
  BY <1>1, <1>3, <1>4, SettledStays
<1>6. ASSUME Unattended(w.c)', ~w'.failed PROVE Served(w.c)'
  <2>1. Unattended(w.c)
    BY <1>1, <1>3, <1>6 DEF Unattended, SpecOf
  <2>2. stage[w.c] = "deleting" /\ SeenStands /\ w.seen # None
    BY <1>1, <2>1 DEF WorkerServesInv, DeleteShoot
  <2>3. /\ shoots[w.key] # None /\ shoots[w.key].owner = w.c /\ shoots[w.key] \in Shoots
        /\ w.seen.deleting => shoots[w.key].deleting
    BY <1>1, <2>2 DEF SeenStands
  <2>4. w' # StatusError([w EXCEPT !.cons = w.cons \ {"Foreign"}], "Shoot")
    BY <1>1, <1>6, FailedServes
  <2>5. shoots'[w.key] # None /\ shoots'[w.key].owner = w.c /\ shoots'[w.key].deleting
    <3>1. CASE w.seen.deleting /\ UNCHANGED shoots
      BY <2>3, <3>1
    <3>2. CASE shoots' = [shoots EXCEPT ![w.key].deleting = TRUE]
      <4>1. [shoots[w.key] EXCEPT !.deleting = TRUE] \in Shoots
        BY <2>3 DEF Shoots
      <4> QED
        BY <1>1, <2>3, <3>2, <4>1, ShootType DEF Shoots
    <3> QED
      BY <2>3, <2>4, <3>1, <3>2 DEF DeleteShoot
  <2>6. w.key \in ShootsOf(w.c)' /\ stage'[w.c] = "deleting"
    BY <1>1, <1>3, <2>2, <2>5 DEF ShootsOf
  <2> QED
    BY <1>3, <2>5, <2>6 DEF Served
<1>7. WorkerServesInv'
  BY <1>3, <1>6 DEF WorkerServesInv
<1> QED
  BY <1>5, <1>7

\* The calls that touch neither shoots nor other Clusters.
LEMMA QuietStepServes ==
  ASSUME TypeOK, SettledIsServed, w.c \in Clusters, w'.c = w.c, WorkerServesInv',
         UNCHANGED <<stage, op, shoots, profiles, queue>>,
         \A c \in Clusters : c # w.c => fins'[c] = fins[c]
  PROVE  SettledIsServed'
<1>1. ASSUME NEW c \in Clusters, Unattended(c)', c # w.c PROVE Unattended(c) /\ Keeps(c)
  <2>1. Unattended(c) /\ SpecOf(c)' = SpecOf(c)
    BY <1>1 DEF Unattended, SpecOf
  <2> QED
    BY <1>1, <2>1, NothingChanges
<1> QED
  BY <1>1, SettledStays

\* Adding the finalizer and preparing the shoot, for a live Cluster.
LEMMA PrepareServes ==
  ASSUME TypeOK, SettledIsServed, WorkerServesInv, AddFinalizer \/ Prepare
  PROVE  SettledIsServed' /\ WorkerServesInv'
<1>1. /\ w \in Worker /\ w.c \in Clusters /\ w.pc \in {"finalizer", "prepare"}
      /\ fins \in [Clusters -> SUBSET {"own", "foreign"}]
      /\ UNCHANGED <<stage, op, shoots, profiles, queue>>
      /\ {"Config", "Shoot", "Meta"} \subseteq Conditions
  BY DEF TypeOK, WorkerType, ClusterType, AddFinalizer, Prepare, clusterVars, registryVars,
         Conditions
<1>2. \A c \in Clusters : c # w.c => fins'[c] = fins[c]
  BY <1>1 DEF AddFinalizer, Prepare, clusterVars
<1>3. CASE \E con \in {"Config", "Shoot", "Meta"} : w' = StatusError(w, con)
  <2>1. w'.c = w.c /\ WorkerServesInv'
    BY <1>1, <1>3, FailedServes
  <2> QED
    BY <1>1, <1>2, <2>1, QuietStepServes
<1>4. CASE ~\E con \in {"Config", "Shoot", "Meta"} : w' = StatusError(w, con)
  <2>1. \/ w' = [w EXCEPT !.pc = "prepare", !.fins = w.fins \cup {"own"}]
        \/ \E d \in {w.deleting, stage[w.c] = "deleting"} :
             w' = [w EXCEPT !.pc = "write", !.deleting = d,
                            !.ref = <<w.key[2], w.key[3]>>, !.cons = w.cons \ {"Config", "Meta"}]
    BY <1>4 DEF AddFinalizer, Prepare
  <2>2. /\ w'.pc \in {"prepare", "write"}
        /\ w'.c = w.c /\ w'.key = w.key /\ w'.seen = w.seen
    BY <1>1, <2>1 DEF Worker
  <2>3. Unattended(w.c)' => stage'[w.c] = "live" /\ SeenStands'
    BY <1>1, <2>2 DEF WorkerServesInv, Unattended, SpecOf, SeenStands
  <2>4. WorkerServesInv'
    BY <2>2, <2>3 DEF WorkerServesInv
  <2> QED
    BY <1>1, <1>2, <2>2, <2>4, QuietStepServes
<1> QED
  BY <1>3, <1>4

\* Observability, and a deletion that waits for the others that hold the Cluster.
LEMMA ObserveServes ==
  ASSUME TypeOK, SettledIsServed, WorkerServesInv, Observe \/ PostponeDeletion
  PROVE  SettledIsServed' /\ WorkerServesInv'
<1>1. /\ w \in Worker /\ w.c \in Clusters /\ w.pc \in {"observe", "deletion"}
      /\ UNCHANGED <<stage, fins, op, shoots, profiles, queue>>
      /\ "Observability" \in Conditions
  BY DEF TypeOK, WorkerType, Observe, PostponeDeletion, clusterVars, registryVars, Conditions
<1>2. CASE w' = StatusError(w, "Observability")
  <2>1. w'.c = w.c /\ WorkerServesInv'
    BY <1>1, <1>2, FailedServes
  <2> QED
    BY <1>1, <2>1, QuietStepServes
<1>3. CASE w' # StatusError(w, "Observability")
  <2>1. w'.pc = "status" /\ w'.c = w.c /\ w'.failed = w.failed
    BY <1>1, <1>3 DEF Observe, PostponeDeletion, Worker
  <2>2. ASSUME Unattended(w.c)', ~w.failed PROVE Served(w.c)
    <3>1. Unattended(w.c)
      BY <1>1, <2>1, <2>2 DEF Unattended, SpecOf
    <3>2. CASE Observe
      BY <2>2, <3>1, <3>2 DEF Observe, WorkerServesInv
    <3>3. CASE PostponeDeletion
      BY <3>1, <3>3 DEF PostponeDeletion, HasForeignFinalizers, WorkerServesInv, Served
    <3> QED
      BY <3>2, <3>3
  <2>3. Unattended(w.c)' /\ ~w.failed => Served(w.c)'
    BY <1>1, <2>1, <2>2 DEF Served, ShootsOf, SpecOf
  <2>4. WorkerServesInv'
    BY <2>1, <2>3 DEF WorkerServesInv
  <2> QED
    BY <1>1, <2>1, <2>4, QuietStepServes
<1> QED
  BY <1>2, <1>3

\* A Cluster that is released is gone, or its reconcile has failed.
LEMMA ReleaseServes ==
  ASSUME TypeOK, SettledIsServed, WorkerServesInv, ReleaseCluster
  PROVE  SettledIsServed' /\ WorkerServesInv'
<1>1. /\ w \in Worker /\ w.c \in Clusters /\ "Config" \in Conditions /\ "Meta" \in Conditions
      /\ ClusterType /\ UNCHANGED <<shoots, profiles>>
      /\ [w EXCEPT !.cons = w.cons \ {"Foreign"}] \in Worker
  BY DEF TypeOK, WorkerType, ReleaseCluster, registryVars, Conditions, Worker
<1>2. CASE Remove(w.c) /\ Enqueue(w.c) /\ w' = Idle
  <2>1. /\ w'.pc = "idle" /\ w'.c = None /\ queue \subseteq queue' /\ stage'[w.c] = "absent"
        /\ \A c \in Clusters : c # w.c => /\ stage'[c] = stage[c] /\ fins'[c] = fins[c]
                                          /\ op'[c] = op[c]
    BY <1>1, <1>2 DEF Remove, Enqueue, Idle, ClusterType
  <2>2. ASSUME NEW c \in Clusters, Unattended(c)' PROVE Unattended(c) /\ w.c # c /\ Keeps(c)
    <3>1. c # w.c
      BY <2>1, <2>2 DEF Unattended
    <3>2. Unattended(c) /\ SpecOf(c)' = SpecOf(c)
      BY <1>1, <2>1, <2>2, <3>1 DEF Unattended, SpecOf
    <3> QED
      BY <1>1, <2>1, <3>1, <3>2, NothingChanges
  <2>3. SettledIsServed'
    BY <2>2, SettledStays
  <2> QED
    BY <2>1, <2>3 DEF WorkerServesInv
<1>3. CASE \E con \in {"Config", "Meta"} :
             /\ w' = StatusError([w EXCEPT !.cons = w.cons \ {"Foreign"}], con)
             /\ UNCHANGED <<clusterVars, queue>>
  <2>1. w'.c = w.c /\ WorkerServesInv'
    BY <1>1, <1>3, FailedServes DEF Worker
  <2> QED
    BY <1>1, <1>3, <2>1, QuietStepServes DEF clusterVars
<1> QED
  BY <1>2, <1>3 DEF ReleaseCluster

\* A reconcile that ends without an error has done what it owes, after any other its
\* Cluster is enqueued.
LEMMA StatusServes ==
  ASSUME TypeOK, SettledIsServed, WorkerServesInv, UpdateStatus
  PROVE  SettledIsServed' /\ WorkerServesInv'
<1>1. /\ w.c \in Clusters /\ w.pc = "status" /\ w' = Idle /\ queue \subseteq queue'
      /\ UNCHANGED <<stage, fins, op, shoots, profiles>>
      /\ w.failed \/ stage[w.c] = "absent" => w.c \in queue'
  BY DEF TypeOK, WorkerType, UpdateStatus, clusterVars, registryVars
<1>2. w'.pc = "idle" /\ w'.c = None
  BY <1>1 DEF Idle
<1>3. ASSUME NEW c \in Clusters, Unattended(c)' PROVE Served(c)'
  <2>1. Unattended(c) /\ SpecOf(c)' = SpecOf(c) /\ SpecOf(c) # None
    BY <1>1, <1>3 DEF Unattended, SpecOf
  <2>2. Served(c)
    <3>1. CASE c = w.c
      BY <1>1, <1>3, <2>1, <3>1 DEF WorkerServesInv, Unattended
    <3>2. CASE c # w.c
      BY <2>1, <3>2 DEF SettledIsServed
    <3> QED
      BY <3>1, <3>2
  <2>3. Keeps(c)
    BY <1>1, <2>1, NothingChanges
  <2> QED
    BY <2>1, <2>2, <2>3, KeepsServed
<1> QED
  BY <1>2, <1>3 DEF SettledIsServed, WorkerServesInv

-------------------------------------------------------------------------------
(***************************************************************************)
(* Theorem.                                                                *)
(***************************************************************************)
\* The invariant is inductive.
LEMMA ServedInductive ==
  ASSUME StableNames, FixedHomes, DistinctNames, NothingIsMissed
  PROVE  /\ Init => ServedInv
         /\ ServedInv /\ [Next]_vars => ServedInv'
<1>1. ASSUME Init PROVE ServedInv
  <2>1. IInv
    BY <1>1, InitInv
  <2>2. WatchInv /\ SettledIsServed /\ WorkerServesInv
    BY <1>1 DEF Init, Idle, WatchInv, SettledIsServed, Unattended, WorkerServesInv
  <2> QED
    BY <2>1, <2>2 DEF ServedInv
<1>2. ASSUME ServedInv, [Next]_vars PROVE ServedInv'
  <2>1. IInv /\ TypeOK /\ WatchInv /\ SettledIsServed /\ WorkerServesInv
    BY <1>2 DEF ServedInv, IInv
  <2>2. IInv'
    BY <1>2, <2>1, NextInv
  <2>3. WatchInv'
    BY <1>2, <2>1, WatchStays
  <2>4. CASE \E c \in Clusters : Start(c)
    BY <2>1, <2>2, <2>3, <2>4, StartServes DEF ServedInv
  <2>5. CASE Step
    <3>1. SettledIsServed' /\ WorkerServesInv'
      BY <2>1, <2>5, PrepareServes, WriteServes, ObserveServes, DeleteServes, ReleaseServes,
         StatusServes DEF Step
    <3> QED
      BY <2>2, <2>3, <3>1 DEF ServedInv
  <2>6. CASE Crash \/ Registry
    BY <2>1, <2>2, <2>3, <2>6, RegistryServes DEF ServedInv
  <2>7. CASE Gardener
    BY <2>1, <2>2, <2>3, <2>7, GardenerServes DEF ServedInv
  <2>8. CASE Users
    BY <2>1, <2>2, <2>3, <2>8, UsersServe DEF ServedInv
  <2>9. CASE UNCHANGED vars
    <3>1. UNCHANGED <<stage, fins, op, shoots, profiles, queue, w>>
      BY <2>9 DEF vars, clusterVars, registryVars
    <3>2. \A c \in Clusters : Unattended(c)' => Unattended(c) /\ Keeps(c)
      BY <2>1, <3>1, NothingChanges DEF Unattended, SpecOf
    <3> QED
      BY <2>1, <2>2, <2>3, <3>1, <3>2, OthersServe DEF ServedInv
  <2> QED
    BY <1>2, <2>4, <2>5, <2>6, <2>7, <2>8, <2>9 DEF Next
<1> QED
  BY <1>1, <1>2

\* No wake-up is lost: whatever fails, crashes or happens in the middle of a reconcile,
\* a Cluster that nobody is about to reconcile has a shoot of at least the version
\* its profile asks for, or in deletion waits for a shoot that was told to go or for
\* others that hold it.  Names are as above, and no event is dropped on its way to
\* the queue.
THEOREM NoWakeUpIsLost ==
  ASSUME StableNames, FixedHomes, DistinctNames, NothingIsMissed
  PROVE  Spec => []SettledIsServed
<1>1. Init => ServedInv
  BY ServedInductive
<1>2. ServedInv /\ [Next]_vars => ServedInv'
  BY ServedInductive
<1>3. ServedInv => SettledIsServed
  BY DEF ServedInv
<1> QED
  BY <1>1, <1>2, <1>3, PTL DEF Spec
=================================================================================
