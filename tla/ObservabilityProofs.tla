--------------------------- MODULE ObservabilityProofs ---------------------------
(***************************************************************************)
(* Theorems about the federation of shoot metrics, for any number of       *)
(* Clusters, any monitoring secrets and any number of failures.            *)
(***************************************************************************)
EXTENDS Observability, TLAPS

-------------------------------------------------------------------------------
(***************************************************************************)
(* Types.                                                                  *)
(***************************************************************************)
LEMMA FaultsType ==
  ASSUME faults \in 0..MaxFaults, Fault \/ NoFault
  PROVE  faults' \in 0..MaxFaults
  BY ConstantsAssumption DEF Fault, NoFault

LEMMA IdleType == Idle \in Worker /\ Idle.pc = "idle" /\ Idle.c = None
  BY DEF Idle, Worker

LEMMA InitType == Init => TypeOK
  BY ConstantsAssumption, IdleType DEF Init, TypeOK

\* How a reconcile goes on or ends.
LEMMA EndType ==
  ASSUME TypeOK, w.pc # "idle", Done \/ Retry
  PROVE  w' = Idle /\ queue' \in SUBSET Clusters
  BY DEF TypeOK, Done, Retry

LEMMA GoType ==
  ASSUME TypeOK, w.pc # "idle", NEW pc \in {"check", "scrape", "noauth", "noscrape"}, Go(pc),
         pc = "scrape" => w.cred \in Secrets
  PROVE  /\ w' \in Worker /\ w'.pc = pc /\ w'.c = w.c /\ w'.seen = w.seen /\ w'.cred = w.cred
         /\ queue' = queue /\ w'.c \in Clusters
  BY DEF TypeOK, Go, Worker

\* What an object written or removed leaves behind has its type.
LEMMA ObjectsType ==
  ASSUME NEW c \in Clusters, TypeOK
  PROVE  Objects(c) \subseteq {"auth", "scrape"} \X Clusters
  BY DEF Objects

LEMMA StepType ==
  ASSUME TypeOK, Step
  PROVE  TypeOK'
<1> USE DEF TypeOK, clusterVars, shootVars, objectVars
<1>1. CASE WriteShoot
  <2>1. faults' \in 0..MaxFaults
    BY <1>1, FaultsType DEF WriteShoot
  <2>2. CASE Retry
    BY <1>1, <2>1, <2>2, EndType, IdleType DEF WriteShoot
  <2>3. CASE Go(IF enabled THEN "check" ELSE "noauth")
    BY <1>1, <2>1, <2>3, GoType DEF WriteShoot
  <2> QED
    BY <1>1, <2>2, <2>3 DEF WriteShoot
<1>2. CASE CheckMonitoring
  <2>1. faults' \in 0..MaxFaults
    BY <1>2, FaultsType DEF CheckMonitoring
  <2>2. CASE Retry
    BY <1>2, <2>1, <2>2, EndType, IdleType DEF CheckMonitoring
  <2>3. CASE ~Retry
    <3>1. /\ w' = [w EXCEPT !.pc = "auth", !.cred = monitor[w.c]]
          /\ monitor[w.c] # None /\ w.c \in Clusters /\ UNCHANGED queue
      BY <1>2, <2>3 DEF CheckMonitoring
    <3>2. monitor[w.c] \in Secrets
      BY <3>1
    <3>3. w' \in Worker /\ w'.c \in Clusters /\ w'.cred \in Secrets
      BY <3>1, <3>2 DEF Worker
    <3> QED
      BY <1>2, <2>1, <3>1, <3>3 DEF CheckMonitoring
  <2> QED
    BY <2>2, <2>3
<1>3. CASE WriteAuth
  <2>1. faults' \in 0..MaxFaults
    BY <1>3, FaultsType DEF WriteAuth
  <2>2. /\ auth' \in [Clusters -> Secrets \cup {None}]
        /\ ownerless' \in SUBSET ({"auth", "scrape"} \X Clusters)
    BY <1>3 DEF WriteAuth
  <2>3. CASE Retry
    BY <1>3, <2>1, <2>2, <2>3, EndType, IdleType DEF WriteAuth
  <2>4. CASE Go("scrape")
    BY <1>3, <2>1, <2>2, <2>4, GoType DEF WriteAuth
  <2> QED
    BY <1>3, <2>3, <2>4 DEF WriteAuth
<1>4. CASE WriteScrape
  <2>1. faults' \in 0..MaxFaults
    BY <1>4, FaultsType DEF WriteScrape
  <2>2. /\ scrape' \in [Clusters -> Secrets \cup {None}]
        /\ ownerless' \in SUBSET ({"auth", "scrape"} \X Clusters)
    BY <1>4 DEF WriteScrape
  <2>3. Done \/ Retry
    BY <1>4 DEF WriteScrape
  <2> QED
    BY <1>4, <2>1, <2>2, <2>3, EndType, IdleType DEF WriteScrape
<1>5. CASE DeleteAuth
  <2>1. faults' \in 0..MaxFaults
    BY <1>5, FaultsType DEF DeleteAuth
  <2>2. /\ auth' \in [Clusters -> Secrets \cup {None}]
        /\ ownerless' \in SUBSET ({"auth", "scrape"} \X Clusters)
    BY <1>5 DEF DeleteAuth
  <2>3. CASE Retry
    BY <1>5, <2>1, <2>2, <2>3, EndType, IdleType DEF DeleteAuth
  <2>4. CASE Go("noscrape")
    BY <1>5, <2>1, <2>2, <2>4, GoType DEF DeleteAuth
  <2> QED
    BY <1>5, <2>3, <2>4 DEF DeleteAuth
<1>6. CASE DeleteScrape
  <2>1. faults' \in 0..MaxFaults
    BY <1>6, FaultsType DEF DeleteScrape
  <2>2. /\ scrape' \in [Clusters -> Secrets \cup {None}]
        /\ ownerless' \in SUBSET ({"auth", "scrape"} \X Clusters)
    BY <1>6 DEF DeleteScrape, Unscraped
  <2>3. Done \/ Retry
    BY <1>6 DEF DeleteScrape
  <2> QED
    BY <1>6, <2>1, <2>2, <2>3, EndType, IdleType DEF DeleteScrape
<1>7. CASE DeleteOrRelease
  <2>1. faults' \in 0..MaxFaults
    BY <1>7, FaultsType DEF DeleteOrRelease
  <2>2. /\ stage' \in [Clusters -> {"absent", "live", "deleting"}]
        /\ held' \in SUBSET Clusters
        /\ leaving' \in SUBSET shoots
        /\ ownerless' \in SUBSET ({"auth", "scrape"} \X Clusters)
    BY <1>7, ObjectsType DEF DeleteOrRelease, Gone, OwnedBy
  <2>3. Done \/ Retry
    BY <1>7 DEF DeleteOrRelease
  <2> QED
    BY <1>7, <2>1, <2>2, <2>3, EndType, IdleType DEF DeleteOrRelease
<1> QED
  BY <1>1, <1>2, <1>3, <1>4, <1>5, <1>6, <1>7 DEF Step

LEMMA NextType ==
  ASSUME TypeOK, [Next]_vars
  PROVE  TypeOK'
<1> USE DEF TypeOK, clusterVars, shootVars, objectVars
<1>1. ASSUME NEW c \in Clusters, Start(c) PROVE TypeOK'
  <2>1. faults' \in 0..MaxFaults
    BY <1>1, FaultsType DEF Start
  <2>2. CASE UNCHANGED w
    BY <1>1, <2>1, <2>2 DEF Start
  <2>3. CASE w' = [Idle EXCEPT !.pc = IF stage[c] = "live" THEN "write" ELSE "deletion",
                               !.c = c, !.seen = (c \in shoots)]
    <3> DEFINE pc == IF stage[c] = "live" THEN "write" ELSE "deletion"
               seen == c \in shoots
    <3>1. pc \in {"write", "deletion"} /\ seen \in BOOLEAN
      OBVIOUS
    <3>2. w' = [Idle EXCEPT !.pc = pc, !.c = c, !.seen = seen]
      BY <2>3
    <3> HIDE DEF pc, seen
    <3>3. w' \in Worker /\ w'.c = c /\ w'.pc \in {"write", "deletion"}
      BY <3>1, <3>2 DEF Idle, Worker
    <3> QED
      BY <1>1, <2>1, <3>3 DEF Start
  <2> QED
    BY <1>1, <2>2, <2>3 DEF Start
<1>2. CASE Crash \/ Switch
  BY <1>2, FaultsType, IdleType DEF Crash, Switch, Restart
<1>3. ASSUME NEW c \in Clusters,
             MonitoringSecret(c) \/ ShootDeletedByUser(c) \/ ShootGone(c) \/ Collect(c)
      PROVE  TypeOK'
  BY <1>3 DEF MonitoringSecret, ShootDeletedByUser, ShootGone, Collect
<1>4. ASSUME NEW c \in Clusters, CreateCluster(c) \/ DeleteCluster(c)
      PROVE  TypeOK'
  BY <1>4, ObjectsType DEF CreateCluster, DeleteCluster, Gone, OwnedBy
<1>5. CASE InstallCRD
  BY <1>5 DEF InstallCRD
<1>6. CASE UNCHANGED vars
  BY <1>6 DEF vars
<1> QED
  BY <1>1, <1>2, <1>3, <1>4, <1>5, <1>6, StepType DEF Next

\* Every variable has its type in every reachable state, and a worker about to
\* write an object has the contents of a monitoring secret.
THEOREM FederationTypes == Spec => []TypeOK
  BY InitType, NextType, PTL DEF Spec

-------------------------------------------------------------------------------
(***************************************************************************)
(* Objects are owned by a Cluster that holds the finalizer, or are left to *)
(* Kubernetes.                                                             *)
(***************************************************************************)
LEMMA ObjectsStep ==
  ASSUME TypeOK, ObjectsAreHeld, Step
  PROVE  ObjectsAreHeld'
<1> USE DEF TypeOK, ObjectsAreHeld, Objects, Federating, Cleaning, clusterVars, shootVars,
            objectVars
<1>1. w.pc # "idle" /\ w.c \in Clusters
  BY DEF Step, WriteShoot, CheckMonitoring, WriteAuth, WriteScrape, DeleteAuth, DeleteScrape,
         DeleteOrRelease
<1>2. CASE WriteShoot
  <2>1. CASE Retry
    BY <1>1, <1>2, <2>1, EndType, IdleType DEF WriteShoot
  <2>2. CASE Go(IF enabled THEN "check" ELSE "noauth")
    <3>1. PICK pc \in {"check", "noauth"} : Go(pc)
      BY <2>2
    <3>2. w'.pc = pc /\ w'.c = w.c
      BY <1>1, <3>1, GoType
    <3>3. ~Retry
      BY <1>1, <3>2, IdleType, ConstantsAssumption DEF Retry
    <3>4. /\ stage[w.c] = "live" \/ w.c \in held
          /\ held' = held \cup {w.c} /\ UNCHANGED <<stage, auth, scrape, ownerless>>
      BY <1>2, <3>3 DEF WriteShoot
    <3> QED
      BY <1>1, <3>2, <3>4
  <2> QED
    BY <1>2, <2>1, <2>2 DEF WriteShoot
<1>3. CASE CheckMonitoring
  <2>1. CASE Retry
    BY <1>1, <1>3, <2>1, EndType, IdleType DEF CheckMonitoring
  <2>2. CASE ~Retry
    <3>1. w' = [w EXCEPT !.pc = "auth", !.cred = monitor[w.c]]
      BY <1>3, <2>2 DEF CheckMonitoring
    <3>2. w'.pc = "auth" /\ w'.c = w.c
      BY <3>1 DEF Worker
    <3> QED
      BY <1>1, <1>3, <3>2 DEF CheckMonitoring
  <2> QED
    BY <2>1, <2>2
<1>4. CASE WriteAuth
  <2>1. CASE Retry
    BY <1>1, <1>4, <2>1, EndType, IdleType DEF WriteAuth
  <2>2. CASE Go("scrape")
    BY <1>1, <1>4, <2>2, GoType DEF WriteAuth
  <2> QED
    BY <1>4, <2>1, <2>2 DEF WriteAuth
<1>5. CASE WriteScrape
  BY <1>1, <1>5, EndType, IdleType DEF WriteScrape
<1>6. CASE DeleteAuth
  <2>1. CASE Retry
    BY <1>1, <1>6, <2>1, EndType, IdleType DEF DeleteAuth
  <2>2. CASE Go("noscrape")
    BY <1>1, <1>6, <2>2, GoType DEF DeleteAuth
  <2> QED
    BY <1>6, <2>1, <2>2 DEF DeleteAuth
<1>7. CASE DeleteScrape
  BY <1>1, <1>7, EndType, IdleType DEF DeleteScrape, Unscraped
<1>8. CASE DeleteOrRelease
  BY <1>1, <1>8, EndType, IdleType DEF DeleteOrRelease, Gone, OwnedBy
<1> QED
  BY <1>2, <1>3, <1>4, <1>5, <1>6, <1>7, <1>8 DEF Step

LEMMA ObjectsNext ==
  ASSUME TypeOK, ObjectsAreHeld, [Next]_vars
  PROVE  ObjectsAreHeld'
<1> USE DEF TypeOK, ObjectsAreHeld, Objects, Federating, Cleaning, clusterVars, shootVars,
            objectVars
<1>1. ASSUME NEW c \in Clusters, Start(c) PROVE ObjectsAreHeld'
  <2>1. CASE UNCHANGED w
    BY <1>1, <2>1 DEF Start
  <2>2. CASE ~UNCHANGED w
    <3>1. /\ w' = [Idle EXCEPT !.pc = IF stage[c] = "live" THEN "write" ELSE "deletion",
                               !.c = c, !.seen = (c \in shoots)]
          /\ stage[c] # "absent"
      BY <1>1, <2>2 DEF Start
    <3>2. w'.c = c /\ w'.pc = (IF stage[c] = "live" THEN "write" ELSE "deletion")
      BY <3>1 DEF Idle
    <3> QED
      BY <1>1, <3>1, <3>2 DEF Start
  <2> QED
    BY <2>1, <2>2
<1>2. CASE Crash \/ Switch
  BY <1>2, IdleType DEF Crash, Switch, Restart
<1>3. ASSUME NEW c \in Clusters,
             MonitoringSecret(c) \/ ShootDeletedByUser(c) \/ ShootGone(c) \/ Collect(c)
      PROVE  ObjectsAreHeld'
  BY <1>3 DEF MonitoringSecret, ShootDeletedByUser, ShootGone, Collect
<1>4. ASSUME NEW c \in Clusters, CreateCluster(c) \/ DeleteCluster(c)
      PROVE  ObjectsAreHeld'
  BY <1>4 DEF CreateCluster, DeleteCluster, Gone, OwnedBy
<1>5. CASE InstallCRD
  BY <1>5 DEF InstallCRD
<1>6. CASE UNCHANGED vars
  BY <1>6 DEF vars
<1> QED
  BY <1>1, <1>2, <1>3, <1>4, <1>5, <1>6, ObjectsStep DEF Next

LEMMA ObjectsInvariant == Spec => []ObjectsAreHeld
<1>1. Init => ObjectsAreHeld
  BY IdleType DEF Init, ObjectsAreHeld, Objects, Federating, Cleaning
<1> QED
  BY <1>1, ObjectsNext, FederationTypes, PTL DEF Spec

\* No object outlives its Cluster: what is left of a Cluster that is gone has no
\* owner either and will be collected, in any environment.
THEOREM NothingIsLeftBehind == Spec => []NothingOutlivesCluster
<1>1. ObjectsAreHeld => NothingOutlivesCluster
  BY DEF ObjectsAreHeld, NothingOutlivesCluster
<1> QED
  BY <1>1, ObjectsInvariant, PTL

-------------------------------------------------------------------------------
(***************************************************************************)
(* Settled Clusters are federated as configured.  Who rotates a monitoring *)
(* secret or removes the CRD wakes nobody: both are excluded here.         *)
(***************************************************************************)
FixedMonitoring == "rotate" \notin Env /\ "uninstall" \notin Env

\* The steps of the worker keep what it knows half-way.
LEMMA HalfWayStep ==
  ASSUME TypeOK, ObjectsAreHeld, HalfWay, Step
  PROVE  HalfWay'
<1> USE DEF TypeOK, HalfWay, Federating, Cleaning, clusterVars, shootVars, objectVars
<1>1. w.pc # "idle" /\ w.c \in Clusters
  BY DEF Step, WriteShoot, CheckMonitoring, WriteAuth, WriteScrape, DeleteAuth, DeleteScrape,
         DeleteOrRelease
<1>2. CASE Done \/ Retry
  BY <1>1, <1>2, EndType, IdleType
<1>3. CASE ~Done /\ ~Retry
  <2>1. CASE WriteShoot
    <3>1. PICK pc \in {"check", "noauth"} : Go(pc) /\ pc = IF enabled THEN "check" ELSE "noauth"
      BY <1>3, <2>1 DEF WriteShoot
    <3> QED
      BY <1>1, <2>1, <3>1, GoType DEF WriteShoot
  <2>2. CASE CheckMonitoring
    <3>1. w' = [w EXCEPT !.pc = "auth", !.cred = monitor[w.c]]
      BY <1>3, <2>2 DEF CheckMonitoring
    <3>2. w'.pc = "auth" /\ w'.c = w.c /\ w'.cred = monitor[w.c]
      BY <3>1 DEF Worker
    <3> QED
      BY <1>1, <2>2, <3>2 DEF CheckMonitoring
  <2>3. CASE WriteAuth
    <3>1. Go("scrape")
      BY <1>3, <2>3 DEF WriteAuth
    <3> QED
      BY <1>1, <1>3, <2>3, <3>1, GoType DEF WriteAuth
  <2>4. CASE DeleteAuth
    <3>1. Go("noscrape")
      BY <1>3, <2>4 DEF DeleteAuth
    <3> QED
      BY <1>1, <1>3, <2>4, <3>1, GoType DEF DeleteAuth
  <2>5. CASE WriteScrape \/ DeleteScrape \/ DeleteOrRelease
    BY <1>3, <2>5 DEF WriteScrape, DeleteScrape, DeleteOrRelease
  <2> QED
    BY <2>1, <2>2, <2>3, <2>4, <2>5 DEF Step
<1> QED
  BY <1>2, <1>3

LEMMA HalfWayNext ==
  ASSUME FixedMonitoring, TypeOK, ObjectsAreHeld, HalfWay, [Next]_vars
  PROVE  HalfWay'
<1> USE DEF TypeOK, HalfWay, Federating, Cleaning, clusterVars, shootVars, objectVars
<1>1. ASSUME NEW c \in Clusters, Start(c) PROVE HalfWay'
  <2>1. CASE UNCHANGED w
    <3>1. w.pc = "idle"
      BY <1>1 DEF Start
    <3> QED
      BY <2>1, <3>1
  <2>2. CASE ~UNCHANGED w
    <3>1. w' = [Idle EXCEPT !.pc = IF stage[c] = "live" THEN "write" ELSE "deletion",
                            !.c = c, !.seen = (c \in shoots)]
      BY <1>1, <2>2 DEF Start
    <3>2. w'.pc \in {"write", "deletion"}
      BY <3>1 DEF Idle
    <3> QED
      BY <3>2
  <2> QED
    BY <2>1, <2>2
<1>2. CASE Crash \/ Switch
  BY <1>2, IdleType DEF Crash, Switch, Restart
<1>3. ASSUME NEW c \in Clusters, MonitoringSecret(c)
      PROVE  HalfWay'
  <2>1. monitor[c] = None /\ UNCHANGED <<w, enabled, auth, ownerless, queue>>
    BY <1>3 DEF MonitoringSecret, FixedMonitoring
  <2>2. w.pc \in {"auth", "scrape"} /\ w.c = c => w.c \in queue
    BY <2>1, ConstantsAssumption
  <2>3. \A d \in Clusters \ {c} : monitor'[d] = monitor[d]
    BY <1>3 DEF MonitoringSecret
  <2> QED
    BY <2>1, <2>2, <2>3
<1>4. ASSUME NEW c \in Clusters, ShootGone(c) \/ ShootDeletedByUser(c)
      PROVE  HalfWay'
  BY <1>4 DEF ShootGone, ShootDeletedByUser
<1>5. ASSUME NEW c \in Clusters, Collect(c)
      PROVE  HalfWay'
  BY <1>5 DEF Collect
<1>6. ASSUME NEW c \in Clusters, CreateCluster(c) \/ DeleteCluster(c)
      PROVE  HalfWay'
  <2>1. ASSUME Gone(c), c \notin held PROVE <<"auth", w.c>> \in ownerless' => \/ <<"auth", w.c>> \in ownerless
                                                                       \/ w.c = c
    BY <2>1 DEF Gone, OwnedBy, Objects
  <2>2. w.pc \in Federating \cup Cleaning => w.c \in held
    BY DEF ObjectsAreHeld
  <2> QED
    BY <1>6, <2>1, <2>2 DEF CreateCluster, DeleteCluster
<1>7. CASE InstallCRD
  BY <1>7 DEF InstallCRD, FixedMonitoring
<1>8. CASE UNCHANGED vars
  BY <1>8 DEF vars
<1> QED
  BY <1>1, <1>2, <1>3, <1>4, <1>5, <1>6, <1>7, <1>8, HalfWayStep DEF Next

\* The worker leaves its Cluster as configured, or enqueued, or in deletion.
LEMMA SettledStep ==
  ASSUME TypeOK, ObjectsAreHeld, HalfWay, SettledIsAsConfigured, Step
  PROVE  SettledIsAsConfigured'
<1> USE DEF TypeOK, clusterVars, shootVars, objectVars
<1> SUFFICES ASSUME NEW c \in Clusters, stage'[c] = "live", ~Pending(c)'
             PROVE  AsConfigured(c)'
  BY DEF SettledIsAsConfigured
<1>1. w.pc # "idle" /\ w.c \in Clusters
  BY DEF Step, WriteShoot, CheckMonitoring, WriteAuth, WriteScrape, DeleteAuth, DeleteScrape,
         DeleteOrRelease
<1>2. /\ queue \subseteq queue' /\ UNCHANGED <<monitor, enabled>>
      /\ stage[c] = "live"
  BY <1>1 DEF Step, WriteShoot, CheckMonitoring, WriteAuth, WriteScrape, DeleteAuth, DeleteScrape,
         DeleteOrRelease, Gone, Done, Retry, Go
<1>3. CASE c # w.c
  <2>1. AsConfigured(c)
    BY <1>2, <1>3 DEF SettledIsAsConfigured, Pending
  <2>2. auth'[c] = auth[c] /\ scrape'[c] = scrape[c]
    BY <1>1, <1>3 DEF Step, WriteShoot, CheckMonitoring, WriteAuth, WriteScrape, DeleteAuth,
           DeleteScrape, DeleteOrRelease, Unscraped
  <2>3. \A kind \in {"auth", "scrape"} : <<kind, c>> \in ownerless' => <<kind, c>> \in ownerless
    BY <1>1, <1>3 DEF Step, WriteShoot, CheckMonitoring, WriteAuth, WriteScrape, DeleteAuth,
           DeleteScrape, DeleteOrRelease, Gone, OwnedBy, Objects
  <2> QED
    BY <1>2, <2>1, <2>2, <2>3 DEF AsConfigured
<1>4. CASE c = w.c
  <2>1. w'.c # w.c
    BY <1>4 DEF Pending
  <2>2. ~Retry
    BY <1>4 DEF Retry, Pending
  <2>3. ~\E pc \in {"check", "scrape", "noauth", "noscrape"} : Go(pc)
    BY <2>1 DEF Go, Worker
  <2>4. CASE WriteScrape
    <3>1. /\ w.pc = "scrape" /\ scrape' = [scrape EXCEPT ![w.c] = w.cred]
          /\ ownerless' = ownerless \ {<<"scrape", w.c>>} /\ UNCHANGED auth /\ queue' = queue
      BY <2>2, <2>4 DEF WriteScrape, Done
    <3>2. enabled /\ monitor[w.c] = w.cred /\ auth[w.c] = w.cred /\ <<"auth", w.c>> \notin ownerless
      BY <1>2, <1>4, <3>1 DEF HalfWay, Federating, Pending
    <3>3. w.cred \in Secrets /\ w.cred # None
      BY <3>1, ConstantsAssumption
    <3> QED
      BY <1>1, <1>2, <1>4, <3>1, <3>2, <3>3 DEF AsConfigured
  <2>5. CASE DeleteScrape
    <3>1. w.pc = "noscrape" /\ scrape' = [scrape EXCEPT ![w.c] = None] /\ UNCHANGED auth
      BY <2>2, <2>5 DEF DeleteScrape, Unscraped
    <3>2. ~enabled /\ auth[w.c] = None
      BY <3>1 DEF HalfWay, Cleaning
    <3> QED
      BY <1>1, <1>2, <1>4, <3>1, <3>2 DEF AsConfigured
  <2>6. ~DeleteOrRelease
    BY <1>2, <1>4 DEF DeleteOrRelease, ObjectsAreHeld
  <2>7. ~WriteShoot /\ ~WriteAuth /\ ~DeleteAuth
    BY <2>2, <2>3 DEF WriteShoot, WriteAuth, DeleteAuth
  <2>8. ~CheckMonitoring
    <3>1. ASSUME w' = [w EXCEPT !.pc = "auth", !.cred = monitor[w.c]] PROVE FALSE
      BY <2>1, <3>1 DEF Worker
    <3> QED
      BY <2>2, <3>1 DEF CheckMonitoring
  <2> QED
    BY <2>4, <2>5, <2>6, <2>7, <2>8 DEF Step
<1> QED
  BY <1>3, <1>4

LEMMA SettledNext ==
  ASSUME FixedMonitoring, TypeOK, ObjectsAreHeld, HalfWay, SettledIsAsConfigured, [Next]_vars
  PROVE  SettledIsAsConfigured'
<1> USE DEF TypeOK, SettledIsAsConfigured, AsConfigured, Pending, clusterVars, shootVars, objectVars
<1>1. ASSUME NEW c \in Clusters, Start(c) PROVE SettledIsAsConfigured'
  <2>1. CASE UNCHANGED w
    <3>1. w' # [Idle EXCEPT !.pc = IF stage[c] = "live" THEN "write" ELSE "deletion",
                            !.c = c, !.seen = (c \in shoots)]
      BY <1>1, <2>1 DEF Start, Idle
    <3>2. queue' = queue \/ (queue' = queue \ {c} /\ stage[c] = "absent")
      BY <1>1, <3>1 DEF Start
    <3>3. UNCHANGED <<stage, monitor, enabled, auth, scrape, ownerless>>
      BY <1>1 DEF Start
    <3> QED
      BY <2>1, <3>2, <3>3
  <2>2. CASE ~UNCHANGED w
    <3>1. /\ w' = [Idle EXCEPT !.pc = IF stage[c] = "live" THEN "write" ELSE "deletion",
                               !.c = c, !.seen = (c \in shoots)]
          /\ w.pc = "idle" /\ queue' = queue \ {c}
          /\ UNCHANGED <<stage, monitor, enabled, auth, scrape, ownerless>>
      BY <1>1, <2>2 DEF Start
    <3>2. w'.c = c
      BY <3>1 DEF Idle
    <3>3. w.c = None /\ None \notin Clusters
      BY <3>1, ConstantsAssumption
    <3> QED
      BY <3>1, <3>2, <3>3
  <2> QED
    BY <2>1, <2>2
<1>2. CASE Crash \/ Switch
  BY <1>2, IdleType DEF Crash, Switch, Restart
<1>3. ASSUME NEW c \in Clusters, MonitoringSecret(c)
      PROVE  SettledIsAsConfigured'
  BY <1>3 DEF MonitoringSecret, FixedMonitoring
<1>4. ASSUME NEW c \in Clusters, ShootGone(c) \/ ShootDeletedByUser(c)
      PROVE  SettledIsAsConfigured'
  BY <1>4 DEF ShootGone, ShootDeletedByUser
<1>5. ASSUME NEW c \in Clusters, Collect(c)
      PROVE  SettledIsAsConfigured'
  BY <1>5 DEF Collect
<1>6. ASSUME NEW c \in Clusters, CreateCluster(c)
      PROVE  SettledIsAsConfigured'
  BY <1>6 DEF CreateCluster
<1>7. ASSUME NEW c \in Clusters, DeleteCluster(c)
      PROVE  SettledIsAsConfigured'
  BY <1>7 DEF DeleteCluster, Gone, OwnedBy, Objects
<1>8. CASE InstallCRD
  BY <1>8 DEF InstallCRD, FixedMonitoring
<1>9. CASE UNCHANGED vars
  BY <1>9 DEF vars
<1> QED
  BY <1>1, <1>2, <1>3, <1>4, <1>5, <1>6, <1>7, <1>8, <1>9, SettledStep DEF Next

\* The inductive invariant, if monitoring secrets stay and the CRD is not removed.
THEOREM FederationInvariance == FixedMonitoring /\ Spec => []FederationInv
<1>1. Init => FederationInv
  BY InitType, IdleType DEF Init, FederationInv, ObjectsAreHeld, HalfWay, SettledIsAsConfigured, Objects,
                  Federating, Cleaning
<1> SUFFICES ASSUME FixedMonitoring PROVE Spec => []FederationInv
  OBVIOUS
<1>2. FederationInv /\ [Next]_vars => FederationInv'
  BY NextType, ObjectsNext, HalfWayNext, SettledNext DEF FederationInv
<1> QED
  BY <1>1, <1>2, PTL DEF Spec

\* A live Cluster nobody is about to reconcile is federated with the credentials of
\* its own shoot if the switch is on, and has neither object if it is off.
THEOREM SettledClustersAreAsConfigured == FixedMonitoring /\ Spec => []SettledIsAsConfigured
<1>1. FederationInv => SettledIsAsConfigured
  BY DEF FederationInv
<1> QED
  BY <1>1, FederationInvariance, PTL
===================================================================================
