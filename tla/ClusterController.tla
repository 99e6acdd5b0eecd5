--------------------------- MODULE ClusterController ---------------------------
(***************************************************************************)
(* The Cluster controller (internal/controllers/cluster) at the            *)
(* granularity of its calls to the platform cluster and to Gardener.       *)
(*                                                                         *)
(* One worker reconciles one Cluster at a time (controller-runtime's       *)
(* default of one concurrent reconcile) while it holds the read lock of    *)
(* the RuntimeConfiguration, so the registry (profiles, landscapes) only   *)
(* changes while the worker is idle.  Everything else may happen between   *)
(* two of its calls: users create, relabel, annotate and delete Clusters   *)
(* and set finalizers on them, Gardener updates and removes shoots, calls  *)
(* fail, and the process crashes.                                          *)
(***************************************************************************)
EXTENDS Naturals

CONSTANTS
  Clusters,      \* names of Cluster resources
  Profiles,      \* names of the profiles that ProviderConfigs give rise to
  ProfileOf,     \* Cluster -> the profile its spec names
  ProfileSpecs,  \* Profile -> the [ls, ns, ver] its ProviderConfig may have
  Landscapes, Namespaces, Names,
  HashName,      \* Cluster -> the shoot name derived from its name
  LabelNames,    \* Cluster -> values its shoot-name label may take (or None)
  None,          \* no label, no recorded shoot, no shoot, unknown profile
  MaxVersion,    \* kubernetes versions are 1..MaxVersion
  MaxFaults,     \* bound on failed calls and crashes
  Env            \* the environment behaviours that are switched on

Versions == 1..MaxVersion
Keys == Landscapes \X Namespaces \X Names
Refs == Namespaces \X Names
Specs == [ls : Landscapes, ns : Namespaces, ver : Versions]
Shoots == [owner : Clusters, deleting : BOOLEAN, ver : Versions,
           cond : {"none", "bad", "good"}]

(***************************************************************************)
(* The conditions of a Cluster that have status False.  "Shoot" and        *)
(* "ShootNotFound" are the same condition (ShootManagement) with different *)
(* reasons; conditions that a reconcile does not touch keep their value.   *)
(***************************************************************************)
Conditions == {"Landscape", "Shoot", "ShootNotFound", "Meta", "Config",
               "Observability", "Foreign", "Gardener"}

ASSUME ConstantsAssumption ==
  /\ None \notin Clusters \cup Names \cup Keys \cup Refs \cup Specs \cup Shoots
  /\ ProfileOf \in [Clusters -> Profiles]
  /\ ProfileSpecs \in [Profiles -> (SUBSET Specs) \ {{}}]
  /\ HashName \in [Clusters -> Names]
  /\ LabelNames \in [Clusters -> SUBSET (Names \cup {None})]
  /\ MaxVersion \in Nat /\ MaxFaults \in Nat

VARIABLES
  stage,       \* Cluster -> "absent", "live" or "deleting"
  fins,        \* Cluster -> its finalizers: "own" and "foreign"
  label,       \* Cluster -> value of the shoot-name label
  op,          \* Cluster -> value of the operation annotation
  ref,         \* Cluster -> shoot recorded in status.providerStatus
  cons,        \* Cluster -> conditions with status False
  phase,       \* Cluster -> status.phase
  shoots,      \* Key -> shoot in Gardener
  profiles,    \* registered profiles
  published,   \* profiles with a ClusterProfile on the platform cluster
  landscapes,  \* registered landscapes: "unknown", "noclient" or "ready"
  watch,       \* landscapes whose shoot informer delivers events
  queue,       \* Clusters with a pending reconcile request
  w,           \* the worker
  faults       \* failures so far

clusterVars == <<stage, fins, label, op>>
statusVars == <<ref, cons, phase>>
registryVars == <<profiles, published, landscapes, watch>>
vars == <<clusterVars, statusVars, shoots, registryVars, queue, w, faults>>

(***************************************************************************)
(* The worker: its next call (pc), the Cluster c, what it read of the      *)
(* Cluster (deleting, fins), the shoot it is about (key) as it read it     *)
(* (seen), and the status it will write.                                   *)
(***************************************************************************)
Idle == [pc |-> "idle", c |-> None, deleting |-> FALSE, fins |-> {},
         key |-> None, seen |-> None, cons |-> {}, ref |-> None,
         failed |-> FALSE]

Worker == [pc : {"idle", "finalizer", "prepare", "write", "observe",
                 "deletion", "status"},
           c : Clusters \cup {None}, deleting : BOOLEAN,
           fins : SUBSET {"own", "foreign"}, key : Keys \cup {None},
           seen : Shoots \cup {None}, cons : SUBSET Conditions,
           ref : Refs \cup {None}, failed : BOOLEAN]

\* The worker has a type; a busy one has a Cluster, and until the shoot is dealt
\* with the place of the shoot is known and the profile stays registered.
WorkerType ==
  /\ w \in Worker
  /\ w.pc # "idle" => w.c \in Clusters
  /\ w.pc \in {"finalizer", "prepare", "write", "deletion"} =>
       w.key \in Keys /\ profiles[ProfileOf[w.c]] # None

ClusterType ==
  /\ stage \in [Clusters -> {"absent", "live", "deleting"}]
  /\ fins \in [Clusters -> SUBSET {"own", "foreign"}]
  /\ label \in [Clusters -> Names \cup {None}]
  /\ op \in [Clusters -> {"none", "ignore", "reconcile"}]

StatusType ==
  /\ ref \in [Clusters -> Refs \cup {None}]
  /\ cons \in [Clusters -> SUBSET Conditions]
  /\ phase \in [Clusters -> {"none", "Ready", "Progressing", "Terminating"}]

RegistryType ==
  /\ profiles \in [Profiles -> Specs \cup {None}]
  /\ published \in SUBSET Profiles
  /\ landscapes \in [Landscapes -> {"unknown", "noclient", "ready"}]
  /\ watch \in SUBSET Landscapes

\* Every variable has its type, and the worker what its next call needs.
TypeOK ==
  /\ ClusterType /\ StatusType /\ RegistryType /\ WorkerType
  /\ shoots \in [Keys -> Shoots \cup {None}]
  /\ queue \in SUBSET Clusters
  /\ faults \in 0..MaxFaults

Init ==
  /\ stage = [c \in Clusters |-> "absent"]
  /\ fins = [c \in Clusters |-> {}]
  /\ label = [c \in Clusters |-> None]
  /\ op = [c \in Clusters |-> "none"]
  /\ ref = [c \in Clusters |-> None]
  /\ cons = [c \in Clusters |-> {}]
  /\ phase = [c \in Clusters |-> "none"]
  /\ shoots = [k \in Keys |-> None]
  /\ profiles = [p \in Profiles |-> None]
  /\ published = {}
  /\ landscapes = [l \in Landscapes |-> "unknown"]
  /\ watch = {}
  /\ queue = {}
  /\ w = Idle
  /\ faults = 0

\* The registry and the ways it may change.
Reg == INSTANCE Registry

Fault == faults < MaxFaults /\ faults' = faults + 1
NoFault == UNCHANGED faults

-------------------------------------------------------------------------------
(***************************************************************************)
(* What the reconciler reads.                                              *)
(***************************************************************************)
\* Mutant of NameFor: the derived name does not depend on the Cluster.
NameForAnyCluster(c, n) ==
  IF n # None THEN n ELSE HashName[CHOOSE d \in Clusters : TRUE]

\* The shoot name of Cluster c if its label has value n.
NameFor(c, n) == IF n # None THEN n ELSE HashName[c]

ShootK8sNameFromCluster(c) == NameFor(c, label[c])

SpecOf(c) == profiles[ProfileOf[c]]

\* Mutant of GetShoot: only the shoot recorded in the status is looked up.
GetShootByStatus(c) ==
  IF ref[c] # None
  THEN {k \in {<<SpecOf(c).ls, ref[c][1], ref[c][2]>>} : shoots[k] # None}
  ELSE {}

\* The shoots GetShoot finds: the one recorded in the status if a name is
\* recorded there, otherwise those labelled with the Cluster in the project.
GetShoot(c) ==
  IF ref[c] # None
  THEN {k \in {<<SpecOf(c).ls, ref[c][1], ref[c][2]>>} : shoots[k] # None}
  ELSE {k \in Keys : /\ k[1] = SpecOf(c).ls /\ k[2] = SpecOf(c).ns
                     /\ shoots[k] # None /\ shoots[k].owner = c}

\* The key of the shoot that would be created.
NewKey(c) == <<SpecOf(c).ls, SpecOf(c).ns, ShootK8sNameFromCluster(c)>>

\* Mutant of computeK8sVersion: the configured version always wins.
ConfiguredVersion(configured, existing) == configured

computeK8sVersion(configured, existing) ==
  IF configured > existing THEN configured ELSE existing

\* Mutant of WithGardener: Gardener's conditions are not copied.
WithoutGardener(cs, shoot) == cs

\* Gardener's conditions are copied; a shoot without any leaves the old ones.
WithGardener(cs, shoot) ==
  CASE shoot.cond = "bad"  -> cs \cup {"Gardener"}
    [] shoot.cond = "good" -> cs \ {"Gardener"}
    [] OTHER               -> cs

ManagementTrue(cs) == cs \ {"Shoot", "ShootNotFound"}

ConditionFalse(cs, con) ==
  (IF con \in {"Shoot", "ShootNotFound"} THEN ManagementTrue(cs) ELSE cs) \cup {con}

-------------------------------------------------------------------------------
(***************************************************************************)
(* Starting a reconcile: the Cluster is read, a reconcile annotation is    *)
(* removed, profile and landscape are taken from the registry.             *)
(***************************************************************************)
Dequeue(c) ==
  /\ w.pc = "idle"
  /\ c \in queue

RemoveReconcileAnnotation(c) == op' = [op EXCEPT ![c] = "none"]

\* The object is gone, ignored, or of an unknown profile: nothing is done.
Skip(c) ==
  /\ Dequeue(c)
  /\ \/ stage[c] = "absent" /\ UNCHANGED op
     \/ stage[c] # "absent" /\ op[c] = "ignore" /\ UNCHANGED op
     \/ /\ stage[c] # "absent" /\ op[c] # "ignore" /\ SpecOf(c) = None
        /\ RemoveReconcileAnnotation(c)
  /\ queue' = queue \ {c}
  /\ UNCHANGED <<stage, fins, label, statusVars, shoots, registryVars, w, faults>>

\* The Get or the removal of the annotation fails: the request is retried.
StartFails(c) ==
  /\ Dequeue(c)
  /\ Fault
  /\ UNCHANGED <<clusterVars, statusVars, shoots, registryVars, queue, w>>

Started(c) ==
  /\ Dequeue(c)
  /\ stage[c] # "absent" /\ op[c] # "ignore" /\ SpecOf(c) # None
  /\ RemoveReconcileAnnotation(c)

\* What the worker knows of Cluster c when it starts.
Begin(c) == [Idle EXCEPT !.c = c, !.deleting = (stage[c] = "deleting"),
                         !.fins = fins[c], !.ref = ref[c], !.cons = cons[c]]

\* Mutant of StatusError: the condition of a failed step keeps its value.
StatusErrorWithoutCondition(r, con) == [r EXCEPT !.pc = "status", !.failed = TRUE]

StatusError(r, con) ==
  [r EXCEPT !.pc = "status", !.failed = TRUE, !.cons = ConditionFalse(@, con)]

UnknownLandscape(c) ==
  /\ Started(c)
  /\ landscapes[SpecOf(c).ls] = "unknown"
  /\ queue' = queue \ {c}
  /\ w' = StatusError(Begin(c), "Landscape")
  /\ NoFault
  /\ UNCHANGED <<stage, fins, label, statusVars, shoots, registryVars>>

\* A landscape that is registered without a client is dereferenced: the
\* reconcile panics, controller-runtime recovers and retries.
PanicOnMissingClient(c) ==
  /\ Started(c)
  /\ landscapes[SpecOf(c).ls] = "noclient"
  /\ NoFault
  /\ UNCHANGED <<stage, fins, label, statusVars, shoots, registryVars, queue, w>>

Ready(c) == Started(c) /\ landscapes[SpecOf(c).ls] = "ready"

\* The next call, once the shoot is known or known to be missing.
NextCall(c) == IF stage[c] = "deleting" THEN "deletion"
               ELSE IF "own" \in fins[c] THEN "prepare" ELSE "finalizer"

AfterLookup(c, k, shoot, cs) ==
  [Begin(c) EXCEPT !.pc = NextCall(c), !.key = k, !.seen = shoot, !.cons = cs]

\* The shoot exists.  The code sets ShootManagement to False with reason
\* ShootNotFound in exactly this case.
LookupFinds(c) ==
  /\ Ready(c)
  /\ \E k \in GetShoot(c) :
       /\ GetShoot(c) = {k}
       /\ w' = AfterLookup(c, k, shoots[k],
                 WithGardener(ConditionFalse(cons[c] \ {"Landscape"}, "ShootNotFound"),
                              shoots[k]))
  /\ queue' = queue \ {c}
  /\ NoFault
  /\ UNCHANGED <<stage, fins, label, statusVars, shoots, registryVars>>

NameConflict(c) == label[c] # None /\ shoots[NewKey(c)] # None

\* There is no shoot yet; a name taken from the label must be free.
LookupFindsNone(c) ==
  /\ Ready(c)
  /\ GetShoot(c) = {}
  /\ ~NameConflict(c)
  /\ w' = AfterLookup(c, NewKey(c), None, cons[c] \ {"Landscape"})
  /\ queue' = queue \ {c}
  /\ NoFault
  /\ UNCHANGED <<stage, fins, label, statusVars, shoots, registryVars>>

\* Two shoots carry the Cluster's labels, the name is taken, or a call fails.
LookupFails(c) ==
  /\ Ready(c)
  /\ \/ (\E k1, k2 \in GetShoot(c) : k1 # k2) /\ NoFault
     \/ GetShoot(c) = {} /\ NameConflict(c) /\ NoFault
     \/ Fault
  /\ queue' = queue \ {c}
  /\ w' = StatusError([Begin(c) EXCEPT !.cons = @ \ {"Landscape"}], "Shoot")
  /\ UNCHANGED <<stage, fins, label, statusVars, shoots, registryVars>>

Start(c) == \/ Skip(c) \/ StartFails(c) \/ UnknownLandscape(c)
            \/ PanicOnMissingClient(c) \/ LookupFinds(c)
            \/ LookupFindsNone(c) \/ LookupFails(c)

-------------------------------------------------------------------------------
(***************************************************************************)
(* Creating and updating.                                                  *)
(***************************************************************************)
\* The finalizer is added with a merge patch that replaces the whole list of
\* finalizers by the one read at the start.  The API server refuses a new
\* finalizer on an object in deletion.
AddFinalizer ==
  /\ w.pc = "finalizer"
  /\ \/ /\ stage[w.c] = "live"
        /\ fins' = [fins EXCEPT ![w.c] = w.fins \cup {"own"}]
        /\ w' = [w EXCEPT !.pc = "prepare", !.fins = @ \cup {"own"}]
        /\ NoFault
     \/ /\ stage[w.c] # "live"
        /\ w' = StatusError(w, "Meta")
        /\ UNCHANGED fins /\ NoFault
     \/ /\ w' = StatusError(w, "Meta")
        /\ UNCHANGED fins /\ Fault
  /\ UNCHANGED <<stage, label, op, statusVars, shoots, registryVars, queue>>

\* ClusterConfigs are fetched, the shoot fields computed, labels set on the
\* Cluster (its response may show a deletion), and the shoot is recorded in
\* the status object - before the shoot is written.
Prepare ==
  /\ w.pc = "prepare"
  /\ \/ /\ \E d \in {w.deleting, stage[w.c] = "deleting"} :
             w' = [w EXCEPT !.pc = "write", !.deleting = d,
                            !.ref = <<w.key[2], w.key[3]>>,
                            !.cons = @ \ {"Config", "Meta"}]
        /\ NoFault
     \/ /\ \E con \in {"Config", "Shoot", "Meta"} : w' = StatusError(w, con)
        /\ Fault
  /\ UNCHANGED <<clusterVars, statusVars, shoots, registryVars, queue>>

\* The shoot as UpdateShootFields leaves it.
UpdateShootFields ==
  LET configured == SpecOf(w.c).ver
  IN  IF w.seen = None
      THEN [owner |-> w.c, deleting |-> FALSE, ver |-> configured, cond |-> "none"]
      ELSE [w.seen EXCEPT !.owner = w.c,
                          !.ver = computeK8sVersion(configured, w.seen.ver)]

\* Create fails if the name is taken, Update if the shoot has changed since it
\* was read (resourceVersion).
WriteSucceeds == shoots[w.key] = w.seen

\* An update that changes nothing is not sent, and so cannot conflict.
WriteShoot ==
  /\ w.pc = "write"
  /\ \/ /\ w.seen # None /\ UpdateShootFields = w.seen
        /\ w' = [w EXCEPT !.pc = "observe", !.cons = ManagementTrue(@)]
        /\ UNCHANGED shoots /\ NoFault
     \/ /\ UpdateShootFields # w.seen /\ WriteSucceeds
        /\ shoots' = [shoots EXCEPT ![w.key] = UpdateShootFields]
        /\ \/ w' = [w EXCEPT !.pc = "observe", !.cons = ManagementTrue(@)] /\ NoFault
           \/ w' = StatusError(w, "Shoot") /\ Fault
     \/ /\ UpdateShootFields # w.seen
        /\ \/ ~WriteSucceeds /\ NoFault
           \/ Fault
        /\ w' = StatusError(w, "Shoot")
        /\ UNCHANGED shoots
  /\ UNCHANGED <<clusterVars, statusVars, registryVars, queue>>

\* The observability resources are written or removed.
Observe ==
  /\ w.pc = "observe"
  /\ \/ w' = [w EXCEPT !.pc = "status", !.cons = @ \ {"Observability"}] /\ NoFault
     \/ w' = StatusError(w, "Observability") /\ Fault
  /\ UNCHANGED <<clusterVars, statusVars, shoots, registryVars, queue>>

-------------------------------------------------------------------------------
(***************************************************************************)
(* Deleting.                                                               *)
(***************************************************************************)
\* Mutant of HasForeignFinalizers: the check is forgotten.
NeverHasForeignFinalizers == FALSE

HasForeignFinalizers == "foreign" \in w.fins

PostponeDeletion ==
  /\ w.pc = "deletion"
  /\ HasForeignFinalizers
  /\ w' = [w EXCEPT !.pc = "status", !.cons = ConditionFalse(@, "Foreign")]
  /\ UNCHANGED <<clusterVars, statusVars, shoots, registryVars, queue, faults>>

\* The shoot is confirmed for deletion and deleted unless that happened before;
\* then the reconcile ends and relies on the watch to be called again.
DeleteShoot ==
  LET waiting == [w EXCEPT !.pc = "status",
                           !.cons = ConditionFalse(@ \ {"Foreign"}, "Shoot")]
  IN
  /\ w.pc = "deletion"
  /\ ~HasForeignFinalizers
  /\ w.seen # None
  /\ \/ w.seen.deleting /\ w' = waiting /\ UNCHANGED shoots /\ NoFault
     \/ /\ ~w.seen.deleting /\ shoots[w.key] # None
        /\ shoots' = [shoots EXCEPT ![w.key].deleting = TRUE]
        /\ w' = waiting /\ NoFault
     \/ /\ ~w.seen.deleting /\ shoots[w.key] = None
        /\ w' \in {waiting, StatusError([w EXCEPT !.cons = @ \ {"Foreign"}], "Shoot")}
        /\ UNCHANGED shoots /\ NoFault
     \/ /\ ~w.seen.deleting
        /\ w' = StatusError([w EXCEPT !.cons = @ \ {"Foreign"}], "Shoot")
        /\ UNCHANGED shoots /\ Fault
  /\ UNCHANGED <<clusterVars, statusVars, registryVars, queue>>

\* The object disappears from the platform cluster.
Remove(c) ==
  /\ stage' = [stage EXCEPT ![c] = "absent"]
  /\ fins' = [fins EXCEPT ![c] = {}]
  /\ label' = [label EXCEPT ![c] = None]
  /\ op' = [op EXCEPT ![c] = "none"]
  /\ ref' = [ref EXCEPT ![c] = None]
  /\ cons' = [cons EXCEPT ![c] = {}]
  /\ phase' = [phase EXCEPT ![c] = "none"]

\* Events of a Cluster that carries the ignore annotation are filtered out.
Enqueue(c) == queue' = IF op[c] = "ignore" THEN queue ELSE queue \cup {c}

\* Without a shoot the owner references on ClusterConfigs and the finalizer
\* are removed; the object is gone, so no status is written.
ReleaseCluster ==
  /\ w.pc = "deletion"
  /\ ~HasForeignFinalizers
  /\ w.seen = None
  /\ \/ /\ stage[w.c] # "absent"
        /\ Remove(w.c)
        /\ Enqueue(w.c)
        /\ w' = Idle /\ NoFault
     \/ /\ \/ Fault
           \/ stage[w.c] = "absent" /\ NoFault
        /\ \E con \in {"Config", "Meta"} :
             w' = StatusError([w EXCEPT !.cons = @ \ {"Foreign"}], con)
        /\ UNCHANGED <<clusterVars, statusVars, queue>>
  /\ UNCHANGED <<shoots, registryVars>>

-------------------------------------------------------------------------------
PhaseOf(r) == IF r.deleting THEN "Terminating"
              ELSE IF r.cons = {} THEN "Ready" ELSE "Progressing"

\* The status is patched, also after an error; an error is retried.
UpdateStatus ==
  /\ w.pc = "status"
  /\ \/ /\ stage[w.c] # "absent"
        /\ ref' = [ref EXCEPT ![w.c] = w.ref]
        /\ cons' = [cons EXCEPT ![w.c] = w.cons]
        /\ phase' = [phase EXCEPT ![w.c] = PhaseOf(w)]
        /\ queue' = IF w.failed THEN queue \cup {w.c} ELSE queue
        /\ NoFault
     \/ /\ \/ stage[w.c] = "absent" /\ NoFault
           \/ Fault
        /\ queue' = queue \cup {w.c}
        /\ UNCHANGED statusVars
  /\ w' = Idle
  /\ UNCHANGED <<clusterVars, shoots, registryVars>>

Step == \/ AddFinalizer \/ Prepare \/ WriteShoot \/ Observe
        \/ PostponeDeletion \/ DeleteShoot \/ ReleaseCluster \/ UpdateStatus

\* The process dies between two calls and starts again: memory is lost, and
\* the initial list of the Cluster watch enqueues what is not ignored.
Crash ==
  /\ "crash" \in Env
  /\ Fault
  /\ w' = Idle
  /\ Reg!Restart
  /\ queue' = {c \in Clusters : stage[c] # "absent" /\ op[c] # "ignore"}
  /\ UNCHANGED <<clusterVars, statusVars, shoots>>

-------------------------------------------------------------------------------
(***************************************************************************)
(* The registry, as the Landscape and ProviderConfig controllers change it *)
(* under the write lock: in the steps of module Registry, which            *)
(* RuntimeConfig refines.                                                  *)
(***************************************************************************)
\* Mutant of UsersOf: nobody is notified.
NobodyUses(p) == {}

UsersOf(p) == {c \in Clusters : ProfileOf[c] = p /\ stage[c] # "absent"}

\* A profile is registered or updated and its Clusters are notified.  If
\* listing them fails, only the creation of a ClusterProfile wakes them: the
\* retry finds the profile registered and unchanged.
RegisterProfile(p) ==
  /\ w.pc = "idle"
  /\ \E s \in ProfileSpecs[p] :
       /\ profiles[p] # s
       /\ profiles[p] # None => "reprofile" \in Env
       /\ Reg!Register(p, s)
  /\ \/ queue' = queue \cup UsersOf(p) /\ NoFault
     \/ /\ "listfails" \in Env /\ Fault
        /\ queue' = IF p \in published THEN queue ELSE queue \cup UsersOf(p)
  /\ UNCHANGED <<clusterVars, statusVars, shoots, w>>

\* A ProviderConfig is deleted or ignored; nothing checks that Clusters still
\* use its profile.  As calls fail, profile and ClusterProfile can part ways.
\* Clusters are woken by the ClusterProfile.
DropProfile(p) ==
  /\ "dropprofile" \in Env
  /\ w.pc = "idle"
  /\ Reg!Unregister(p) \/ Reg!Publish(p)
  /\ queue' = IF published' = published THEN queue ELSE queue \cup UsersOf(p)
  /\ UNCHANGED <<clusterVars, statusVars, shoots, w, faults>>

\* A landscape is registered (again).  Its old informer is stopped, the new
\* one lists the shoots later: "gap" lets events get lost in between.
SetLandscape(l) ==
  /\ w.pc = "idle"
  /\ landscapes[l] = "ready" => "reregister" \in Env
  /\ Reg!SetLandscape(l)
  /\ watch' = IF "gap" \in Env THEN watch \ {l} ELSE watch \cup {l}
  /\ UNCHANGED <<clusterVars, statusVars, shoots, queue, w, faults>>

\* A landscape is removed, or stays registered without a client.
LoseLandscape(l) ==
  /\ "landscapes" \in Env
  /\ w.pc = "idle"
  /\ Reg!LoseLandscape(l)
  /\ UNCHANGED <<clusterVars, statusVars, shoots, queue, w, faults>>

\* The new informer has listed the shoots; it has no handler for additions.
WatchSynced(l) ==
  /\ landscapes[l] = "ready" /\ l \notin watch
  /\ Reg!SetLandscape(l)
  /\ watch' = watch \cup {l}
  /\ UNCHANGED <<clusterVars, statusVars, shoots, queue, w, faults>>

-------------------------------------------------------------------------------
(***************************************************************************)
(* Gardener.                                                               *)
(***************************************************************************)
\* Mutant of ShootEvent: the watch does not wake the controller.
ShootEventLost(k) == UNCHANGED queue

\* The owner of the shoot is enqueued if the landscape's watch is running.
ShootEvent(k) ==
  queue' = IF k[1] \in watch THEN queue \cup {shoots[k].owner} ELSE queue

\* The health of the shoot changes.
ShootCondition(k) ==
  /\ "health" \in Env
  /\ shoots[k] # None
  /\ \E v \in {"bad", "good"} \ {shoots[k].cond} :
       shoots' = [shoots EXCEPT ![k].cond = v]
  /\ ShootEvent(k)
  /\ UNCHANGED <<clusterVars, statusVars, registryVars, w, faults>>

\* Gardener's maintenance raises the kubernetes version; no event follows.
ShootUpgrade(k) ==
  /\ "upgrade" \in Env
  /\ shoots[k] # None /\ shoots[k].ver < MaxVersion
  /\ shoots' = [shoots EXCEPT ![k].ver = @ + 1]
  /\ UNCHANGED <<clusterVars, statusVars, registryVars, queue, w, faults>>

\* Somebody deletes the shoot in Gardener; a deletion timestamp is no event.
ShootDeletedByUser(k) ==
  /\ "gardendelete" \in Env
  /\ shoots[k] # None /\ ~shoots[k].deleting
  /\ shoots' = [shoots EXCEPT ![k].deleting = TRUE]
  /\ UNCHANGED <<clusterVars, statusVars, registryVars, queue, w, faults>>

\* Gardener has removed the shoot.  If the informer learns of it only from a
\* new list, it hands a tombstone to the filter function, which drops it.
ShootGone(k) ==
  /\ shoots[k] # None /\ shoots[k].deleting
  /\ shoots' = [shoots EXCEPT ![k] = None]
  /\ \/ ShootEvent(k)
     \/ "tombstone" \in Env /\ UNCHANGED queue
  /\ UNCHANGED <<clusterVars, statusVars, registryVars, w, faults>>

-------------------------------------------------------------------------------
(***************************************************************************)
(* Users and other controllers on the platform cluster.                    *)
(***************************************************************************)
CreateCluster(c) ==
  /\ stage[c] = "absent"
  /\ stage' = [stage EXCEPT ![c] = "live"]
  /\ \E n \in LabelNames[c] : label' = [label EXCEPT ![c] = n]
  /\ queue' = queue \cup {c}
  /\ UNCHANGED <<fins, op, statusVars, shoots, registryVars, w, faults>>

\* Without finalizers the object is removed at once.
DeleteCluster(c) ==
  /\ stage[c] = "live"
  /\ \/ /\ fins[c] # {}
        /\ stage' = [stage EXCEPT ![c] = "deleting"]
        /\ UNCHANGED <<fins, label, op, statusVars>>
     \/ fins[c] = {} /\ Remove(c)
  /\ Enqueue(c)
  /\ UNCHANGED <<shoots, registryVars, w, faults>>

\* A change of labels does not enqueue the Cluster.
Relabel(c) ==
  /\ "relabel" \in Env
  /\ stage[c] # "absent"
  /\ \E n \in LabelNames[c] \ {label[c]} : label' = [label EXCEPT ![c] = n]
  /\ UNCHANGED <<stage, fins, op, statusVars, shoots, registryVars, queue, w, faults>>

AddForeignFinalizer(c) ==
  /\ "foreign" \in Env
  /\ stage[c] = "live" /\ "foreign" \notin fins[c]
  /\ fins' = [fins EXCEPT ![c] = @ \cup {"foreign"}]
  /\ UNCHANGED <<stage, label, op, statusVars, shoots, registryVars, queue, w, faults>>

\* Losing a finalizer in deletion is an event; losing the last is the end.
RemoveForeignFinalizer(c) ==
  /\ "foreign" \in fins[c]
  /\ \/ /\ stage[c] = "deleting" /\ fins[c] = {"foreign"}
        /\ Remove(c) /\ Enqueue(c)
     \/ /\ stage[c] = "live" \/ fins[c] # {"foreign"}
        /\ fins' = [fins EXCEPT ![c] = @ \ {"foreign"}]
        /\ IF stage[c] = "deleting" THEN Enqueue(c) ELSE UNCHANGED queue
        /\ UNCHANGED <<stage, label, op, statusVars>>
  /\ UNCHANGED <<shoots, registryVars, w, faults>>

\* The operation annotation is changed: gaining "reconcile" and losing
\* "ignore" are events.
Annotate(c) ==
  /\ "annotate" \in Env
  /\ stage[c] # "absent"
  /\ \E v \in {"none", "ignore", "reconcile"} \ {op[c]} :
       /\ op' = [op EXCEPT ![c] = v]
       /\ queue' = IF v = "reconcile" \/ (op[c] = "ignore" /\ v # "ignore")
                   THEN queue \cup {c} ELSE queue
  /\ UNCHANGED <<stage, fins, label, statusVars, shoots, registryVars, w, faults>>

\* The spec of the Cluster, its ClusterProfile or one of its ClusterConfigs
\* has a new generation.
GenerationChanged(c) ==
  /\ "generation" \in Env
  /\ stage[c] # "absent"
  /\ Enqueue(c)
  /\ UNCHANGED <<clusterVars, statusVars, shoots, registryVars, w, faults>>

Registry == \/ \E p \in Profiles : RegisterProfile(p) \/ DropProfile(p)
            \/ \E l \in Landscapes : SetLandscape(l) \/ LoseLandscape(l) \/ WatchSynced(l)

Gardener == \E k \in Keys : \/ ShootCondition(k) \/ ShootUpgrade(k)
                            \/ ShootDeletedByUser(k) \/ ShootGone(k)

Users == \E c \in Clusters : \/ CreateCluster(c) \/ DeleteCluster(c) \/ Relabel(c)
                             \/ AddForeignFinalizer(c) \/ RemoveForeignFinalizer(c)
                             \/ Annotate(c) \/ GenerationChanged(c)

Next == \/ \E c \in Clusters : Start(c)
        \/ Step \/ Crash \/ Registry \/ Gardener \/ Users

Spec == Init /\ [][Next]_vars

(***************************************************************************)
(* Fairness.  The work queue is first-in first-out, so a pending request   *)
(* is eventually taken; a reconcile that has started goes on; Gardener     *)
(* removes shoots it was told to delete; the other two controllers         *)
(* register what exists; foreign finalizers are removed by their owners    *)
(* from Clusters in deletion.                                              *)
(***************************************************************************)
Fairness ==
  /\ \A c \in Clusters : SF_vars(Start(c))
  /\ WF_vars(Step)
  /\ \A k \in Keys : WF_vars(ShootGone(k))
  /\ \A l \in Landscapes : /\ SF_vars(SetLandscape(l) /\ landscapes[l] # "ready")
                           /\ WF_vars(WatchSynced(l))
  /\ \A p \in Profiles : SF_vars(RegisterProfile(p) /\ profiles[p] = None)
  /\ \A c \in Clusters : WF_vars(RemoveForeignFinalizer(c) /\ stage[c] = "deleting")

FairSpec == Spec /\ Fairness

-------------------------------------------------------------------------------
(***************************************************************************)
(* Properties.                                                             *)
(***************************************************************************)
ShootsOf(c) == {k \in Keys : shoots[k] # None /\ shoots[k].owner = c}

\* No shoot is left behind: the Cluster whose labels a shoot carries exists and
\* holds the provider's finalizer (AddFinalizer before Create; the finalizer is
\* only removed once GetShoot finds nothing).
NoOrphanedShoot ==
  \A k \in Keys : shoots[k] # None =>
    /\ stage[shoots[k].owner] # "absent"
    /\ "own" \in fins[shoots[k].owner]

\* "there should never be more than one" shoot that references a Cluster
\* (GetShoot, shoot.go:83).
OneShootPerCluster ==
  \A c \in Clusters : \A k1, k2 \in ShootsOf(c) : k1 = k2

\* A Cluster that reports Ready has a shoot: the one recorded in its status.
ReadyHasShoot ==
  \A c \in Clusters :
    phase[c] = "Ready" /\ stage[c] = "live" =>
      \E k \in ShootsOf(c) : ref[c] = <<k[2], k[3]>>

\* A condition with reason ShootNotFound ("Shoot does not exist yet") is only
\* reported while the Cluster has no shoot.
ShootNotFoundIsTrue ==
  \A c \in Clusters : "ShootNotFound" \in cons[c] => ShootsOf(c) = {}

\* No request is pending for Cluster c, which exists, is not ignored and has a
\* profile.
Unattended(c) ==
  c \notin queue /\ op[c] # "ignore" /\ stage[c] # "absent" /\ SpecOf(c) # None

\* What the controller owes Cluster c: a shoot of at least the version its profile
\* asks for, or, in deletion, that the shoot was told to go once nobody else holds
\* the Cluster.
Served(c) ==
  /\ stage[c] = "live" => \E k \in ShootsOf(c) : shoots[k].ver >= SpecOf(c).ver
  /\ stage[c] = "deleting" /\ "foreign" \notin fins[c] =>
       \E k \in ShootsOf(c) : shoots[k].deleting

\* No wake-up is lost: a Cluster that is not enqueued and not being reconciled has
\* what it is owed (the watches of SetupWithManager, the retry after an error, and
\* the notification of Clusters by the ProviderConfig controller).
SettledIsServed == \A c \in Clusters : Unattended(c) /\ w.c # c => Served(c)

\* The kubernetes version of a shoot is never lowered, although Gardener raises
\* it between the read and the update (UpdateShootFields, computeK8sVersion).
VersionNeverLowered ==
  [][\A k \in Keys : shoots[k] # None /\ shoots'[k] # None
                        => shoots'[k].ver >= shoots[k].ver]_vars

\* A shoot never changes hands: the labels that name its Cluster stay.
ShootNeverTakenOver ==
  [][\A k \in Keys : shoots[k] # None /\ shoots'[k] # None
                        => shoots'[k].owner = shoots[k].owner]_vars

\* The controller deletes a shoot only for a Cluster that is itself in deletion
\* and has no foreign finalizer at that moment - not merely when it was read.
DeletionIsWanted ==
  [][\A k \in Keys :
       /\ w # w' /\ shoots[k] # None /\ shoots'[k] # None
       /\ ~shoots[k].deleting /\ shoots'[k].deleting
       => /\ stage[shoots[k].owner] = "deleting"
          /\ "foreign" \notin fins[shoots[k].owner]]_vars

\* The Clusters the provider holds, and the state of their shoots.
Held == {c \in Clusters : "own" \in fins[c]}

ShootState(c) ==
  IF ShootsOf(c) = {} THEN "none"
  ELSE IF \E k \in ShootsOf(c) : shoots[k].deleting THEN "terminating"
  ELSE "running"

\* With names and homes of their own, the controller implements the promise of
\* ShootLifecycle.
Lifecycle == INSTANCE ShootLifecycle WITH
  held <- Held, shoot <- [c \in Clusters |-> ShootState(c)]

\* Every step of the controller, of Gardener and of the users is a step of
\* ShootLifecycle or changes nothing of it.
ImplementsLifecycle == Lifecycle!Spec

\* A Cluster in deletion is eventually gone.
DeletionCompletes ==
  \A c \in Clusters : stage[c] = "deleting" ~> stage[c] = "absent"

\* A live Cluster gets a shoot of at least the configured version, once the health
\* of shoots comes to rest: every change of it lets a concurrent update fail.
ShootFollowsProfile ==
  <>[][\A k \in Keys : shoots[k] # None /\ shoots'[k] # None
                         => shoots'[k].cond = shoots[k].cond]_vars =>
  \A c \in Clusters : \A s \in ProfileSpecs[ProfileOf[c]] :
    (stage[c] = "live" /\ SpecOf(c) = s)
      ~> (\/ stage[c] # "live" \/ SpecOf(c) # s
          \/ \E k \in ShootsOf(c) : shoots[k].ver >= s.ver)

\* Bad health of a shoot reaches the phase of its Cluster.
HealthIsReported ==
  \A k \in Keys : \A c \in Clusters :
    (k \in ShootsOf(c) /\ shoots[k].cond = "bad")
      ~> (\/ k \notin ShootsOf(c) \/ shoots[k].cond # "bad"
          \/ phase[c] # "Ready")
=============================================================================
