------------------------------- MODULE Observability -------------------------------
(***************************************************************************)
(* Federation of a shoot's Prometheus metrics                              *)
(* (internal/controllers/cluster/observability.go): at the end of every    *)
(* reconcile of a live Cluster its monitoring credentials are copied from  *)
(* Gardener into a Secret on the platform cluster and a ScrapeConfig that  *)
(* refers to it is written - or both are removed, if the process was       *)
(* started without the switch.  Nothing watches any of these objects: who  *)
(* comes back is the reconcile that failed.                                *)
(*                                                                         *)
(* What a reconcile does before (lookup, finalizer, ClusterConfigs, shoot) *)
(* is the one step WriteShoot here; ClusterController has it in detail.    *)
(***************************************************************************)
EXTENDS Naturals

CONSTANTS
  Clusters,
  Secrets,     \* contents of a monitoring secret: credentials and address
  None,        \* no secret, no Cluster
  MaxFaults,   \* bound on failed calls and crashes
  Env          \* the environment behaviours that are switched on

ASSUME ConstantsAssumption ==
  /\ None \notin Clusters \cup Secrets
  /\ MaxFaults \in Nat

VARIABLES
  stage,    \* Cluster -> "absent", "live" or "deleting"
  held,     \* Clusters with the finalizer of the provider
  shoots,   \* Clusters that have a shoot
  leaving,  \* Clusters whose shoot is in deletion
  monitor,  \* Cluster -> the monitoring secret of its shoot, if it is usable
  auth,     \* Cluster -> the monitoring secret its copy has the credentials of
  scrape,   \* Cluster -> the one its ScrapeConfig has the address of
  ownerless,\* <<kind, Cluster>> of objects owned by a Cluster that is gone
  crd,      \* the ScrapeConfig CRD is installed
  enabled,  \* the process was started with the switch
  queue,    \* Clusters with a pending reconcile request
  w,        \* the worker
  faults    \* failures so far

clusterVars == <<stage, held>>
shootVars == <<shoots, leaving, monitor>>
objectVars == <<auth, scrape, ownerless>>
vars == <<clusterVars, shootVars, objectVars, crd, enabled, queue, w, faults>>

\* The worker: its next call, the Cluster, whether it saw a shoot, and the
\* credentials it read.
Idle == [pc |-> "idle", c |-> None, seen |-> FALSE, cred |-> None]

Worker == [pc : {"idle", "write", "check", "auth", "scrape", "noauth", "noscrape",
                 "deletion"},
           c : Clusters \cup {None}, seen : BOOLEAN, cred : Secrets \cup {None}]

\* Every variable has its type, and a busy worker what its next call needs.
TypeOK ==
  /\ stage \in [Clusters -> {"absent", "live", "deleting"}]
  /\ held \in SUBSET Clusters
  /\ shoots \in SUBSET Clusters
  /\ leaving \in SUBSET shoots
  /\ monitor \in [Clusters -> Secrets \cup {None}]
  /\ auth \in [Clusters -> Secrets \cup {None}]
  /\ scrape \in [Clusters -> Secrets \cup {None}]
  /\ ownerless \in SUBSET ({"auth", "scrape"} \X Clusters)
  /\ crd \in BOOLEAN /\ enabled \in BOOLEAN
  /\ queue \in SUBSET Clusters
  /\ w \in Worker
  /\ w.pc = "idle" => w.c = None
  /\ w.pc # "idle" => w.c \in Clusters
  /\ w.pc \in {"auth", "scrape"} => w.cred \in Secrets
  /\ faults \in 0..MaxFaults

Init ==
  /\ stage = [c \in Clusters |-> "absent"]
  /\ held = {} /\ shoots = {} /\ leaving = {}
  /\ monitor = [c \in Clusters |-> None]
  /\ auth = [c \in Clusters |-> None]
  /\ scrape = [c \in Clusters |-> None]
  /\ ownerless = {}
  /\ crd \in BOOLEAN /\ enabled \in BOOLEAN
  /\ queue = {}
  /\ w = Idle
  /\ faults = 0

Fault == faults < MaxFaults /\ faults' = faults + 1
NoFault == UNCHANGED faults

\* The reconcile goes on, ends, or ends with an error that is retried.
Go(pc) == w' = [w EXCEPT !.pc = pc] /\ UNCHANGED queue
Done == w' = Idle /\ UNCHANGED queue
Retry == w' = Idle /\ queue' = queue \cup {w.c}

-------------------------------------------------------------------------------
Start(c) ==
  /\ w.pc = "idle"
  /\ c \in queue
  /\ \/ stage[c] = "absent" /\ queue' = queue \ {c} /\ UNCHANGED w /\ NoFault
     \/ /\ stage[c] # "absent"
        /\ w' = [Idle EXCEPT !.pc = IF stage[c] = "live" THEN "write" ELSE "deletion",
                             !.c = c, !.seen = (c \in shoots)]
        /\ queue' = queue \ {c} /\ NoFault
     \/ Fault /\ UNCHANGED <<queue, w>>
  /\ UNCHANGED <<clusterVars, shootVars, objectVars, crd, enabled>>

\* Everything up to the shoot: it exists and the Cluster is held, or the
\* reconcile fails on the way.
WriteShoot ==
  /\ w.pc = "write"
  /\ \/ /\ stage[w.c] = "live" \/ w.c \in held
        /\ held' = held \cup {w.c}
        /\ shoots' = shoots \cup {w.c}
        /\ \/ Go(IF enabled THEN "check" ELSE "noauth") /\ NoFault
           \/ Retry /\ Fault
     \/ /\ (stage[w.c] # "live" /\ w.c \notin held /\ NoFault) \/ Fault
        /\ Retry
        /\ UNCHANGED <<held, shoots>>
  /\ UNCHANGED <<stage, leaving, monitor, objectVars, crd, enabled>>

\* Mutant of CheckMonitoring: a monitoring secret that does not exist yet is no
\* error, and nobody comes back for it.
CheckMonitoringOnce ==
  /\ w.pc = "check"
  /\ \/ /\ crd /\ monitor[w.c] # None
        /\ w' = [w EXCEPT !.pc = "auth", !.cred = monitor[w.c]]
        /\ UNCHANGED queue /\ NoFault
     \/ ~(crd /\ monitor[w.c] # None) /\ Done /\ NoFault
     \/ Retry /\ Fault
  /\ UNCHANGED <<clusterVars, shootVars, objectVars, crd, enabled>>

\* Mutant of CheckMonitoring: the secret is not looked at.
CheckMonitoringTrusting ==
  /\ w.pc = "check"
  /\ \/ /\ crd
        /\ w' = [w EXCEPT !.pc = "auth", !.cred = monitor[w.c]]
        /\ UNCHANGED queue /\ NoFault
     \/ ~crd /\ Retry /\ NoFault
     \/ Retry /\ Fault
  /\ UNCHANGED <<clusterVars, shootVars, objectVars, crd, enabled>>

\* Without the CRD, or without a usable monitoring secret, the reconcile fails.
CheckMonitoring ==
  /\ w.pc = "check"
  /\ \/ /\ crd /\ monitor[w.c] # None
        /\ w' = [w EXCEPT !.pc = "auth", !.cred = monitor[w.c]]
        /\ UNCHANGED queue /\ NoFault
     \/ ~(crd /\ monitor[w.c] # None) /\ Retry /\ NoFault
     \/ Retry /\ Fault
  /\ UNCHANGED <<clusterVars, shootVars, objectVars, crd, enabled>>

\* The copy is created, or taken over from a Cluster of the same name.
WriteAuth ==
  /\ w.pc = "auth"
  /\ \/ /\ auth' = [auth EXCEPT ![w.c] = w.cred]
        /\ ownerless' = ownerless \ {<<"auth", w.c>>}
        /\ \/ Go("scrape") /\ NoFault
           \/ Retry /\ Fault
     \/ Retry /\ Fault /\ UNCHANGED <<auth, ownerless>>
  /\ UNCHANGED <<clusterVars, shootVars, scrape, crd, enabled>>

WriteScrape ==
  /\ w.pc = "scrape"
  /\ \/ /\ crd
        /\ scrape' = [scrape EXCEPT ![w.c] = w.cred]
        /\ ownerless' = ownerless \ {<<"scrape", w.c>>}
        /\ \/ Done /\ NoFault
           \/ Retry /\ Fault
     \/ /\ (~crd /\ NoFault) \/ Fault
        /\ Retry /\ UNCHANGED <<scrape, ownerless>>
  /\ UNCHANGED <<clusterVars, shootVars, auth, crd, enabled>>

DeleteAuth ==
  /\ w.pc = "noauth"
  /\ \/ /\ auth' = [auth EXCEPT ![w.c] = None]
        /\ ownerless' = ownerless \ {<<"auth", w.c>>}
        /\ \/ Go("noscrape") /\ NoFault
           \/ Retry /\ Fault
     \/ Retry /\ Fault /\ UNCHANGED <<auth, ownerless>>
  /\ UNCHANGED <<clusterVars, shootVars, scrape, crd, enabled>>

\* Mutant of Unscraped: a ScrapeConfig is left behind.
UnscrapedNot(c) == scrape

Unscraped(c) == [scrape EXCEPT ![c] = None]

\* Without the CRD there can be no ScrapeConfig.
DeleteScrape ==
  /\ w.pc = "noscrape"
  /\ \/ /\ scrape' = Unscraped(w.c)
        /\ ownerless' = ownerless \ {<<"scrape", w.c>>}
        /\ \/ Done /\ NoFault
           \/ Retry /\ Fault
     \/ Retry /\ Fault /\ UNCHANGED <<scrape, ownerless>>
  /\ UNCHANGED <<clusterVars, shootVars, auth, crd, enabled>>

Objects(c) == {o \in {"auth", "scrape"} \X {c} :
                 IF o[1] = "auth" THEN auth[c] # None ELSE scrape[c] # None}

\* Mutant of OwnedBy: the ScrapeConfig has no owner reference.
OnlySecretOwnedBy(c) == Objects(c) \ {<<"scrape", c>>}

\* Both objects are written with an owner reference to the Cluster.
OwnedBy(c) == Objects(c)

\* The object disappears; what it owned has no owner any more.
Gone(c) ==
  /\ stage' = [stage EXCEPT ![c] = "absent"]
  /\ held' = held \ {c}
  /\ ownerless' = ownerless \cup OwnedBy(c)

\* A Cluster in deletion: its shoot is deleted; without one it is released.
\* The objects are not touched.
DeleteOrRelease ==
  /\ w.pc = "deletion"
  /\ \/ /\ w.seen
        /\ leaving' = leaving \cup ({w.c} \cap shoots)
        /\ \/ Done /\ NoFault
           \/ Retry /\ Fault
        /\ UNCHANGED <<clusterVars, ownerless>>
     \/ ~w.seen /\ Gone(w.c) /\ Done /\ NoFault /\ UNCHANGED leaving
     \/ Retry /\ Fault /\ UNCHANGED <<clusterVars, ownerless, leaving>>
  /\ UNCHANGED <<shoots, monitor, auth, scrape, crd, enabled>>

Step == \/ WriteShoot \/ CheckMonitoring \/ WriteAuth \/ WriteScrape
        \/ DeleteAuth \/ DeleteScrape \/ DeleteOrRelease

Restart ==
  /\ w' = Idle
  /\ queue' = {c \in Clusters : stage[c] # "absent"}
  /\ UNCHANGED <<clusterVars, shootVars, objectVars, crd>>

Crash == Restart /\ Fault /\ UNCHANGED enabled

\* The process is started again with the other value of the switch.
Switch == Restart /\ enabled' = ~enabled /\ NoFault

-------------------------------------------------------------------------------
(***************************************************************************)
(* Gardener, Kubernetes and the users.                                     *)
(***************************************************************************)
MonitoringSecret(c) ==
  /\ c \in shoots
  /\ monitor[c] = None \/ "rotate" \in Env
  /\ \E x \in Secrets \ {monitor[c]} : monitor' = [monitor EXCEPT ![c] = x]
  /\ UNCHANGED <<clusterVars, shoots, leaving, objectVars, crd, enabled, queue, w, faults>>

ShootDeletedByUser(c) ==
  /\ c \in shoots
  /\ leaving' = leaving \cup {c}
  /\ UNCHANGED <<clusterVars, shoots, monitor, objectVars, crd, enabled, queue, w, faults>>

ShootGone(c) ==
  /\ c \in leaving
  /\ shoots' = shoots \ {c} /\ leaving' = leaving \ {c}
  /\ monitor' = [monitor EXCEPT ![c] = None]
  /\ queue' = queue \cup {c}
  /\ UNCHANGED <<clusterVars, objectVars, crd, enabled, w, faults>>

\* Kubernetes collects an object whose owner is gone.
Collect(c) ==
  \/ /\ <<"auth", c>> \in ownerless
     /\ ownerless' = ownerless \ {<<"auth", c>>}
     /\ auth' = [auth EXCEPT ![c] = None]
     /\ UNCHANGED <<clusterVars, shootVars, scrape, crd, enabled, queue, w, faults>>
  \/ /\ <<"scrape", c>> \in ownerless
     /\ ownerless' = ownerless \ {<<"scrape", c>>}
     /\ scrape' = [scrape EXCEPT ![c] = None]
     /\ UNCHANGED <<clusterVars, shootVars, auth, crd, enabled, queue, w, faults>>

\* With its CRD every ScrapeConfig goes.
InstallCRD ==
  /\ \/ ~crd /\ crd' = TRUE /\ UNCHANGED <<scrape, ownerless>>
     \/ /\ "uninstall" \in Env
        /\ crd /\ crd' = FALSE
        /\ scrape' = [c \in Clusters |-> None]
        /\ ownerless' = ownerless \ ({"scrape"} \X Clusters)
  /\ UNCHANGED <<clusterVars, shootVars, auth, enabled, queue, w, faults>>

CreateCluster(c) ==
  /\ stage[c] = "absent"
  /\ stage' = [stage EXCEPT ![c] = "live"]
  /\ queue' = queue \cup {c}
  /\ UNCHANGED <<held, shootVars, objectVars, crd, enabled, w, faults>>

DeleteCluster(c) ==
  /\ stage[c] = "live"
  /\ \/ c \in held /\ stage' = [stage EXCEPT ![c] = "deleting"] /\ UNCHANGED <<held, ownerless>>
     \/ c \notin held /\ Gone(c)
  /\ queue' = queue \cup {c}
  /\ UNCHANGED <<shootVars, auth, scrape, crd, enabled, w, faults>>

Next == \/ \E c \in Clusters : \/ Start(c) \/ MonitoringSecret(c) \/ ShootDeletedByUser(c)
                               \/ ShootGone(c) \/ Collect(c)
                               \/ CreateCluster(c) \/ DeleteCluster(c)
        \/ Step \/ Crash \/ Switch \/ InstallCRD

Spec == Init /\ [][Next]_vars

(***************************************************************************)
(* Fairness: the work queue is first-in first-out, a reconcile that has    *)
(* started goes on, Gardener removes shoots, Kubernetes collects garbage.  *)
(***************************************************************************)
Fairness == /\ \A c \in Clusters : /\ SF_vars(Start(c))
                                   /\ WF_vars(ShootGone(c)) /\ WF_vars(Collect(c))
            /\ WF_vars(Step)

FairSpec == Spec /\ Fairness

-------------------------------------------------------------------------------
Pending(c) == c \in queue \/ w.c = c

AsConfigured(c) ==
  IF enabled THEN /\ monitor[c] # None
                  /\ auth[c] = monitor[c] /\ scrape[c] = monitor[c]
                  /\ ownerless \cap ({"auth", "scrape"} \X {c}) = {}
  ELSE auth[c] = None /\ scrape[c] = None

\* "The provider creates a ScrapeConfig and authentication Secret in each
\* Cluster's namespace when enabled.  When disabled, it removes generated
\* resources" (docs/config/setup.md:25): a live Cluster that nobody is about to
\* reconcile has them both, with the credentials and the address of its shoot and
\* owned by it, or has neither - whatever failed and however often the switch was
\* changed or the shoot or the Cluster replaced.
SettledIsAsConfigured ==
  \A c \in Clusters : stage[c] = "live" /\ ~Pending(c) => AsConfigured(c)

\* "deleting the Cluster also garbage-collects them" (docs/config/setup.md:27):
\* an object has an owner that exists, or will be collected.
NothingOutlivesCluster ==
  \A c \in Clusters : stage[c] = "absent" => Objects(c) \subseteq ownerless

\* Once the switch, the Clusters and the shoots come to rest, every live Cluster
\* is federated as soon as that is possible, or not at all, and of the others
\* nothing is left.
FederationFollowsSwitch ==
  <>[][UNCHANGED <<stage, monitor, crd, enabled>>]_vars =>
    <>[](\A c \in Clusters :
           /\ stage[c] = "live" /\ (enabled => crd /\ monitor[c] # None)
                => AsConfigured(c)
           /\ stage[c] = "absent" => Objects(c) = {})

-------------------------------------------------------------------------------
(***************************************************************************)
(* The inductive invariant.                                                *)
(***************************************************************************)
Federating == {"check", "auth", "scrape"}
Cleaning == {"noauth", "noscrape"}

\* The worker creates and removes objects only for a Cluster that holds the
\* finalizer; the objects of others are left to Kubernetes.
ObjectsAreHeld ==
  /\ \A c \in Clusters : /\ stage[c] = "deleting" => c \in held
                         /\ stage[c] = "absent" => c \notin held
                         /\ c \notin held => Objects(c) \subseteq ownerless
  /\ w.pc \in Federating \cup Cleaning => w.c \in held
  /\ w.pc = "deletion" => stage[w.c] = "deleting"

\* Half-way the first object is as it should be, and what was read of the shoot is
\* still true unless the Cluster is enqueued again.
HalfWay ==
  /\ w.pc \in Federating => enabled
  /\ w.pc \in Cleaning => ~enabled
  /\ w.pc \in {"auth", "scrape"} => monitor[w.c] = w.cred \/ w.c \in queue
  /\ w.pc = "scrape" => auth[w.c] = w.cred /\ <<"auth", w.c>> \notin ownerless
  /\ w.pc = "noscrape" => auth[w.c] = None

FederationInv == TypeOK /\ ObjectsAreHeld /\ HalfWay /\ SettledIsAsConfigured
=============================================================================
