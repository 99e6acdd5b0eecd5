---------------------------- MODULE ClusterInvariant ----------------------------
(***************************************************************************)
(* The inductive invariant of ClusterController for Clusters whose shoot   *)
(* name never changes and profiles that stay in one landscape and project. *)
(***************************************************************************)
EXTENDS ClusterController

\* The label of a Cluster never changes the name of its shoot.
StableNames ==
  \A c \in Clusters : \A m, n \in LabelNames[c] : NameFor(c, m) = NameFor(c, n)

\* The landscape and the project of a profile never change.
FixedHomes ==
  \A p \in Profiles : \A s, t \in ProfileSpecs[p] : s.ls = t.ls /\ s.ns = t.ns

\* Different Clusters have different shoot names.
DistinctNames ==
  \A c, d \in Clusters : c # d =>
    \A m \in LabelNames[c], n \in LabelNames[d] : NameFor(c, m) # NameFor(d, n)

\* The only place where Cluster c may have its shoot.
HomeRef(c, r) ==
  /\ \A s \in ProfileSpecs[ProfileOf[c]] : r[1] = s.ns
  /\ \A n \in LabelNames[c] : r[2] = NameFor(c, n)

HomeKey(c, k) ==
  /\ \A s \in ProfileSpecs[ProfileOf[c]] : k[1] = s.ls /\ k[2] = s.ns
  /\ \A n \in LabelNames[c] : k[3] = NameFor(c, n)

RegistryInv == \A p \in Profiles : profiles[p] \in ProfileSpecs[p] \cup {None}

ClusterInv ==
  \A c \in Clusters :
    /\ stage[c] # "absent" => label[c] \in LabelNames[c]
    /\ stage[c] = "deleting" => fins[c] # {}
    /\ ref[c] # None => HomeRef(c, ref[c])

ShootInv ==
  \A k \in Keys : shoots[k] # None =>
    /\ HomeKey(shoots[k].owner, k)
    /\ stage[shoots[k].owner] # "absent"
    /\ "own" \in fins[shoots[k].owner]

WorkerInv ==
  /\ w.ref # None => HomeRef(w.c, w.ref)
  /\ w.pc \in {"finalizer", "prepare", "write", "deletion"} =>
       w.key \in Keys /\ HomeKey(w.c, w.key)
  /\ w.pc \in {"prepare", "write"} =>
       stage[w.c] # "absent" /\ "own" \in fins[w.c]
  /\ w.pc = "deletion" /\ w.seen = None => ShootsOf(w.c) = {}
  /\ w.pc = "deletion" /\ "foreign" \notin w.fins =>
       stage[w.c] = "deleting" /\ fins[w.c] = {"own"}

\* The registry, the Clusters, the shoots and the worker agree: every shoot is at
\* the home of a Cluster that holds the finalizer, and the worker only creates a
\* shoot for, or releases, a Cluster for which that is sound.
IInv == TypeOK /\ RegistryInv /\ ClusterInv /\ ShootInv /\ WorkerInv
(***************************************************************************)
(* What it takes for a Cluster that reports Ready to have a shoot, if only *)
(* the controller deletes shoots.                                          *)
(***************************************************************************)
\* A shoot is only in deletion together with its Cluster.
ShootsWanted ==
  \A k \in Keys : shoots[k] # None /\ shoots[k].deleting =>
    stage[shoots[k].owner] = "deleting"

\* A Cluster that is created again has no phase yet.
PhaseInv == \A c \in Clusters : stage[c] = "absent" => phase[c] = "none"

HasShoot(c, r) == \E k \in ShootsOf(c) : r = <<k[2], k[3]>>

\* The worker has written the shoot and, unless a call fails, will publish Ready.
WillReport == w.pc = "observe" \/ (w.pc = "status" /\ w.cons = {} /\ ~w.deleting)

\* A worker that creates a finalizer has seen no shoot; as long as the Cluster is
\* live, the shoot it has seen is still there, and the one it has written too.
WorkerReadyInv ==
  /\ w.pc = "finalizer" => w.seen = None
  /\ w.pc \in {"prepare", "write"} /\ w.seen # None /\ stage[w.c] = "live" =>
       shoots[w.key] # None
  /\ w.pc = "write" => w.ref = <<w.key[2], w.key[3]>>
  /\ WillReport => /\ stage[w.c] # "absent" /\ "own" \in fins[w.c]
                   /\ stage[w.c] = "live" => HasShoot(w.c, w.ref)

ReadyInv == IInv /\ ShootsWanted /\ PhaseInv /\ ReadyHasShoot /\ WorkerReadyInv
(***************************************************************************)
(* What it takes that no wake-up is lost, if every event of a shoot and    *)
(* every notification of the Clusters of a profile is delivered.           *)
(***************************************************************************)
\* The ways in which events get lost are switched off.
NothingIsMissed == Env \cap {"gap", "landscapes", "tombstone", "listfails"} = {}

\* The landscape of a registered profile is watched.
WatchInv ==
  /\ \A l \in Landscapes : landscapes[l] = "ready" => l \in watch
  /\ \A p \in Profiles : profiles[p] # None => landscapes[profiles[p].ls] = "ready"

\* The shoot the worker has seen is still there, no older, and no less deleted.
SeenStands ==
  w.seen # None =>
    /\ shoots[w.key] # None /\ shoots[w.key].owner = w.c
    /\ shoots[w.key].ver >= w.seen.ver
    /\ w.seen.deleting => shoots[w.key].deleting

\* An idle worker has no Cluster.  As long as the Cluster of a busy one is not enqueued
\* again, it acts on what holds, and what it has done is what it owes.
WorkerServesInv ==
  /\ w.pc = "idle" => w.c = None
  /\ w.pc # "idle" /\ Unattended(w.c) =>
       /\ w.pc \in {"finalizer", "prepare", "write"} => stage[w.c] = "live" /\ SeenStands
       /\ w.pc = "deletion" => /\ stage[w.c] = "deleting" /\ SeenStands
                               /\ "foreign" \in w.fins => "foreign" \in fins[w.c]
       /\ w.pc \in {"observe", "status"} /\ ~w.failed => Served(w.c)

ServedInv == IInv /\ WatchInv /\ SettledIsServed /\ WorkerServesInv
=================================================================================
