------------------------------ MODULE ClusterConfigs ------------------------------
(***************************************************************************)
(* The ClusterConfigs a Cluster refers to: how the Cluster controller      *)
(* keeps its owner references on them (getClusterConfigs and the release   *)
(* in internal/controllers/cluster/controller.go), and how their           *)
(* extensions get into the shoot (UpdateShootFields, applyClusterConfigs). *)
(*                                                                         *)
(* The owner references do two jobs.  They tell the watch which Clusters   *)
(* to reconcile when a ClusterConfig changes; and they make Kubernetes     *)
(* collect a ClusterConfig whose owners are all gone, so they have to be   *)
(* removed before a Cluster goes.  A hash of the references, kept as an    *)
(* annotation of the Cluster, says whether they were corrected already.    *)
(*                                                                         *)
(* Profile, landscape, the lookup of the shoot and the status are those    *)
(* of ClusterController and always succeed here.                           *)
(***************************************************************************)
EXTENDS Naturals, Sequences

CONSTANTS
  Clusters, Configs,
  RefLists,   \* values of spec.clusterConfigs of a Cluster
  Exts,       \* types of extensions of a shoot
  Values,     \* configurations of an extension
  ContentsOf, \* ClusterConfig -> the contents it may be given
  Template,   \* extensions the shoot template of the profile lists
  Enforced,   \* extensions the profile enforces
  None,       \* no such object, extension or Cluster
  MaxFaults,  \* bound on failed calls and crashes
  Env         \* the environment behaviours that are switched on

\* A list of extensions: every type occurs at most once.
Extensions == [Exts -> Values \cup {None}]
NoExtension == [e \in Exts |-> None]
Elems(s) == {s[i] : i \in DOMAIN s}

ASSUME ConstantsAssumption ==
  /\ None \notin Clusters \cup Values \cup Extensions
  /\ RefLists \subseteq Seq(Configs)
  /\ ContentsOf \in [Configs -> (SUBSET Extensions) \ {{}}]
  /\ Template \in Extensions /\ Enforced \in Extensions
  /\ MaxFaults \in Nat

VARIABLES
  stage,    \* Cluster -> "absent", "live" or "deleting"
  held,     \* Clusters with the finalizer of the provider
  refs,     \* Cluster -> its spec.clusterConfigs
  hash,     \* Cluster -> the references its annotation is the hash of
  content,  \* ClusterConfig -> its extensions, None if it does not exist
  owners,   \* ClusterConfig -> Clusters it has an owner reference of
  shoot,    \* Cluster -> extensions of its shoot, None if there is no shoot
  leaving,  \* Clusters whose shoot is in deletion
  queue,    \* Clusters with a pending reconcile request
  w,        \* the worker
  faults    \* failures so far

clusterVars == <<stage, held, refs, hash>>
configVars == <<content, owners>>
shootVars == <<shoot, leaving>>
vars == <<clusterVars, configVars, shootVars, queue, w, faults>>

(***************************************************************************)
(* The worker: its next call (pc), the Cluster and what it read of it      *)
(* (refs, hash, the shoot seen), the ClusterConfigs it has yet to give up  *)
(* (drop), owner lists as read (listed), the reference it is at (i) and    *)
(* the extensions of the ClusterConfigs before it (ext).                   *)
(***************************************************************************)
Unlisted == [k \in Configs |-> {}]

Idle == [pc |-> "idle", c |-> None, refs |-> <<>>, hash |-> <<>>, seen |-> None,
         drop |-> {}, listed |-> Unlisted, i |-> 1, ext |-> NoExtension]

Worker == [pc : {"idle", "finalizer", "list", "drop", "fetch", "own", "hash",
                 "write", "deletion", "listall", "dropall", "release"},
           c : Clusters \cup {None}, refs : Seq(Configs), hash : Seq(Configs),
           seen : Extensions \cup {None}, drop : SUBSET Configs,
           listed : [Configs -> SUBSET Clusters], i : Nat \ {0},
           ext : Extensions]

\* Every variable has its type, and a busy worker what its next call needs.
TypeOK ==
  /\ stage \in [Clusters -> {"absent", "live", "deleting"}]
  /\ held \in SUBSET Clusters
  /\ refs \in [Clusters -> Seq(Configs)]
  /\ hash \in [Clusters -> Seq(Configs)]
  /\ content \in [Configs -> Extensions \cup {None}]
  /\ owners \in [Configs -> SUBSET Clusters]
  /\ shoot \in [Clusters -> Extensions \cup {None}]
  /\ leaving \in SUBSET Clusters
  /\ queue \in SUBSET Clusters
  /\ w \in Worker
  /\ w.pc = "idle" => w.c = None
  /\ w.pc # "idle" => w.c \in Clusters
  /\ w.pc \in {"fetch", "own"} => w.i \in DOMAIN w.refs
  /\ faults \in 0..MaxFaults

Init ==
  /\ stage = [c \in Clusters |-> "absent"]
  /\ held = {}
  /\ refs = [c \in Clusters |-> <<>>]
  /\ hash = [c \in Clusters |-> <<>>]
  /\ content = [k \in Configs |-> None]
  /\ owners = [k \in Configs |-> {}]
  /\ shoot = [c \in Clusters |-> None]
  /\ leaving = {}
  /\ queue = {}
  /\ w = Idle
  /\ faults = 0

Fault == faults < MaxFaults /\ faults' = faults + 1
NoFault == UNCHANGED faults

\* The reconcile ends: with success, or with an error that is retried.
Done == w' = Idle /\ UNCHANGED queue
Retry == w' = Idle /\ queue' = queue \cup {w.c}
Go(r) == w' = r /\ UNCHANGED queue

-------------------------------------------------------------------------------
(***************************************************************************)
(* Starting: the Cluster and its shoot are read.                           *)
(***************************************************************************)
\* getClusterConfigs: the list is only needed if the references have changed.
AfterFetching(r) == IF r.refs # r.hash THEN "hash" ELSE "write"

NextFetch(r) == IF r.i \in DOMAIN r.refs THEN "fetch" ELSE AfterFetching(r)

FirstCall(r) == IF r.refs # r.hash THEN "list" ELSE NextFetch(r)

Begin(c) == [Idle EXCEPT !.c = c, !.refs = refs[c], !.hash = hash[c], !.seen = shoot[c]]

Start(c) ==
  /\ w.pc = "idle"
  /\ c \in queue
  /\ \/ stage[c] = "absent" /\ queue' = queue \ {c} /\ UNCHANGED w /\ NoFault
     \/ /\ stage[c] = "live"
        /\ w' = [Begin(c) EXCEPT !.pc = IF c \in held THEN FirstCall(Begin(c))
                                                     ELSE "finalizer"]
        /\ queue' = queue \ {c} /\ NoFault
     \/ /\ stage[c] = "deleting"
        /\ w' = [Begin(c) EXCEPT !.pc = "deletion"]
        /\ queue' = queue \ {c} /\ NoFault
     \/ Fault /\ UNCHANGED <<queue, w>>
  /\ UNCHANGED <<clusterVars, configVars, shootVars>>

\* The response to the patch shows the Cluster as it is now.  An object that
\* is gone or in deletion gets no new finalizer.
AddFinalizer ==
  /\ w.pc = "finalizer"
  /\ \/ /\ stage[w.c] = "live"
        /\ held' = held \cup {w.c}
        /\ \/ LET r == [w EXCEPT !.refs = refs[w.c], !.hash = hash[w.c]]
              IN  Go([r EXCEPT !.pc = FirstCall(r)]) /\ NoFault
           \/ Retry /\ Fault
     \/ /\ (stage[w.c] # "live" /\ NoFault) \/ Fault
        /\ Retry
        /\ UNCHANGED held
  /\ UNCHANGED <<stage, refs, hash, configVars, shootVars>>

-------------------------------------------------------------------------------
(***************************************************************************)
(* Giving up ClusterConfigs: those no longer referenced, or, before the    *)
(* Cluster is released, all.                                               *)
(***************************************************************************)
\* Mutant of Unwanted: only ClusterConfigs that are still referenced are given
\* up before the release.
UnwantedOfReferenced ==
  IF w.pc = "list" THEN {k \in Configs : k \notin Elems(w.refs)} ELSE Elems(w.refs)

Unwanted == IF w.pc = "list" THEN {k \in Configs : k \notin Elems(w.refs)} ELSE Configs

\* The next call, once there is nothing (more) to give up.
Dropping(r) ==
  IF r.drop # {} THEN [r EXCEPT !.pc = IF @ \in {"list", "drop"} THEN "drop" ELSE "dropall"]
  ELSE [r EXCEPT !.listed = Unlisted,
                 !.pc = IF @ \in {"list", "drop"} THEN NextFetch(r) ELSE "release"]

List ==
  /\ w.pc \in {"list", "listall"}
  /\ \/ LET mine == {k \in Unwanted : content[k] # None /\ w.c \in owners[k]}
        IN  /\ Go(Dropping([w EXCEPT !.drop = mine,
                      !.listed = [k \in Configs |-> IF k \in mine THEN owners[k] ELSE {}]]))
            /\ NoFault
     \/ Retry /\ Fault
  /\ UNCHANGED <<clusterVars, configVars, shootVars>>

\* The merge patch replaces the owner references by those listed without the
\* own one; a ClusterConfig that was deleted meanwhile is an error.
DropOwner ==
  /\ w.pc \in {"drop", "dropall"}
  /\ \E k \in w.drop :
       \/ /\ content[k] # None
          /\ owners' = [owners EXCEPT ![k] = w.listed[k] \ {w.c}]
          /\ \/ Go(Dropping([w EXCEPT !.drop = @ \ {k}])) /\ NoFault
             \/ Retry /\ Fault
       \/ /\ (content[k] = None /\ NoFault) \/ Fault
          /\ Retry
          /\ UNCHANGED owners
  /\ UNCHANGED <<clusterVars, content, shootVars>>

-------------------------------------------------------------------------------
(***************************************************************************)
(* Fetching the referenced ClusterConfigs, one after the other.            *)
(***************************************************************************)
\* f with the entries of g written over it.
Overlay(f, g) == [e \in Exts |-> IF g[e] # None THEN g[e] ELSE f[e]]

\* The next reference, after the one at hand showed extensions x.
Fetched(x) ==
  LET r == [w EXCEPT !.i = @ + 1, !.ext = Overlay(@, x), !.listed = Unlisted]
  IN  [r EXCEPT !.pc = NextFetch(r)]

\* Mutant of Fetch: what is read before the owner reference is set counts.
FetchKeepingContent ==
  LET k == w.refs[w.i] IN
  /\ w.pc = "fetch"
  /\ \/ content[k] # None /\ w.c \in owners[k] /\ Go(Fetched(content[k])) /\ NoFault
     \/ /\ content[k] # None /\ w.c \notin owners[k] /\ NoFault
        /\ Go([w EXCEPT !.pc = "own", !.listed[k] = owners[k], !.ext = Overlay(@, content[k])])
     \/ content[k] = None /\ Retry /\ NoFault
     \/ Retry /\ Fault
  /\ UNCHANGED <<clusterVars, configVars, shootVars>>

\* A missing ClusterConfig is an error that is retried.
Fetch ==
  LET k == w.refs[w.i] IN
  /\ w.pc = "fetch"
  /\ \/ content[k] # None /\ w.c \in owners[k] /\ Go(Fetched(content[k])) /\ NoFault
     \/ /\ content[k] # None /\ w.c \notin owners[k] /\ NoFault
        /\ Go([w EXCEPT !.pc = "own", !.listed[k] = owners[k]])
     \/ content[k] = None /\ Retry /\ NoFault
     \/ Retry /\ Fault
  /\ UNCHANGED <<clusterVars, configVars, shootVars>>

\* The owner reference is added; the response shows the ClusterConfig as it is
\* now, also if it was changed since it was read.
AddOwner ==
  LET k == w.refs[w.i] IN
  /\ w.pc = "own"
  /\ \/ /\ content[k] # None
        /\ owners' = [owners EXCEPT ![k] = w.listed[k] \cup {w.c}]
        /\ \/ Go(Fetched(content[k])) /\ NoFault
           \/ Retry /\ Fault
     \/ /\ (content[k] = None /\ NoFault) \/ Fault
        /\ Retry
        /\ UNCHANGED owners
  /\ UNCHANGED <<clusterVars, content, shootVars>>

\* The hash is written last.
WriteHash ==
  /\ w.pc = "hash"
  /\ \/ /\ hash' = [hash EXCEPT ![w.c] = w.refs]
        /\ \/ Go([w EXCEPT !.pc = "write"]) /\ NoFault
           \/ Retry /\ Fault
     \/ Retry /\ Fault /\ UNCHANGED hash
  /\ UNCHANGED <<stage, held, refs, configVars, shootVars>>

\* The template replaces the list of a shoot if it has one itself; enforced
\* extensions and those of ClusterConfigs are added or replaced by type.
Merged(x) == IF Template # NoExtension \/ x = None THEN Template ELSE x
UpdateShootFields == Overlay(Overlay(Merged(w.seen), Enforced), w.ext)

WriteShoot ==
  /\ w.pc = "write"
  /\ \/ /\ shoot' = [shoot EXCEPT ![w.c] = UpdateShootFields]
        /\ \/ Done /\ NoFault
           \/ Retry /\ Fault
     \/ Retry /\ Fault /\ UNCHANGED shoot
  /\ UNCHANGED <<clusterVars, configVars, leaving>>

-------------------------------------------------------------------------------
(***************************************************************************)
(* Deleting.                                                               *)
(***************************************************************************)
\* A shoot that is there is deleted, and the reconcile ends; only without one
\* the Cluster is released.
DeleteShoot ==
  /\ w.pc = "deletion"
  /\ \/ /\ w.seen # None
        /\ leaving' = leaving \cup ({w.c} \cap {c \in Clusters : shoot[c] # None})
        /\ \/ Done /\ NoFault
           \/ Retry /\ Fault
     \/ w.seen = None /\ Go([w EXCEPT !.pc = "listall"]) /\ NoFault /\ UNCHANGED leaving
     \/ w.seen # None /\ Retry /\ Fault /\ UNCHANGED leaving
  /\ UNCHANGED <<clusterVars, configVars, shoot>>

\* The object disappears, and Kubernetes collects what only it owned.
Gone(c) ==
  /\ stage' = [stage EXCEPT ![c] = "absent"]
  /\ held' = held \ {c}
  /\ refs' = [refs EXCEPT ![c] = <<>>]
  /\ hash' = [hash EXCEPT ![c] = <<>>]
  /\ content' = [k \in Configs |-> IF owners[k] = {c} THEN None ELSE content[k]]
  /\ owners' = [k \in Configs |-> owners[k] \ {c}]

Release ==
  /\ w.pc = "release"
  /\ \/ Gone(w.c) /\ Done /\ NoFault
     \/ Gone(w.c) /\ Retry /\ Fault
     \/ Retry /\ Fault /\ UNCHANGED <<clusterVars, configVars>>
  /\ UNCHANGED shootVars

Step == \/ AddFinalizer \/ List \/ DropOwner \/ Fetch \/ AddOwner \/ WriteHash
        \/ WriteShoot \/ DeleteShoot \/ Release

\* A restart: the initial list of the Cluster watch enqueues what exists.
Crash ==
  /\ "crash" \in Env
  /\ Fault
  /\ w' = Idle
  /\ queue' = {c \in Clusters : stage[c] # "absent"}
  /\ UNCHANGED <<clusterVars, configVars, shootVars>>

-------------------------------------------------------------------------------
(***************************************************************************)
(* Gardener and the users.                                                 *)
(***************************************************************************)
\* Mutant of ShootGone: nobody is told.
ShootGoneUnnoticed(c) ==
  /\ c \in leaving
  /\ shoot' = [shoot EXCEPT ![c] = None]
  /\ leaving' = leaving \ {c}
  /\ UNCHANGED <<clusterVars, configVars, queue, w, faults>>

ShootGone(c) ==
  /\ c \in leaving
  /\ shoot' = [shoot EXCEPT ![c] = None]
  /\ leaving' = leaving \ {c}
  /\ queue' = queue \cup {c}
  /\ UNCHANGED <<clusterVars, configVars, w, faults>>

CreateCluster(c) ==
  /\ stage[c] = "absent"
  /\ stage' = [stage EXCEPT ![c] = "live"]
  /\ \E l \in RefLists : refs' = [refs EXCEPT ![c] = l]
  /\ queue' = queue \cup {c}
  /\ UNCHANGED <<held, hash, configVars, shootVars, w, faults>>

ChangeRefs(c) ==
  /\ stage[c] # "absent"
  /\ \E l \in RefLists \ {refs[c]} : refs' = [refs EXCEPT ![c] = l]
  /\ queue' = queue \cup {c}
  /\ UNCHANGED <<stage, held, hash, configVars, shootVars, w, faults>>

DeleteCluster(c) ==
  /\ stage[c] = "live"
  /\ \/ /\ c \in held
        /\ stage' = [stage EXCEPT ![c] = "deleting"]
        /\ UNCHANGED <<held, refs, hash, configVars>>
     \/ c \notin held /\ Gone(c)
  /\ queue' = queue \cup {c}
  /\ UNCHANGED <<shootVars, w, faults>>

\* Mutant of ConfigEvent: changes of ClusterConfigs are not watched.
ConfigEventIgnored(k) == UNCHANGED queue

\* The watch maps an event of a ClusterConfig to the Clusters in its owner
\* references; a change of metadata alone is no event.
ConfigEvent(k) == queue' = queue \cup owners[k]

CreateConfig(k) ==
  /\ content[k] = None
  /\ \E x \in ContentsOf[k] : content' = [content EXCEPT ![k] = x]
  /\ owners' = [owners EXCEPT ![k] = {}]
  /\ UNCHANGED <<clusterVars, shootVars, queue, w, faults>>

ChangeConfig(k) ==
  /\ content[k] # None
  /\ \E x \in ContentsOf[k] \ {content[k]} : content' = [content EXCEPT ![k] = x]
  /\ ConfigEvent(k)
  /\ UNCHANGED <<clusterVars, owners, shootVars, w, faults>>

DeleteConfig(k) ==
  /\ "deleteconfig" \in Env
  /\ content[k] # None
  /\ content' = [content EXCEPT ![k] = None]
  /\ owners' = [owners EXCEPT ![k] = {}]
  /\ ConfigEvent(k)
  /\ UNCHANGED <<clusterVars, shootVars, w, faults>>

Users == \/ \E c \in Clusters : CreateCluster(c) \/ ChangeRefs(c) \/ DeleteCluster(c)
         \/ \E k \in Configs : CreateConfig(k) \/ ChangeConfig(k) \/ DeleteConfig(k)

Next == \/ \E c \in Clusters : Start(c) \/ ShootGone(c)
        \/ Step \/ Crash \/ Users

Spec == Init /\ [][Next]_vars

(***************************************************************************)
(* Fairness: the work queue is first-in first-out, a reconcile that has    *)
(* started goes on, and Gardener removes shoots it was told to delete.     *)
(***************************************************************************)
Fairness == /\ \A c \in Clusters : SF_vars(Start(c)) /\ WF_vars(ShootGone(c))
            /\ WF_vars(Step)

FairSpec == Spec /\ Fairness

-------------------------------------------------------------------------------
(***************************************************************************)
(* Properties.                                                             *)
(***************************************************************************)
\* A ClusterConfig is never collected together with a Cluster: it only goes if
\* a user deletes it ("to prevent cluster configs from being deleted",
\* controller.go:342).
ConfigsOutliveClusters ==
  [][(\E c \in Clusters : stage[c] # "absent" /\ stage'[c] = "absent")
       => content' = content]_vars

\* The first n references of list l, with contents f, say v of extension e: the last
\* of them that mentions it wins, and None is said if none does.
Mentions(f, l, n, e) == {j \in 1..n : f[l[j]] # None /\ f[l[j]][e] # None}
Says(f, l, n, e, v) ==
  LET M == Mentions(f, l, n, e)
  IN  \/ M = {} /\ v = None
      \/ \E j \in M : v = f[l[j]][e] /\ \A m \in M : m <= j

\* The shoot has what the references say; where they say nothing, it has anything.
ShootDoesWhatIsSaid(c) ==
  \A e \in Exts : \E v \in {None, shoot[c][e]} : Says(content, refs[c], Len(refs[c]), e, v)

Pending(c) == c \in queue \/ w.c = c

\* A live Cluster that nobody is about to reconcile is up to date: what it refers
\* to exists, would wake it when it changes, and is what its shoot has - whatever
\* changed or failed while the owner references and the hash were written.
SettledIsUpToDate ==
  \A c \in Clusters : stage[c] = "live" /\ ~Pending(c) =>
    /\ hash[c] = refs[c]
    /\ shoot[c] # None
    /\ \A k \in Elems(refs[c]) : content[k] # None /\ c \in owners[k]
    /\ ShootDoesWhatIsSaid(c)

\* Once the users come to rest, every live Cluster whose references all exist
\* has a shoot that does what they say, for good.
ConfigsReachShoot ==
  <>[][UNCHANGED <<stage, refs, content>>]_vars =>
    <>[](\A c \in Clusters :
           stage[c] = "live" /\ (\A k \in Elems(refs[c]) : content[k] # None) =>
             shoot[c] # None /\ ShootDoesWhatIsSaid(c))

\* A Cluster in deletion is released, whatever becomes of its ClusterConfigs.
ClusterIsReleased ==
  \A c \in Clusters : stage[c] = "deleting" ~> stage[c] = "absent"

-------------------------------------------------------------------------------
(***************************************************************************)
(* The inductive invariant.                                                *)
(***************************************************************************)
Referencing == {"list", "drop", "fetch", "own", "hash", "write"}
Releasing == {"deletion", "listall", "dropall", "release"}

\* Who is owner of a ClusterConfig, or was when the owners were read, holds the
\* finalizer; so does a Cluster in deletion.
OwnersAreHeld ==
  /\ \A c \in Clusters : /\ stage[c] = "deleting" => c \in held
                         /\ stage[c] = "absent" => c \notin held
  /\ \A k \in Configs : /\ owners[k] \subseteq held /\ w.listed[k] \subseteq held
                        /\ content[k] = None => owners[k] = {}
  /\ w.pc \in Referencing => w.c \in held
  /\ w.pc \in Releasing => stage[w.c] = "deleting"

\* No owner reference is lost by writing back owners read before, and a Cluster
\* about to be released has none left.
NoOwnerForgotten ==
  /\ w.pc \notin {"drop", "dropall"} => w.drop = {}
  /\ \A k \in Configs : k \in w.drop => owners[k] \subseteq w.listed[k]
  /\ w.pc = "own" => owners[w.refs[w.i]] \subseteq w.listed[w.refs[w.i]]
  /\ w.pc = "dropall" => \A k \in Configs : w.c \in owners[k] => k \in w.drop
  /\ w.pc = "release" => \A k \in Configs : w.c \notin owners[k]

\* A worker whose Cluster is not enqueued again has read what there is, as far as
\* it got.
WorkerIsUpToDate ==
  /\ w.pc \in {"finalizer", "list", "drop"} => w.i = 1 /\ w.ext = NoExtension
  /\ w.pc \in {"hash", "write"} => w.i = Len(w.refs) + 1
  /\ w.pc \in Referencing /\ w.c \notin queue =>
       /\ w.refs = refs[w.c]
       /\ hash[w.c] = IF w.pc = "write" THEN w.refs ELSE w.hash
       /\ \A j \in 1..(w.i - 1) : content[w.refs[j]] # None /\ w.c \in owners[w.refs[j]]
       /\ \A e \in Exts : Says(content, w.refs, w.i - 1, e, w.ext[e])

ConfigsInv ==
  TypeOK /\ OwnersAreHeld /\ NoOwnerForgotten /\ WorkerIsUpToDate /\ SettledIsUpToDate
=============================================================================
