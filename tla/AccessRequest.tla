------------------------------ MODULE AccessRequest ------------------------------
(***************************************************************************)
(* The AccessRequest controller (internal/controllers/accessrequest) at    *)
(* the granularity of its calls to the platform cluster, to Gardener and   *)
(* to the shoot.                                                           *)
(*                                                                         *)
(* One worker reconciles one AccessRequest at a time under the read lock   *)
(* of the RuntimeConfiguration.  The Clusters and their shoots change as   *)
(* module ShootLifecycle allows, which the Cluster controller implements;  *)
(* between two calls users change, annotate and delete AccessRequests and  *)
(* secrets, tokens grow old, calls fail and the process crashes.           *)
(***************************************************************************)
EXTENDS Naturals, Sequences

CONSTANTS
  Requests,   \* names of AccessRequest resources
  Clusters,   \* names of Cluster resources
  ClusterOf,  \* AccessRequest -> the Cluster its clusterRef names
  Objects,    \* what may be created on a shoot for an AccessRequest
  KindOf,     \* object -> its kind
  NameOf,     \* object -> its name; objects of one name replace each other
  BoundTo,    \* object -> the role that one call creates along with it, or None
  MaxGen,     \* bound on the generations of a spec
  Wanted,     \* AccessRequest -> generation -> [token, objects] its spec asks for
  None,
  MaxFaults,  \* bound on failed calls and crashes
  Env         \* the environment behaviours that are switched on

Generations == 1..MaxGen

\* The kinds in the order in which cleanupResources goes through them.
CleanupOrder == <<"OpenIDConnect", "RoleBinding", "ClusterRoleBinding",
                  "Role", "ClusterRole", "ServiceAccount">>

Kinds == {CleanupOrder[i] : i \in DOMAIN CleanupOrder}

\* The object that every permission of a request is given to.
Identities == {"ServiceAccount", "OpenIDConnect"}
Bindings == {"RoleBinding", "ClusterRoleBinding"}

ASSUME AccessAssumption ==
  /\ None \notin Requests \cup Objects
  /\ ClusterOf \in [Requests -> Clusters]
  /\ KindOf \in [Objects -> Kinds]
  /\ BoundTo \in [Objects -> Objects \cup {None}]
  /\ MaxGen \in Nat \ {0} /\ MaxFaults \in Nat
  /\ Wanted \in [Requests -> [Generations -> [token : BOOLEAN, objects : SUBSET Objects]]]
  /\ \A o, p \in Objects : NameOf[o] = NameOf[p] => KindOf[o] = KindOf[p]
  /\ \A r \in Requests, g \in Generations : \A o, p \in Wanted[r][g].objects :
       NameOf[o] = NameOf[p] => o = p

VARIABLES
  stage,     \* AccessRequest -> "absent", "live" or "deleting"
  held,      \* AccessRequests that carry the provider's finalizer
  gen,       \* AccessRequest -> generation of its spec
  op,        \* AccessRequest -> value of the operation annotation
  phase,     \* AccessRequest -> status.phase
  observed,  \* AccessRequest -> status.observedGeneration
  secret,    \* AccessRequest -> its secret: with a token or a static kubeconfig
  perms,     \* AccessRequest -> the objects on the shoot that carry its labels
  current,   \* AccessRequests whose kubeconfig belongs to the present shoot
  cluster,   \* Cluster -> "absent", "live" or "deleting"
  claimed,   \* Clusters held by the Cluster controller
  shoot,     \* Cluster -> "none", "running" or "terminating"
  registry,  \* how much of profile and landscape is registered
  queue,     \* AccessRequests with a pending reconcile request
  timer,     \* AccessRequests with a delayed one, for the renewal of the token
  w,         \* the worker
  faults     \* failures so far

requestVars == <<stage, held, gen, op>>
statusVars == <<phase, observed>>
shootVars == <<perms, current>>
clusterVars == <<cluster, claimed, shoot>>
queueVars == <<queue, timer>>
vars == <<requestVars, statusVars, secret, shootVars, clusterVars, registry,
          queueVars, w, faults>>

(***************************************************************************)
(* The worker: its next call (pc), the AccessRequest (ar) and what it read *)
(* of it, whether it found it granted and unchanged (granted), whether its *)
(* client reaches the present shoot (client), the objects it has still to  *)
(* create (todo), the kind to clean up next (kind), and the outcome.       *)
(***************************************************************************)
Idle == [pc |-> "idle", ar |-> None, gen |-> 0, deleting |-> FALSE,
         held |-> FALSE, granted |-> FALSE, client |-> FALSE, todo |-> {},
         kind |-> 1, failed |-> FALSE, timer |-> FALSE]

Calls == {"cluster", "finalizer", "check", "settled", "access", "ensure", "secret",
          "cleanup", "release", "status"}

Worker == [pc : Calls \cup {"idle"},
           ar : Requests \cup {None}, gen : 0..MaxGen, deleting : BOOLEAN,
           held : BOOLEAN, granted : BOOLEAN, client : BOOLEAN,
           todo : SUBSET Objects, kind : 1..(Len(CleanupOrder) + 1),
           failed : BOOLEAN, timer : BOOLEAN]

\* Every variable has its type; a busy worker has a request and a generation.
TypeOK ==
  /\ stage \in [Requests -> {"absent", "live", "deleting"}]
  /\ held \in SUBSET Requests
  /\ gen \in [Requests -> 0..MaxGen]
  /\ op \in [Requests -> {"none", "ignore", "reconcile"}]
  /\ phase \in [Requests -> {"none", "PENDING", "GRANTED"}]
  /\ observed \in [Requests -> 0..MaxGen]
  /\ secret \in [Requests -> {"none", "static", "fresh", "due"}]
  /\ perms \in [Requests -> SUBSET Objects]
  /\ current \in SUBSET Requests
  /\ cluster \in [Clusters -> {"absent", "live", "deleting"}]
  /\ claimed \in SUBSET Clusters
  /\ shoot \in [Clusters -> {"none", "running", "terminating"}]
  /\ registry \in {"noProfile", "noLandscape", "noClient", "ready"}
  /\ queue \in SUBSET Requests /\ timer \in SUBSET Requests
  /\ w \in Worker
  /\ w.pc # "idle" => w.ar \in Requests /\ w.gen \in Generations
  /\ faults \in 0..MaxFaults

\* The Clusters and their shoots, as the Cluster controller treats them.
Lifecycle == INSTANCE ShootLifecycle WITH stage <- cluster, held <- claimed

Init ==
  /\ stage = [r \in Requests |-> "absent"]
  /\ held = {}
  /\ gen = [r \in Requests |-> 0]
  /\ op = [r \in Requests |-> "none"]
  /\ phase = [r \in Requests |-> "none"]
  /\ observed = [r \in Requests |-> 0]
  /\ secret = [r \in Requests |-> "none"]
  /\ perms = [r \in Requests |-> {}]
  /\ current = {}
  /\ Lifecycle!Init
  /\ registry = "noProfile"
  /\ queue = {} /\ timer = {}
  /\ w = Idle
  /\ faults = 0

Fault == faults < MaxFaults /\ faults' = faults + 1
NoFault == UNCHANGED faults

\* Update events of a pending AccessRequest enqueue it unless it is ignored.
Updated(r, q) == IF phase[r] = "PENDING" /\ op[r] # "ignore" THEN q \cup {r} ELSE q

-------------------------------------------------------------------------------
(***************************************************************************)
(* Starting a reconcile.                                                   *)
(***************************************************************************)
Dequeue(r) ==
  /\ w.pc = "idle"
  /\ r \in queue

\* The request is gone or ignored: nothing is done.
Skip(r) ==
  /\ Dequeue(r)
  /\ stage[r] = "absent" \/ op[r] = "ignore"
  /\ queue' = queue \ {r}
  /\ UNCHANGED <<requestVars, statusVars, secret, shootVars, clusterVars, registry,
                 timer, w, faults>>

\* The Get or the removal of the annotation fails: the request is retried.
StartFails(r) ==
  /\ Dequeue(r)
  /\ Fault
  /\ UNCHANGED <<requestVars, statusVars, secret, shootVars, clusterVars, registry,
                 queueVars, w>>

\* Granted before, nothing has changed since, and no reconcile is enforced.
AlreadyGranted(r) ==
  phase[r] = "GRANTED" /\ observed[r] = gen[r] /\ op[r] # "reconcile"

\* The request is read, a reconcile annotation is removed.
Begin(r) ==
  /\ Dequeue(r)
  /\ stage[r] # "absent" /\ op[r] # "ignore"
  /\ op' = [op EXCEPT ![r] = "none"]
  /\ queue' = IF op[r] = "reconcile" THEN Updated(r, queue \ {r}) ELSE queue \ {r}
  /\ w' = [Idle EXCEPT !.pc = "cluster", !.ar = r, !.gen = gen[r],
                       !.deleting = (stage[r] = "deleting"), !.held = (r \in held),
                       !.granted = (stage[r] = "live" /\ AlreadyGranted(r))]
  /\ UNCHANGED <<stage, held, gen, statusVars, secret, shootVars, clusterVars,
                 registry, timer, faults>>

Start(r) == Skip(r) \/ StartFails(r) \/ Begin(r)

Goto(pc) == w' = [w EXCEPT !.pc = pc]
StatusError == w' = [w EXCEPT !.pc = "status", !.failed = TRUE]

\* Mutant of GetClusterAndProfile: any error lets a request in deletion go.
GetClusterOrRelease ==
  LET c == cluster[ClusterOf[w.ar]]
      Failed == IF w.deleting THEN Goto("release") ELSE StatusError
  IN
  /\ w.pc = "cluster"
  /\ \/ Fault /\ Failed
     \/ /\ NoFault
        /\ c = "absent" \/ registry = "noProfile"
        /\ Failed
     \/ /\ NoFault /\ c # "absent" /\ registry # "noProfile"
        /\ Goto(IF w.deleting THEN "access"
                ELSE IF w.held THEN "check" ELSE "finalizer")
  /\ UNCHANGED <<requestVars, statusVars, secret, shootVars, clusterVars, registry,
                 queueVars>>

\* The Cluster and its profile are looked up.  If the Cluster of a request in
\* deletion is gone, only the finalizer remains to be removed.
GetClusterAndProfile ==
  LET c == cluster[ClusterOf[w.ar]]
  IN
  /\ w.pc = "cluster"
  /\ \/ Fault /\ StatusError
     \/ /\ NoFault
        /\ \/ c = "absent" /\ w.deleting /\ Goto("release")
           \/ c = "absent" /\ ~w.deleting /\ StatusError
           \/ c # "absent" /\ registry = "noProfile" /\ StatusError
           \/ c # "absent" /\ registry # "noProfile"
              /\ Goto(IF w.deleting THEN "access"
                      ELSE IF w.held THEN "check" ELSE "finalizer")
  /\ UNCHANGED <<requestVars, statusVars, secret, shootVars, clusterVars, registry,
                 queueVars>>

\* The finalizer is patched in; the response brings the newest spec.  Neither a
\* request that is gone nor one in deletion can be given a finalizer.
AddFinalizer ==
  LET r == w.ar
      Patched == /\ stage[r] = "live"
                 /\ held' = held \cup {r}
                 /\ queue' = Updated(r, queue)
  IN
  /\ w.pc = "finalizer"
  /\ \/ Patched /\ w' = [w EXCEPT !.pc = "check", !.gen = gen[r]] /\ NoFault
     \/ Patched /\ StatusError /\ Fault
     \/ UNCHANGED <<held, queue>> /\ StatusError /\ Fault
     \/ stage[r] # "live" /\ UNCHANGED <<held, queue>> /\ StatusError /\ NoFault
  /\ UNCHANGED <<stage, gen, op, statusVars, secret, shootVars, clusterVars, registry,
                 timer>>

\* The spec the worker acts on.
WantedSpec == Wanted[w.ar][w.gen]

\* A secret of a granted request is good until the renewal time of its token; one
\* without a token does not expire.
SecretIsValid == IF WantedSpec.token THEN secret[w.ar] = "fresh"
                 ELSE secret[w.ar] # "none"

\* If the request is granted already, its secret decides whether anything is left
\* to do.
CheckGrant ==
  /\ w.pc = "check"
  /\ \/ ~w.granted /\ Goto("access") /\ NoFault
     \/ w.granted /\ StatusError /\ Fault
     \/ w.granted /\ ~SecretIsValid /\ Goto("access") /\ NoFault
     \/ /\ w.granted /\ SecretIsValid
        /\ Goto(IF WantedSpec.token THEN "settled" ELSE "status") /\ NoFault
  /\ UNCHANGED <<requestVars, statusVars, secret, shootVars, clusterVars, registry,
                 queueVars>>

\* Mutant of ScheduleRenewal: the reconcile ends without asking for another.
ScheduleNothing ==
  /\ w.pc = "settled"
  /\ Goto("status")
  /\ UNCHANGED <<requestVars, statusVars, secret, shootVars, clusterVars, registry,
                 queueVars, faults>>

\* The time until the renewal is computed with a second look at the clock; if the
\* renewal time has passed since, no delayed request results.
ScheduleRenewal ==
  /\ w.pc = "settled"
  /\ w' = [w EXCEPT !.pc = "status", !.timer = (secret[w.ar] # "due")]
  /\ UNCHANGED <<requestVars, statusVars, secret, shootVars, clusterVars, registry,
                 queueVars, faults>>

\* Landscape, shoot and a temporary admin kubeconfig for it are obtained.  A shoot
\* that is being removed may or may not answer.
GetShootAccess ==
  LET s == shoot[ClusterOf[w.ar]]
  IN
  /\ w.pc = "access"
  /\ registry # "noClient"
  /\ \/ Fault /\ StatusError
     \/ NoFault /\ (registry = "noLandscape" \/ s # "running") /\ StatusError
     \/ /\ NoFault /\ registry = "ready" /\ s # "none"
        /\ w' = [w EXCEPT !.client = TRUE,
                          !.pc = IF w.deleting THEN "cleanup" ELSE "ensure",
                          !.todo = IF w.deleting THEN {} ELSE WantedSpec.objects]
  /\ UNCHANGED <<requestVars, statusVars, secret, shootVars, clusterVars, registry,
                 queueVars>>

\* A landscape that is registered without a client is dereferenced: the reconcile
\* panics, controller-runtime recovers and retries.
PanicOnMissingClient ==
  /\ w.pc = "access"
  /\ registry = "noClient"
  /\ w' = Idle
  /\ queue' = queue \cup {w.ar}
  /\ UNCHANGED <<requestVars, statusVars, secret, shootVars, clusterVars, registry,
                 timer, faults>>

-------------------------------------------------------------------------------
(***************************************************************************)
(* Giving access (renewToken, ensureOIDCAccess): every object the spec     *)
(* asks for is created or updated, then the secret is written.             *)
(***************************************************************************)
\* The objects S with o in the place of the one of its name.
With(S, o) == {p \in S : NameOf[p] # NameOf[o]} \cup {o}

\* Object o is created or updated.
Ensure(o) == perms' = [perms EXCEPT ![w.ar] = With(@, o)]

\* The call for object o: the worker goes on as `done` says, or, if the call failed
\* (with or without effect, or because the shoot is gone), as `failed` says.
EnsureObject(o, done, failed) ==
  /\ \/ w.client /\ Ensure(o) /\ NoFault /\ w' = done
     \/ w.client /\ Ensure(o) /\ Fault /\ w' = failed
     \/ UNCHANGED perms /\ Fault /\ w' = failed
     \/ ~w.client /\ UNCHANGED perms /\ NoFault /\ w' = failed
  /\ UNCHANGED <<requestVars, statusVars, secret, current, clusterVars, registry,
                 queueVars>>

Due(o) == w.pc = "ensure" /\ o \in w.todo
Done(o) == [w EXCEPT !.todo = @ \ {o}]
Abort == [w EXCEPT !.pc = "status", !.failed = TRUE]

\* What is still to create after o failed: the others, but no binding of o itself.
GoOn(o) == [w EXCEPT !.todo = {p \in @ \ {o} : BoundTo[p] # o}, !.failed = TRUE]

\* Namespace and ServiceAccount come first; without them the reconcile ends.
EnsureServiceAccount(o) ==
  /\ Due(o) /\ KindOf[o] = "ServiceAccount"
  /\ EnsureObject(o, Done(o), Abort)

HasIdentity == \A p \in w.todo : KindOf[p] \notin Identities

\* Roles with their bindings follow, and bindings of roles that exist; a failure does
\* not stop the others.
EnsureTokenPermission(o) ==
  /\ Due(o) /\ WantedSpec.token
  /\ HasIdentity
  /\ BoundTo[o] \notin w.todo
  /\ EnsureObject(o, Done(o), GoOn(o))

\* The OpenIDConnect resource comes first; without it the reconcile ends.
EnsureOpenIDConnect(o) ==
  /\ Due(o) /\ KindOf[o] = "OpenIDConnect"
  /\ EnsureObject(o, Done(o), Abort)

\* Then all roles, then all bindings; a failure does not stop the others.
EnsureOIDCPermission(o) ==
  /\ Due(o) /\ ~WantedSpec.token
  /\ HasIdentity
  /\ KindOf[o] \in Bindings => \A p \in w.todo : KindOf[p] \in Bindings
  /\ EnsureObject(o, Done(o), [Done(o) EXCEPT !.failed = TRUE])

\* Mutant of Ensured: the failures of single objects are not looked at.
EnsuredInAnyCase ==
  /\ w.pc = "ensure"
  /\ w.todo = {}
  /\ w' = [w EXCEPT !.pc = "secret", !.failed = FALSE]
  /\ UNCHANGED <<requestVars, statusVars, secret, shootVars, clusterVars, registry,
                 queueVars, faults>>

\* If any of them failed, the reconcile ends before the secret is touched.
Ensured ==
  /\ w.pc = "ensure"
  /\ w.todo = {}
  /\ Goto(IF w.failed THEN "status" ELSE "secret")
  /\ UNCHANGED <<requestVars, statusVars, secret, shootVars, clusterVars, registry,
                 queueVars, faults>>

\* The secret of the request is created or replaced.
SecretWritten(value) ==
  /\ secret' = [secret EXCEPT ![w.ar] = value]
  /\ current' = IF w.client THEN current \cup {w.ar} ELSE current \ {w.ar}

\* A token is requested on the shoot and put into the secret with its dates; the
\* next reconcile is due when 80 % of its validity have passed.
WriteTokenSecret ==
  /\ w.pc = "secret"
  /\ WantedSpec.token
  /\ \/ /\ w.client /\ SecretWritten("fresh") /\ NoFault
        /\ w' = [w EXCEPT !.pc = "cleanup", !.timer = TRUE]
     \/ w.client /\ SecretWritten("fresh") /\ StatusError /\ Fault
     \/ UNCHANGED <<secret, current>> /\ StatusError /\ Fault
     \/ ~w.client /\ UNCHANGED <<secret, current>> /\ StatusError /\ NoFault
  /\ UNCHANGED <<requestVars, statusVars, perms, clusterVars, registry, queueVars>>

\* A kubeconfig for the identity provider is put into the secret; the shoot is not
\* asked for it.
WriteOIDCSecret ==
  /\ w.pc = "secret"
  /\ ~WantedSpec.token
  /\ \/ SecretWritten("static") /\ Goto("cleanup") /\ NoFault
     \/ SecretWritten("static") /\ StatusError /\ Fault
     \/ UNCHANGED <<secret, current>> /\ StatusError /\ Fault
  /\ UNCHANGED <<requestVars, statusVars, perms, clusterVars, registry, queueVars>>

-------------------------------------------------------------------------------
(***************************************************************************)
(* Cleaning up what an earlier version of the request, or the request in   *)
(* deletion, has left on the shoot.                                        *)
(***************************************************************************)
Keep == IF w.deleting THEN {} ELSE WantedSpec.objects

\* Mutant of Unwanted: what an earlier version of the request asked for stays.
UnwantedInDeletion(k) == {o \in perms[w.ar] : w.deleting /\ KindOf[o] = k}

\* The objects of kind k that carry the request's labels and not the name of one to
\* keep.
Unwanted(k) == {o \in perms[w.ar] : /\ KindOf[o] = k
                                    /\ \A p \in Keep : NameOf[p] # NameOf[o]}

\* Mutant of CleanupKind: after a failure the next kind follows.
CleanupKindOrGoOn ==
  LET gone == Unwanted(CleanupOrder[w.kind])
      Delete(S) == perms' = [perms EXCEPT ![w.ar] = @ \ S]
  IN
  /\ w.pc = "cleanup"
  /\ w.kind \in DOMAIN CleanupOrder
  /\ \/ Delete(gone) /\ w.client /\ NoFault
     \/ w.client /\ (\E S \in SUBSET gone : Delete(S)) /\ Fault
     \/ ~w.client /\ UNCHANGED perms /\ NoFault
  /\ w' = [w EXCEPT !.kind = @ + 1]
  /\ UNCHANGED <<requestVars, statusVars, secret, current, clusterVars, registry,
                 queueVars>>

\* All unwanted objects of the next kind are deleted.  A failure leaves some of them
\* and ends the cleanup with this kind.
CleanupKind ==
  LET gone == Unwanted(CleanupOrder[w.kind])
      Delete(S) == perms' = [perms EXCEPT ![w.ar] = @ \ S]
  IN
  /\ w.pc = "cleanup"
  /\ w.kind \in DOMAIN CleanupOrder
  /\ \/ w.client /\ Delete(gone) /\ w' = [w EXCEPT !.kind = @ + 1] /\ NoFault
     \/ w.client /\ (\E S \in SUBSET gone : Delete(S)) /\ StatusError /\ Fault
     \/ ~w.client /\ UNCHANGED perms /\ StatusError /\ NoFault
  /\ UNCHANGED <<requestVars, statusVars, secret, current, clusterVars, registry,
                 queueVars>>

CleanedUp ==
  /\ w.pc = "cleanup"
  /\ w.kind = Len(CleanupOrder) + 1
  /\ Goto(IF w.deleting THEN "release" ELSE "status")
  /\ UNCHANGED <<requestVars, statusVars, secret, shootVars, clusterVars, registry,
                 queueVars, faults>>

\* The object disappears from the platform cluster, and with it the secret that
\* names it as its owner.
Remove(r) ==
  /\ stage' = [stage EXCEPT ![r] = "absent"]
  /\ gen' = [gen EXCEPT ![r] = 0]
  /\ op' = [op EXCEPT ![r] = "none"]
  /\ phase' = [phase EXCEPT ![r] = "none"]
  /\ observed' = [observed EXCEPT ![r] = 0]
  /\ secret' = [secret EXCEPT ![r] = "none"]
  /\ current' = current \ {r}

\* The finalizer is removed, and no status is written any more.
RemoveFinalizer ==
  /\ w.pc = "release"
  /\ \/ /\ stage[w.ar] = "deleting"
        /\ Remove(w.ar)
        /\ held' = held \ {w.ar}
        /\ queue' = queue \cup {w.ar}
        /\ \/ w' = Idle /\ NoFault
           \/ StatusError /\ Fault
     \/ /\ StatusError /\ Fault
        /\ UNCHANGED <<requestVars, statusVars, secret, current, queue>>
  /\ UNCHANGED <<perms, clusterVars, registry, timer>>

-------------------------------------------------------------------------------
(***************************************************************************)
(* The end of a reconcile.                                                 *)
(***************************************************************************)
PhaseOf(r) == IF r.failed THEN "PENDING" ELSE "GRANTED"

\* The status is patched, also after an error; an error is retried, success may ask
\* for a delayed request.
UpdateStatus ==
  /\ w.pc = "status"
  /\ \/ /\ stage[w.ar] # "absent"
        /\ phase' = [phase EXCEPT ![w.ar] = PhaseOf(w)]
        /\ observed' = [observed EXCEPT ![w.ar] = w.gen]
        /\ \/ /\ NoFault
              /\ queue' = IF w.failed THEN queue \cup {w.ar} ELSE queue
              /\ timer' = IF w.timer /\ ~w.failed THEN timer \cup {w.ar} ELSE timer
           \/ Fault /\ queue' = queue \cup {w.ar} /\ UNCHANGED timer
     \/ /\ \/ stage[w.ar] = "absent" /\ NoFault
           \/ Fault
        /\ queue' = queue \cup {w.ar}
        /\ UNCHANGED <<statusVars, timer>>
  /\ w' = Idle
  /\ UNCHANGED <<requestVars, secret, shootVars, clusterVars, registry>>

Step == \/ GetClusterAndProfile \/ AddFinalizer \/ CheckGrant \/ ScheduleRenewal
        \/ GetShootAccess \/ PanicOnMissingClient
        \/ \E o \in Objects :
             \/ EnsureServiceAccount(o) \/ EnsureTokenPermission(o)
             \/ EnsureOpenIDConnect(o) \/ EnsureOIDCPermission(o)
        \/ Ensured \/ WriteTokenSecret \/ WriteOIDCSecret
        \/ CleanupKind \/ CleanedUp \/ RemoveFinalizer \/ UpdateStatus

\* The renewal time has come and the delayed request is due.
RenewalDue(r) ==
  /\ r \in timer
  /\ secret[r] # "fresh"
  /\ timer' = timer \ {r}
  /\ queue' = queue \cup {r}
  /\ UNCHANGED <<requestVars, statusVars, secret, shootVars, clusterVars, registry,
                 w, faults>>

\* The process dies between two calls and starts again: registry, queue and delayed
\* requests are lost, and the initial list enqueues what is not ignored.
Crash ==
  /\ "crash" \in Env
  /\ Fault
  /\ w' = Idle
  /\ registry' = "noProfile"
  /\ timer' = {}
  /\ queue' = {r \in Requests : stage[r] # "absent" /\ op[r] # "ignore"}
  /\ UNCHANGED <<requestVars, statusVars, secret, shootVars, clusterVars>>

\* The other controllers change the registry under the write lock.
RegistryChanges ==
  /\ w.pc = "idle"
  /\ registry' \in IF "registry" \in Env
                   THEN {"noProfile", "noLandscape", "noClient", "ready"}
                   ELSE {"ready"}
  /\ UNCHANGED <<requestVars, statusVars, secret, shootVars, clusterVars, queueVars,
                 w, faults>>

-------------------------------------------------------------------------------
(***************************************************************************)
(* Users and the Clusters.                                                 *)
(***************************************************************************)
CreateRequest(r) ==
  /\ stage[r] = "absent"
  /\ stage' = [stage EXCEPT ![r] = "live"]
  /\ gen' = [gen EXCEPT ![r] = 1]
  /\ queue' = queue \cup {r}
  /\ UNCHANGED <<held, op, statusVars, secret, shootVars, clusterVars, registry, timer,
                 w, faults>>

\* A new generation is no event of its own: only a pending request is enqueued.
ChangeSpec(r) ==
  /\ "respec" \in Env
  /\ stage[r] # "absent" /\ gen[r] < MaxGen
  /\ gen' = [gen EXCEPT ![r] = @ + 1]
  /\ queue' = Updated(r, queue)
  /\ UNCHANGED <<stage, held, op, statusVars, secret, shootVars, clusterVars, registry,
                 timer, w, faults>>

\* Mutant of DeleteRequest: a deletion timestamp is no event of its own.
DeleteRequestUnnoticed(r) ==
  /\ stage[r] = "live"
  /\ \/ /\ r \in held
        /\ stage' = [stage EXCEPT ![r] = "deleting"]
        /\ UNCHANGED <<gen, op, statusVars, secret, current>>
     \/ r \notin held /\ Remove(r)
  /\ queue' = Updated(r, queue)
  /\ UNCHANGED <<held, perms, clusterVars, registry, timer, w, faults>>

\* Without the finalizer the object is removed at once.
DeleteRequest(r) ==
  /\ stage[r] = "live"
  /\ \/ /\ r \in held
        /\ stage' = [stage EXCEPT ![r] = "deleting"]
        /\ UNCHANGED <<gen, op, statusVars, secret, current>>
     \/ r \notin held /\ Remove(r)
  /\ queue' = IF op[r] = "ignore" THEN queue ELSE queue \cup {r}
  /\ UNCHANGED <<held, perms, clusterVars, registry, timer, w, faults>>

\* The operation annotation changes: gaining "reconcile" and losing "ignore" are
\* events; other changes are unless they set "ignore" on a pending request.
Annotate(r) ==
  /\ "annotate" \in Env
  /\ stage[r] # "absent"
  /\ \E v \in {"none", "ignore", "reconcile"} \ {op[r]} :
       /\ op' = [op EXCEPT ![r] = v]
       /\ queue' = IF \/ v = "reconcile" \/ op[r] = "ignore"
                      \/ v # "ignore" /\ phase[r] = "PENDING"
                   THEN queue \cup {r} ELSE queue
  /\ UNCHANGED <<stage, held, gen, statusVars, secret, shootVars, clusterVars, registry,
                 timer, w, faults>>

\* Somebody deletes the secret: its owner is enqueued.
SecretDeleted(r) ==
  /\ secret[r] # "none"
  /\ secret' = [secret EXCEPT ![r] = "none"]
  /\ current' = current \ {r}
  /\ queue' = queue \cup {r}
  /\ UNCHANGED <<requestVars, statusVars, perms, clusterVars, registry, timer, w,
                 faults>>

\* The renewal time of a token comes - between two looks at the clock only if
\* "clock" is switched on.
TokenAges(r) ==
  /\ secret[r] = "fresh"
  /\ w.pc = "settled" /\ w.ar = r => "clock" \in Env
  /\ secret' = [secret EXCEPT ![r] = "due"]
  /\ UNCHANGED <<requestVars, statusVars, shootVars, clusterVars, registry, queueVars,
                 w, faults>>

\* A Cluster or its shoot changes; no AccessRequest is enqueued for it.
ClusterChanges(c) ==
  /\ \/ Lifecycle!Appear(c) \/ Lifecycle!Withdraw(c) \/ Lifecycle!Vanish(c)
     \/ Lifecycle!Hold(c) \/ Lifecycle!Provide(c) \/ Lifecycle!Terminate(c)
     \/ Lifecycle!Release(c)
  /\ UNCHANGED <<requestVars, statusVars, secret, shootVars, registry, queueVars, w,
                 faults>>

\* With the shoot goes everything on it, and a client that was made for it.
ShootGone(c) ==
  LET onIt == {r \in Requests : ClusterOf[r] = c}
  IN
  /\ Lifecycle!Terminated(c)
  /\ perms' = [r \in Requests |-> IF r \in onIt THEN {} ELSE perms[r]]
  /\ current' = current \ onIt
  /\ w' = [w EXCEPT !.client = @ /\ w.ar \notin onIt]
  /\ UNCHANGED <<requestVars, statusVars, secret, registry, queueVars, faults>>

Users == \E r \in Requests :
  \/ CreateRequest(r) \/ ChangeSpec(r) \/ DeleteRequest(r) \/ Annotate(r)
  \/ SecretDeleted(r) \/ TokenAges(r)

Next == \/ \E r \in Requests : Start(r) \/ RenewalDue(r)
        \/ Step \/ Crash \/ RegistryChanges \/ Users
        \/ \E c \in Clusters : ClusterChanges(c) \/ ShootGone(c)

Spec == Init /\ [][Next]_vars

(***************************************************************************)
(* Fairness.  The work queue is first-in first-out and delayed requests    *)
(* are delivered; a reconcile that has started goes on; the other          *)
(* controllers register what exists.  Nothing is assumed of users.         *)
(***************************************************************************)
Fairness ==
  /\ \A r \in Requests : SF_vars(Start(r)) /\ WF_vars(RenewalDue(r))
  /\ WF_vars(Step)
  /\ SF_vars(RegistryChanges /\ registry' = "ready")

FairSpec == Spec /\ Fairness

-------------------------------------------------------------------------------
(***************************************************************************)
(* Properties.                                                             *)
(***************************************************************************)
\* Nobody keeps permissions on a shoot that nobody can take away any more: what
\* carries the labels of an AccessRequest exists only while that request exists and
\* holds the provider's finalizer.  Where the Cluster is gone the finalizer is removed
\* without a cleanup (controller.go:136-138), which is right because the Cluster outlives
\* its shoot.
NoPermissionLeft ==
  \A r \in Requests : perms[r] # {} => stage[r] # "absent" /\ r \in held

\* A request that shows GRANTED for its present generation has no permission beyond
\* what that generation asks for, and all of them on the shoot its kubeconfig belongs
\* to - through crashes, renewals and switches between token and OIDC.
GrantIsExact ==
  \A r \in Requests :
    stage[r] = "live" /\ phase[r] = "GRANTED" /\ observed[r] = gen[r] =>
      /\ perms[r] \subseteq Wanted[r][gen[r]].objects
      /\ r \in current => perms[r] = Wanted[r][gen[r]].objects

\* A request nobody ignores, is working on or has been asked to reconcile.
AtRest(r) == stage[r] # "absent" /\ r \notin queue /\ w.ar # r /\ op[r] # "ignore"

\* No renewal is lost: a request at rest is not in deletion, it is granted and has a
\* secret, and if that expires a delayed request is due before it does (the
\* RequeueAfter of controller.go:251 and of the renewal, the retry after an error, and
\* the watches of SetupWithManager).  It takes that the renewal time does not come
\* between two looks at the clock (Env clock).
RenewalIsAhead ==
  \A r \in Requests : AtRest(r) =>
    /\ stage[r] = "live" /\ r \in held /\ phase[r] = "GRANTED"
    /\ secret[r] # "none"
    /\ secret[r] # "static" => r \in timer

\* Every step is a step of AccessGrant or changes nothing of it.
Grant == INSTANCE AccessGrant

ImplementsGrant == Grant!Spec

\* Nothing outside keeps the controller from serving request r.
Unhindered(r) == op[r] # "ignore" /\ registry = "ready"

\* A request in deletion goes away if its Cluster does, or keeps a running shoot.
AccessDeletionCompletes ==
  \A r \in Requests :
    <>[](/\ Unhindered(r)
         /\ cluster[ClusterOf[r]] = "absent" \/ shoot[ClusterOf[r]] = "running")
      => (stage[r] = "deleting" ~> stage[r] # "deleting")

Served(r) ==
  stage[r] = "live" /\ Unhindered(r) /\ shoot[ClusterOf[r]] = "running"

\* A live request whose Cluster keeps a running shoot is granted, with a secret whose
\* token is not past its renewal time - again and again, although secrets are deleted
\* and tokens grow old.
AccessStaysUsable ==
  \A r \in Requests :
    <>[]Served(r) => []<>(phase[r] = "GRANTED" /\ secret[r] \in {"fresh", "static"})

\* "check if the request is already granted and nothing has changed"
\* (controller.go:215): once a live request was granted for its newest spec, a newer
\* spec is acted upon.
SpecIsApplied ==
  \A r \in Requests :
    <>[]Served(r) /\ <>(phase[r] = "GRANTED" /\ observed[r] = gen[r])
      => <>[](observed[r] = gen[r])
=================================================================================
