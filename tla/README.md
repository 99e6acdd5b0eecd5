# A TLA+ model of the Gardener cluster provider

The provider turns `Cluster` resources of a platform cluster into `Shoot` clusters in Gardener.
This directory models its controllers, checks them with TLC on small instances, and proves their
most important safety properties with TLAPS for instances of every size.

* [The system](#the-system): components, state, operations, what is hard
* [The modules](#the-modules): how they correspond to the code
* [The runs](#the-runs): questions, bounds, what they show, disagreements found
* [Fairness](#fairness)
* [The proofs](#the-proofs)
* [What is not modelled](#what-is-not-modelled)
* [Possible extensions](#possible-extensions)

## The system

### Components

| component | source | state it keeps | operations |
|---|---|---|---|
| Cluster controller | `internal/controllers/cluster/controller.go`, `shoot.go` | the `Cluster` (finalizer, labels, conditions, phase, recorded shoot, hash of its ClusterConfig references), the owner references of `ClusterConfig`s, the `Shoot` in Gardener | reconcile: find the shoot, correct owner references, create, update, delete the shoot, release the Cluster; wake-ups by Cluster, Shoot, ClusterProfile, ClusterConfig and internal events |
| Shoot observability | `cluster/observability.go` | a copy of the monitoring secret and a `ScrapeConfig` per Cluster | at the end of every reconcile of a live Cluster: write both, or remove both |
| Landscape controller | `internal/controllers/landscape/controller.go` | `Landscape` (finalizer, status.projects) | reconcile: build a client, find the projects, register, notify ProviderConfigs; release |
| ProviderConfig controller | `internal/controllers/config/controller.go` | `ProviderConfig` (finalizer), `ClusterProfile` with the supported versions | reconcile: check landscape, project, CloudProfile; choose and sort versions, publish the ClusterProfile, register, notify Clusters; unpublish and release |
| RuntimeConfiguration | `internal/controllers/shared/config.go` | in memory: registered ProviderConfigs, profiles, landscapes with their clients and shoot informers; a read-write lock; four channels | get, set, unset |
| AccessRequest controller | `internal/controllers/accessrequest/` | `AccessRequest` (finalizer, phase, observed generation), its secret, service accounts, OIDC resources, roles and bindings in the shoot | grant, renew at 80 % of the validity, clean up what an earlier spec asked for, release |
| Process | `cmd/cluster-provider-gardener/app` | the observability switch | one elected process starts all controllers |

### How they interact

The Landscape and the ProviderConfig controller take the *write* lock of the RuntimeConfiguration for
a whole reconcile, the Cluster and the AccessRequest controller the *read* lock. So the registry never
changes during a reconcile of a Cluster, and the first two controllers never overlap. They wake each
other over channels: a landscape that becomes known or unknown wakes the ProviderConfigs that name it;
a new or changed profile wakes its Clusters; shoot informers (one per landscape) wake Clusters; an
informer that ends with an error wakes its Landscape. Each controller has one worker and a
deduplicating work queue in which failed requests are put again. The AccessRequest controller talks to
the Cluster controller through the Cluster and its shoot only, and nothing wakes it when they change.

### What is hard, and what has to hold

* **Several API servers, no transactions.** A reconcile is a sequence of calls to the platform cluster,
  to Gardener and to shoots. Any of them may fail with or without having taken effect, the process may die
  between two of them, and users and Gardener act in between. Correct means: a shoot only exists while
  a Cluster holds it with the finalizer; no second shoot for a Cluster; no shoot changes hands; only
  shoots of unwanted Clusters are deleted; a Cluster is not Ready without a shoot; nobody keeps
  permissions that nobody can take away; a granted request has what it asks for and no more; a
  ClusterConfig is not garbage-collected with a Cluster.
* **Stale reads.** Finalizers, labels, deletion timestamps, versions, owner references and the recorded
  shoot are used several calls after they were read. Correct means: no version is lowered, no shoot is
  deleted that is wanted by now, no owner reference is lost that nobody comes back for.
* **Level-triggered in name only.** Several branches end without error or requeue and rely on somebody
  to wake the controller again: deletion of a shoot, foreign finalizers, unknown profile, Landscape in
  deletion, a granted request. Correct means: every deletion completes, profiles and ClusterConfigs reach
  shoots, health reaches Clusters, tokens are renewed - and whoever is *not* about to be reconciled is as
  it should be.
* **Memory and cluster part ways.** The registry is rebuilt after a restart, in any order. Correct
  means: no ClusterProfile is orphaned, no landscape in use is released, and the Cluster controller
  sees the registry change only in ways it is prepared for.

The `hazards` of `PROJECT.json` list these at their lines, with the properties that cover them.

## The modules

| module | what it is |
|---|---|
| `ShootLifecycle` | abstract specification: what the provider promises for every Cluster |
| `Registry` | abstract specification: how the registry may change between reconciles of Clusters |
| `AccessGrant` | abstract specification: what the provider promises for every AccessRequest |
| `ClusterController`, `ClusterInvariant` | the Cluster controller, Gardener, users; its inductive invariant `IInv` and the assumptions under which it holds |
| `ClusterConfigs` | owner references, hash annotation and extensions of ClusterConfigs, with the inductive invariant `ConfigsInv` |
| `Observability` | federation of a shoot's metrics, with the inductive invariant `FederationInv` |
| `RuntimeConfig`, `RuntimeInvariant` | the Landscape and ProviderConfig controllers and the registry they fill; their inductive invariant |
| `AccessRequest`, `AccessInvariant` | the AccessRequest controller, shoots and users; its inductive invariant |
| `Versions` | which kubernetes versions are offered, in which order, and which one a shoot gets |
| `ClusterControllerProofs`, `ClusterServedProofs` | theorems about `ClusterController`: its shoots; its wake-ups |
| `AccessRequestProofs`, `AccessRenewalProofs` | theorems about `AccessRequest`: its permissions; its renewals |
| `RuntimeConfigProofs`, `ClusterConfigsProofs`, `ObservabilityProofs`, `VersionsProofs` | theorems about the module of that name |
| `MCExclusive`, `MCShared` | instances of `ClusterController`: Clusters with shoot names of their own; Clusters that compete for names or change them |
| `MCRuntime`, `MCAccess`, `MCConfigs`, `MCObservability`, `MCVersions` | instances of the others |

How they are composed:

* `ClusterController` and `RuntimeConfig` through `Registry`: the actions `RegisterProfile`, `DropProfile`,
  `SetLandscape`, `LoseLandscape`, `WatchSynced` and `Crash` of the former are built from steps of
  `Registry`, and `RuntimeConfig` implements `Registry`.
* `AccessRequest` and `ClusterController` through `ShootLifecycle`: Clusters and shoots change in the former
  by steps of `ShootLifecycle`, which `ClusterController` implements.
* `ClusterConfigs` and `Observability` refine single steps of `ClusterController` (`Prepare`,
  `ReleaseCluster`, `Observe`), each with the rest of the reconcile reduced to what it needs.

The refinements are checked by TLC and proved by TLAPS. The models are not run as one.

### ClusterController

One action per call of `ClusterReconciler.reconcile`. The worker `w` is the goroutine: its next call,
the Cluster it works on, what it has read (`deleting`, `fins`, `seen`), and the status it will write.

| actions | code |
|---|---|
| `Skip`, `StartFails`, `UnknownLandscape`, `PanicOnMissingClient`, `LookupFinds`, `LookupFindsNone`, `LookupFails` | controller.go 92-192: Get, operation annotation, profile, landscape, `GetShoot`, name conflict |
| `AddFinalizer` | 194-208: merge patch with the list of finalizers as read |
| `Prepare` | 210-255: ClusterConfigs, `UpdateShootFields`, labels, record the shoot in the status object |
| `WriteShoot` | 257-277: no-op, Update or Create; lost answers |
| `Observe` | 279-293 |
| `PostponeDeletion`, `DeleteShoot`, `ReleaseCluster` | 300-378 |
| `UpdateStatus` | 69-86: status patch, phase, retry of errors |
| `ShootEvent` with `ShootCondition`, `ShootGone` ... | informer and its filter in `shared/config.go` 211-273 |
| `Enqueue`, `Annotate`, `RemoveForeignFinalizer` ... | event filter in `SetupWithManager`, 386-401 |

A status is the set `cons` of conditions that are False, because the phase depends on nothing else;
conditions that a reconcile does not touch keep their value, as in the code. A shoot is its owner (the
labels), version, deletion mark and health. Versions are numbers. The lookup of a shoot is a read at one
moment: the reads before it (profile, landscape) cannot change under the lock, and the Cluster read
together with it may be stale in every later step.

### ClusterConfigs

`getClusterConfigs` (511-597) call by call: `List` and `DropOwner` for references that have gone, `Fetch` and
`AddOwner` for every reference in order, `WriteHash` last; then `WriteShoot` with the extensions merged as
`UpdateShootFields` and `applyClusterConfigs` do. A merge patch of owner references replaces the whole list
by what was read (`w.listed`) with the change. A Cluster that goes takes with it (`Gone`) what only it owns:
Kubernetes' garbage collector. The watch wakes the owners of a ClusterConfig (`ConfigEvent`).

### Observability

`CheckMonitoring`, `WriteAuth`, `WriteScrape` are `ensureShootPrometheusObservability`, `DeleteAuth` and
`DeleteScrape` the cleanup. A secret and a ScrapeConfig carry which monitoring secret they were made from;
`ownerless` are objects that wait for the garbage collector. `Switch` restarts the process with the other value
of the environment variable.

### RuntimeConfig

One worker stands for both controllers because of the write lock. For every resource: `stage`, `held`
(finalizer), `ignored`. In memory: `configs`, `profiles`, `landscapes`, `offers` (registered status
lists the project), `watch`. `access` is what a kubeconfig is good for: no client can be built, no
permission, no project, or everything. A Landscape that cannot be used is still registered, without a
client or with the projects its status had, exactly as the code does.

### AccessRequest

| actions | code (`accessrequest/`) |
|---|---|
| `Skip`, `StartFails`, `Begin` | controller.go: Get, operation annotation |
| `GetClusterAndProfile`, `AddFinalizer`, `CheckGrant`, `ScheduleRenewal` | 134-262: lookup, finalizer, is the secret still good, requeue |
| `GetShootAccess`, `PanicOnMissingClient` | access.go: landscape, shoot, admin kubeconfig |
| `EnsureServiceAccount`, `EnsureTokenPermission`, `WriteTokenSecret` | `renewToken`: fails at the first object |
| `EnsureOpenIDConnect`, `EnsureOIDCPermission`, `WriteOIDCSecret` | `ensureOIDCAccess` |
| `CleanupKind`, `CleanedUp` | `cleanupResources`: one kind after the other, everything with the labels of the request that is not to be kept |
| `RemoveFinalizer`, `UpdateStatus` | release; phase, observed generation, delayed request or retry |

What a request has on a shoot is a set of objects; an object has a kind and a name, and replaces the one of
its name. A spec is a generation with the objects it asks for. The secret is `fresh`, `due` (past the renewal
time), `static` (OIDC) or missing. With a shoot goes everything on it, also the use of a client that a worker
has for it.

### Versions

The loop of `determineCurrentLifecycleStage` is a function of the turns it has taken (`LoopOver`), the stable sort
the place of each element: behind those the comparison puts first and behind its equals of a smaller index. Their
properties say without a loop what they ought to compute.

### Environment switches

`Env` names the behaviours of the environment that are switched on in a run. The proofs hold for every
`Env` unless a theorem names one.

| switch | behaviour |
|---|---|
| `crash` | the process dies and restarts |
| `relabel` | users change the shoot-name label |
| `foreign` | other controllers set finalizers on Clusters |
| `generation`, `annotate`, `ignore` | wake-ups and operation annotations |
| `health`, `upgrade`, `gardendelete` | Gardener changes health and version; somebody deletes shoots there |
| `reprofile`, `dropprofile`, `retarget` | ProviderConfigs change, go away, name another landscape |
| `landscapes`, `reregister`, `gap` | landscapes get lost, are registered again, with a gap in the watch |
| `tombstone`, `listfails` | deletion learnt from a new list; listing Clusters for a notification fails |
| `access`, `watchfails`, `project` | access changes; the shoot watch ends; reading one project fails |
| `deleteconfig` | users delete ClusterConfigs |
| `rotate`, `uninstall` | monitoring secrets change; the ScrapeConfig CRD is removed |
| `respec`, `registry`, `clock` | AccessRequests get a new generation; the registry loses what they need; time passes between two looks at the clock |

## The runs

### Passing

| run | instance | shows |
|---|---|---|
| `reconfigured` | 1 Cluster, 2 faults, every change of the registry, lost events | `IInv`, `NoOrphanedShoot`, `VersionNeverLowered` |
| `twoClusters` | 2 Clusters, 2 faults, the label of one really changes the name | `ReadyHasShoot`, `ShootNeverTakenOver` |
| `progress` | 1 Cluster, 1 fault, fair | `SettledIsServed`, `DeletionIsWanted`, `DeletionCompletes`, `ShootFollowsProfile`, `HealthIsReported`, refinement of `ShootLifecycle` |
| `configReferences` | 1 Cluster, 2 ClusterConfigs, lists of up to 2 in both orders, 1 fault, fair | `ConfigsInv`, `SettledIsUpToDate`, `ConfigsOutliveClusters`, `ConfigsReachShoot`, `ClusterIsReleased` |
| `federation` | 1 Cluster, 2 monitoring secrets, 2 faults, fair | `FederationInv`, `SettledIsAsConfigured`, `NothingOutlivesCluster`, `FederationFollowsSwitch` |
| `versionChoice` | CloudProfiles with 1 version in up to 3 stages or 3 versions, 3 points in time | `StageIsTheLatest`, `NewestOnTop`, `PublishedAsClassified`, `ShootOnlyRises` |
| `registered` | 1 Landscape, 1 ProviderConfig, 2 faults | `RuntimeInv`, `SettledIsRegistered`, `NoOrphanedProfile`, `UsedLandscapeKept`, refinement of `Registry` |
| `runtimeProgress` | 1 Landscape, 1 ProviderConfig, 1 fault, fair | `ConfigDeletionCompletes`, `ProfileFollowsConfig`, `AccessIsShown` |
| `accessRequests` | 1 AccessRequest, token and OIDC generations, 6 objects, 1 fault | `AccessInv`, `NoPermissionLeft`, `GrantIsExact`, `RenewalIsAhead`, refinement of `AccessGrant` |
| `accessProgress` | 1 AccessRequest with a token, 1 fault, fair | `AccessDeletionCompletes`, `AccessStaysUsable` |

`TypeOK` is part of `IInv`, `RuntimeInv`, `AccessInv`, `ConfigsInv` and `FederationInv`; that of `Versions` is proved and
not in a run, because its type of lists is infinite.

Bounds. `MaxFaults` bounds failed calls and crashes; two are enough for every pair of failures in one
history, and one is used where the state space grows otherwise (the proofs hold for any number).
`MaxVersion` 2 distinguishes lower, equal and higher. One landscape and one project per profile in the
Cluster runs: lookups never cross landscapes, and the proofs cover the rest. Two Clusters in `twoClusters` and `contended`,
because interference is pairwise: through a name, through the one worker. What is promised for each Cluster whose label
keeps the name of its shoot is checked with one Cluster (`reconfigured`, `progress`) and proved for any number; a label that changes the name
is in `twoClusters`, where less holds. The four kinds of access a kubeconfig can give are all in `registered` and `runtimeProgress`. Two ClusterConfigs, because
references interfere through order (the later one wins) and through the list being partly corrected; a
Cluster that shares a ClusterConfig with others is left to the proofs. The six objects of `accessRequests` have
a role and its binding created by one call, two roles of one name with different rules, and a binding that
only one generation asks for; two generations are one switch between the kinds of access and the stale
objects it leaves. Several Landscapes, ProviderConfigs, AccessRequests are left to the proofs, which hold for
any number. Three lifecycle stages have a first, a middle and a last in every order, also with equal or
missing start times.

Faults are bounded in the liveness runs, so "eventually" means: once calls stop failing. In
`configReferences` and `federation` the liveness properties ask for it once the users have come to rest;
`AccessIsShown` for a Landscape that is asked for or has no client: one whose kubeconfig worked, but without
the project, is at rest, and a project granted later is found when something else asks for the Landscape (`landscape/controller.go` 308-368
ends without error or requeue; `docs/resources/landscape.md` 39 and 42 promise no more);
`AccessStaysUsable` for a request whose Cluster keeps a running shoot.

### Disagreements between code and documents

Each of these runs checks one property that a document or comment states, and TLC finds a behaviour of the
code that violates it. The `findings` of `PROJECT.json` quote both sides.

| run | what happens |
|---|---|
| `contended` | a Create fails; the shoot was already recorded in the status, another Cluster gets the name before the retry, and the retry takes its shoot over |
| `specUnnoticed` | a granted OIDC request gets a new spec: no event enqueues it, so it is never looked at |

The models show more of them, without a run of their own. Each is found by changing a run as given:

| change | what happens | contradicts |
|---|---|---|
| `reconfigured` with `Env = {"generation"}` and the invariant `ShootNotFoundIsTrue` | the reason `ShootNotFound` is set in the branch in which the shoot exists (controller.go 173), and is published if the reconcile fails before the condition is overwritten | its own message: "Shoot does not exist yet" |
| `progress` with `Env = {"listfails", "reprofile"}` | listing the Clusters fails once after a profile changed: the retry compares the new profile with itself and notifies nobody | `config/controller.go` 89: "additionally, when a profile is updated (e.g., ShootTemplate changes), clusters need to be notified" |
| `runtimeProgress` with `LandscapeDeletionCompletes` | a Landscape in deletion is not woken by the last ProviderConfig that goes | `landscape/controller.go` 397: "Waiting for ProviderConfigs to stop referencing the Landscape" |
| `registered` with `ReferencedLandscapeKept` | after a restart, before its ProviderConfigs are registered, a Landscape in deletion is released | `landscape/controller.go` 387: "check if the landscape is still in use by any provider configs" |
| `twoClusters` with `NoOrphanedShoot`, `OneShootPerCluster` or `ImplementsLifecycle` | Create fails, the label is removed, a status update is lost: the recorded shoot never existed, the existing one is not looked for (`shoot.go` 64) and is orphaned on deletion; if the label is set back it gets a second shoot. With one fault neither happens | `docs/resources/clusterconfig.md` 107: "This method will not result in orphaned shoots if something goes wrong" |
| `progress` with `"gap"` and `"reregister"` | a shoot that goes while its landscape is registered again is not noticed, its Cluster stays in deletion | `docs/resources/landscape.md` 5: the provider "watches `Shoot` resources on all Gardener landscapes" |
| `progress` with `"tombstone"` | a deletion learnt from a list is filtered out (`config.go` 217, 268), likewise | `controller_test.go` 401: "shoot is gone, reconcile again to remove cluster finalizer" |
| `runtimeProgress` with `"project"` | reading one project fails once: it stays missing | `docs/resources/landscape.md` 42: the projects are shown in `status.projects` |
| `versionChoice` with the property `NotOfferedBeforeItsTime` | a version none of whose stages has started is offered | `config/controller.go` 258: "we don't consider other lifecycle stages (e.g. 'preview', 'expired') as supported" |
| `accessProgress` with `"clock"` | the renewal time passes between two looks at the clock (`accessrequest/controller.go` 248, 251): no delayed request results, and the token runs out | `accessrequest/controller.go` 249: "the token is still valid - nothing to do" |
| `federation` with `"rotate"` or `"uninstall"` | new monitoring credentials, or a CRD that was away, are not noticed before something else wakes the Cluster | `docs/config/setup.md` 25: "creates a ScrapeConfig and authentication Secret in each Cluster's namespace when enabled" |

Three more follow from the text of single actions: the patch of `AddFinalizer` and of `ReleaseCluster`
writes back the list of finalizers as it was read, and so removes a foreign one added meanwhile; the
name conflict check (`NameConflict`) also stops a Cluster in deletion whose shoot is gone, so that a
label that names a taken shoot keeps it from being released; and `Begin` of `AccessRequest` removes the
annotation that enforces a reconcile before anything is done, so that after a failure it is not enforced.

## Fairness

* `SF(Start(c))` and its like: work queues are first-in first-out and
  the lock is fair (a waiting writer keeps new readers out), so a pending request is eventually taken
  although others keep the worker busy. Failed requests are put back; faults are bounded.
* `WF(Step)`: a reconcile that has started goes on; every call returns or times out.
* `ClusterController` also assumes that Gardener removes shoots it was told to delete, that the other
  controllers register what exists, and that foreign finalizers are removed from Clusters in deletion.
  Without the first and the last no deletion can complete; the second is `AccessIsShown` and
  `ProfileFollowsConfig` of the other model, as far as they hold (not when reading a project fails or one is granted late).
* `ClusterConfigs` and `Observability` assume that Gardener removes shoots, and the latter that Kubernetes
  collects garbage.
* `AccessRequest` assumes that a delayed request is delivered (`RenewalDue`) and that the registry becomes
  complete again and again.
* Nothing is assumed of users: no property needs them to act.

## The proofs

`tlapm` checks every proof from the definitions and the standard library.

**Cluster controller** (`ClusterControllerProofs`). `TypeCorrect` needs no assumption beyond those on the
constants. `IInv` (module `ClusterInvariant`) is the strengthening that makes `NoOrphanedShoot` inductive.
`NoOrphanedShoot` alone is not: whether a Cluster may be released depends on what the worker read several
calls ago. So `IInv` says that all shoots of a Cluster are at its only possible place (`HomeKey`), that a
recorded shoot names that place (`HomeRef`), that a worker about to write holds the Cluster, and that a
worker about to release it found nothing while nothing can appear meanwhile. It rests on two assumptions:

* `StableNames`: changing the label of a Cluster does not change the name of its shoot;
* `FixedHomes`: a profile stays in its landscape and its project.

Both are needed: the table of disagreements has an orphan without the first (two faults and a label that changes the name). `OwnersStay` adds
`DistinctNames` (different Clusters have different shoot names; `contended` shows why),
`ImplementsShootLifecycle` that nobody else deletes shoots (`"gardendelete" \notin Env`). `VersionsOnlyRise`
needs none of them: it follows from `TypeOK` and optimistic locking. The proof of the refinement maps each
action to a step of `ShootLifecycle` or to a stutter; under `IInv` a Cluster has at most one shoot
(`OneHome`), so what a step does to a shoot is what it does to the abstract state of its Cluster. The same
lemma gives `OneShootEach`, the comment "there should never be more than one" in `GetShoot`. No run checks that one: in
an instance that satisfies the assumptions there is only one place for a shoot of a Cluster, and TLC would find out nothing.

`ReadyIsTrue` (a Cluster that reports Ready has the shoot its status names) needs a second strengthening,
`ReadyInv`. `Ready` is decided in `UpdateShootFields` and published two calls later, so `WorkerReadyInv` says
what the worker knows on the way: the shoot it saw cannot vanish while its Cluster is live, because a shoot
is only in deletion together with its Cluster (`ShootsWanted`), and the Cluster cannot vanish because it is
held. It can be checked with TLC by adding `INVARIANT ReadyInv` to `Progress.cfg`.

**No wake-up is lost** (`ClusterServedProofs`). `SettledIsServed` says what level-triggered means here: a
Cluster that is not enqueued and not being reconciled has what it is owed - a shoot of at least the version
of its profile if it is live and its profile is known, a shoot in deletion if it is in deletion and nothing foreign
holds it, and it is not waiting for a shoot that is gone. Liveness rests on it, but it is an
invariant: every step that takes something away must enqueue the Cluster, and every
reconcile that ends without error must leave it served. `ServedInv` adds to `IInv` what this takes on the way:
the landscape of a registered profile is watched (`WatchInv`), and unless its Cluster is enqueued again the
worker acts on what still holds (`WorkerServesInv`) - the shoot it has seen is there, no older and no less deleted
(`SeenStands`), a foreign finalizer that it has read is still there. The theorem `NoWakeUpIsLost` needs `StableNames`,
`FixedHomes`, `DistinctNames` and `NothingIsMissed`: the switches `gap`, `landscapes`, `tombstone` and `listfails` are off.
These are the ways in which the code does lose events, as the table of disagreements shows; the theorem says that there are no
others, for any number of Clusters, faults and crashes.

**Registry side** (`RuntimeConfigProofs`). `RuntimeInv` relates the worker to the resources: past the
finalizer call its resource is held, a ProviderConfig about to be released has no ClusterProfile, a
profile about to be published has its landscape at hand. Under `FixedLandscapes` (`"retarget" \notin Env`)
it also says that registered ProviderConfigs, profiles and the worker's copy name the same landscape,
which gives `UsedLandscapesKept`. It does not hold without: a ProviderConfig that moves to a landscape which
does not work is registered as naming the new one while its profile is still of the old, which may then be
released. `ImplementsTheRegistry` is the refinement that connects the two models.

`NoRequestIsLost` is the counterpart of `NoWakeUpIsLost` and needs no hypothesis: a ProviderConfig or a Landscape that is not
enqueued, not ignored and not in the worker is registered as it is (`SettledIsRegistered`). `SettledInv` is what makes it
inductive: nothing is registered of a resource that is not held (`NothingKept`); a landscape that is unknown to a settled
ProviderConfig is held and so cannot be forgotten for good, and the worker releases none that is referenced
(`LandscapeStays`); and what the worker has read of its resource is still true unless that is enqueued again
(`WorkerKnows`). The step that needs all three is the end of a reconcile of a Landscape, which has to wake
(`Concerned`) every ProviderConfig that names it if it became known or unknown.

**AccessRequests** (`AccessRequestProofs`). `GrantIsExact` is a statement about the moment the status is
written, but what makes it true happens many calls before. `AccessInv` follows the worker: after the
`Ensure` calls everything its generation asks for is there except `todo` (`EnsureInv`); after the cleanup of a
kind nothing unwanted of that kind is left (`CleanupInv`); what was read at the start is still true or the
reconcile fails (`ReadInv`); a request that was found granted still has exactly its objects (`GrantedInv`);
permissions exist only on a shoot that exists, whose Cluster is held (`LifecycleInv`), which is why the
finalizer may be removed without a cleanup when the Cluster is gone. Objects are identified by name, so
`With` replaces, and the lemmas on it say that no two objects of a request share a name. No assumption on
the environment is needed.

`RenewalsAreAhead` (`AccessRenewalProofs`) is about the requests no event leads to (`AtRest`): such a request is live, held,
granted and has a secret, and if that is a token a delayed request is scheduled that comes when it is due. So neither a
deletion nor a renewal gets lost, although the predicates of the watch let most updates pass unnoticed. `RenewalInv` adds to `AccessInv` that the kind of
secret fits the kind of access (`KindInv`), and follows the worker from the decision that the secret is still good, or from writing it,
to the status patch several calls later (`RenewingInv`): unless the request is enqueued again meanwhile, the secret
is still there and a requeue is decided on if it expires. The one hypothesis, `OneLookAtTheClock` (`"clock" \notin Env`), excludes that the
renewal time passes between the two looks at the clock in controller.go 248 and 251; without it the property is
false, as the table of disagreements shows.

**ClusterConfigs** (`ClusterConfigsProofs`). `SettledIsUpToDate` speaks of Clusters nobody is about to
reconcile, so every step that ends a reconcile must establish it, and every step that could break it must
enqueue the Cluster. `WorkerIsUpToDate` says what the worker knows unless its Cluster is enqueued again: the
references before `i` exist, are owned, and what it collected (`ext`) is what they say (`Says`).
`NoOwnerForgotten` says that owner lists read before a patch still contain every present owner - the one
worker is the only one that adds any - and that a Cluster about to be released is owner of nothing, which is
`ConfigsAreNotCollected`.

**Observability** (`ObservabilityProofs`). `HalfWay` carries that the first object is as it should be to the
write of the second, `ObjectsAreHeld` that objects of Clusters without finalizer wait for collection.
`SettledClustersAreAsConfigured` is under `FixedMonitoring` (`"rotate"` and `"uninstall"` not in `Env`), because
nothing watches monitoring secrets or the CRD; `NothingIsLeftBehind` is not.

**Versions** (`VersionsProofs`). The four properties hold for CloudProfiles of any length and lifecycles of
any number of stages. Induction over the list is not available, so both algorithms are argued without it. For the
sort, `Place` counts who ends up ahead of an element. The counted sets (`Ahead`) of a strict weak order are nested, so places
are different (`AheadIsAnOrder`), and as there are as many places as elements every place is taken once;
hence `NewestIsOnTop`. For the loop, the least turn after which its invariant fails
would be preceded by one after which it held, which contradicts `LaterStage`: what it holds at the end is a stage that no other started
stage begins after (`CurrentStageIsTheLatest`). `ListedAsClassified` combines the two, `ShootVersionRises` is about
`computeK8sVersion` alone.

The assumptions on constants of each module only say what the sets are, with one exception: `OffersDiffer` in `Versions` says that a
CloudProfile does not list a version twice, which Gardener's API does not admit and the code relies on. TLC evaluates
them in every run.

**Only model-checked.** The eleven liveness properties (`DeletionCompletes`, `ShootFollowsProfile`, `HealthIsReported`,
`ConfigsReachShoot`, `ClusterIsReleased`, `FederationFollowsSwitch`, `ConfigDeletionCompletes`, `ProfileFollowsConfig`, `AccessIsShown`,
`AccessDeletionCompletes`, `AccessStaysUsable`), because fairness and ENABLED are out of the prover's reach; every invariant, every
action property and every refinement that a passing run checks is stated by a theorem, under the hypotheses named above. The theorems about settled Clusters, ProviderConfigs and requests are the safety half of most of these
liveness properties: they say that whoever still has something to wait for has somebody to wake it. The instances
of the runs satisfy these hypotheses, with one exception: `twoClusters` has a label that changes the name of a shoot, so
`ReadyHasShoot` and `ShootNeverTakenOver` are only model-checked for such labels, and the theorems about them are for labels that
keep the name (`StableNames`). `NoOrphanedShoot`, `OneShootPerCluster` and the refinement of `ShootLifecycle` do not hold
for such labels, and no run says so.

## What is not modelled

* JSON patches and resources of ClusterConfigs; in particular patches that change name or namespace of a
  shoot, which the documents warn of. Of a ClusterConfig the extensions are modelled.
* The shoot template and everything in a manifest that no property is about; endpoints; the labels
  `ensureClusterLabels` writes.
* resourceVersions: a write conflicts exactly if the shoot differs from what was read. A change back and
  forth in between would conflict in the code and is accepted here.
* A Cluster that is created again under its name starts without labels and status, but its namesake's
  pending request is the same, as in the work queue; UIDs are not modelled, except that objects of a Cluster
  that is gone are known as such (`ownerless`).
* Users who remove the provider's own finalizer; a label with an empty value; a shoot-name label that
  changes in the same update as the spec; users who change objects on a shoot that carry the labels of an
  AccessRequest, or give an object of the same name other labels.
* ProviderConfigs and AccessRequests of other providers (they are skipped, and the reference does not change).
* An AccessRequest whose Cluster loses its shoot and gets a new one is not reconciled before something else
  wakes it: its kubeconfig is then of a shoot that is gone, which is why `GrantIsExact` speaks of the shoot the
  kubeconfig belongs to.
* Deletion of ClusterConfigs or Clusters with the foreground or orphan policy.
* Reads are taken to be current; the cache of the platform client can lag.
* A failing `RemoveInformer`, and a failing second `InitializeClient` (it acts like missing permission).
* The status updater of `controller-utils` is external: as used, it patches the status, computes the phase
  from all conditions, and returns the error of the reconcile, which is what makes the request come back.
* Channels of capacity 1024 are never full: their readers take no lock.
* Flags, schemes, metrics, webhooks and CRD installation of the process (`app`), and the API types, which are
  data.

## Possible extensions

The plan of this project has been carried out except for one point: `Provider`, the Cluster controller and the
registry run as one on the smallest instance, was given up, because the two refinements say the same for every
instance. What could still be added: caches that lag, and JSON patches that move a shoot.
