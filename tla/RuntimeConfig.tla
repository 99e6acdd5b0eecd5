----------------------------- MODULE RuntimeConfig -----------------------------
(***************************************************************************)
(* The Landscape controller and the ProviderConfig controller              *)
(* (internal/controllers/landscape, internal/controllers/config) and the   *)
(* RuntimeConfiguration they fill (internal/controllers/shared).           *)
(*                                                                         *)
(* Both controllers hold the write lock of the RuntimeConfiguration for a  *)
(* whole reconcile, so at most one of them works at a time: one worker w   *)
(* stands for the two.  The lock orders them but does not stop the world:  *)
(* users edit resources, access to Gardener comes and goes, calls fail     *)
(* (with or without having taken effect), and the process crashes.         *)
(***************************************************************************)
EXTENDS Naturals

CONSTANTS
  Landscapes,    \* names of Landscape resources
  Configs,       \* names of ProviderConfig resources, and of their profiles
  Templates,     \* what else a ProviderConfig says
  Accesses,      \* what the kubeconfig of a Landscape may be good for
  None,
  MaxFaults,     \* bound on failed calls and crashes
  Env            \* the environment behaviours that are switched on

Resources == Landscapes \cup Configs
Specs == [ls : Landscapes, tmpl : Templates]

ASSUME ConstantsAssumption ==
  /\ Landscapes \cap Configs = {}
  /\ None \notin Resources \cup Specs
  /\ Templates # {} /\ Accesses # {}
  /\ Accesses \subseteq {"none", "denied", "empty", "granted"}
  /\ MaxFaults \in Nat

VARIABLES
  stage,       \* Resource -> "absent", "live" or "deleting"
  held,        \* resources with the finalizer of their controller
  ignored,     \* resources with the ignore annotation
  spec,        \* Config -> its spec
  access,      \* Landscape -> what its kubeconfig is good for: "none" (no client
               \* can be built), "denied", "empty" (no project) or "granted"
  projects,    \* Landscapes whose status lists the project
  configs,     \* memory: Config -> the spec of the registered ProviderConfig
  profiles,    \* memory: Config -> the spec its profile was built from
  landscapes,  \* memory: Landscape -> "unknown", "noclient" or "ready"
  offers,      \* memory: registered landscapes that list the project
  published,   \* Configs with a ClusterProfile on the platform cluster
  watch,       \* Landscapes whose shoot informer delivers events
  queue,       \* resources with a pending reconcile request
  w,           \* the worker
  faults       \* failures so far

resourceVars == <<stage, held, ignored, spec, access>>
landscapeVars == <<landscapes, offers, watch>>
profileVars == <<configs, profiles, published>>
vars == <<resourceVars, projects, landscapeVars, profileVars, queue, w, faults>>

(***************************************************************************)
(* The worker: its next call (pc), the resource n it reconciles, the spec  *)
(* of a ProviderConfig as it read it, whether the Landscape status it will *)
(* write lists the project, and whether the reconcile has failed.          *)
(***************************************************************************)
Idle == [pc |-> "idle", n |-> None, spec |-> None, project |-> FALSE, failed |-> FALSE]

LandscapeCalls == {"landscapeFinalizer", "access", "status", "releaseLandscape"}
ConfigCalls == {"configFinalizer", "lookup", "publish", "unpublish", "releaseConfig"}

WorkerType ==
  /\ w \in [pc : {"idle"} \cup LandscapeCalls \cup ConfigCalls, n : Resources \cup {None},
            spec : Specs \cup {None}, project : BOOLEAN, failed : BOOLEAN]
  /\ w.pc \in LandscapeCalls => w.n \in Landscapes
  /\ w.pc \in ConfigCalls => w.n \in Configs /\ w.spec \in Specs

\* Every variable has its type, and the worker what its next call needs.
TypeOK ==
  /\ stage \in [Resources -> {"absent", "live", "deleting"}]
  /\ held \in SUBSET Resources /\ ignored \in SUBSET Resources
  /\ spec \in [Configs -> Specs]
  /\ access \in [Landscapes -> Accesses]
  /\ projects \in SUBSET Landscapes
  /\ configs \in [Configs -> Specs \cup {None}]
  /\ profiles \in [Configs -> Specs \cup {None}]
  /\ landscapes \in [Landscapes -> {"unknown", "noclient", "ready"}]
  /\ offers \in SUBSET Landscapes /\ watch \in SUBSET Landscapes
  /\ published \in SUBSET Configs
  /\ queue \in SUBSET Resources
  /\ faults \in 0..MaxFaults
  /\ WorkerType

Init ==
  /\ stage = [n \in Resources |-> "absent"]
  /\ held = {} /\ ignored = {} /\ projects = {}
  /\ spec \in [Configs -> Specs]
  /\ access \in [Landscapes -> Accesses]
  /\ configs = [p \in Configs |-> None]
  /\ profiles = [p \in Configs |-> None]
  /\ landscapes = [l \in Landscapes |-> "unknown"]
  /\ offers = {} /\ published = {} /\ watch = {} /\ queue = {}
  /\ w = Idle
  /\ faults = 0

Fault == faults < MaxFaults /\ faults' = faults + 1
NoFault == UNCHANGED faults

Enqueue(n) == queue' = IF n \in ignored THEN queue ELSE queue \cup {n}

\* Mutant of Retry: the request is dropped.
GiveUp == w' = Idle /\ UNCHANGED queue

\* The reconcile ends with an error: the request is queued again.
Retry == w' = Idle /\ queue' = queue \cup {w.n}

-------------------------------------------------------------------------------
(***************************************************************************)
(* Starting a reconcile: the resource is read.                             *)
(***************************************************************************)
Dequeue(n) == w.pc = "idle" /\ n \in queue

Gone(n) == stage[n] = "absent" \/ n \in ignored

Call(n, pc) == w' = [Idle EXCEPT !.pc = pc, !.n = n]

\* The registered ProviderConfigs that name landscape l.
Referencing(l) == {p \in Configs : configs[p] # None /\ configs[p].ls = l}

\* Mutant of Concerned: they are not told.
NobodyConcerned(n) == {}

\* The ProviderConfigs that hear of a reconcile of n that ends without a
\* landscape although one was registered - also if calls to the platform cluster
\* failed and the registered one stays.
Concerned(n) ==
  IF n \in Landscapes /\ landscapes[n] # "unknown" THEN Referencing(n) ELSE {}

\* Mutant of RetryUnknown: the request is dropped.
GiveUpUnknown(n) == w' = Idle /\ queue' = queue \ {n}

\* The state of n stays unknown: nothing is registered or unregistered.
RetryUnknown(n) == w' = Idle /\ queue' = queue \cup {n} \cup Concerned(n)

\* The Get or the removal of the reconcile annotation fails.
ReadFails(n) ==
  /\ Dequeue(n) /\ Fault
  /\ RetryUnknown(n)
  /\ UNCHANGED <<resourceVars, projects, landscapeVars, profileVars>>

Unregistered(l) ==
  /\ landscapes' = [landscapes EXCEPT ![l] = "unknown"]
  /\ offers' = offers \ {l}
  /\ watch' = watch \ {l}

\* A Landscape that is gone - or ignored, when a request was still pending - is
\* unregistered, and the ProviderConfigs that name it hear of it.
ForgetLandscape(l) ==
  /\ Dequeue(l) /\ Gone(l)
  /\ Unregistered(l)
  /\ queue' = (queue \ {l}) \cup Concerned(l)
  /\ NoFault
  /\ UNCHANGED <<resourceVars, projects, profileVars, w>>

\* Likewise a ProviderConfig; its ClusterProfile is not touched.
ForgetConfig(p) ==
  /\ Dequeue(p) /\ Gone(p)
  /\ configs' = [configs EXCEPT ![p] = None]
  /\ profiles' = [profiles EXCEPT ![p] = None]
  /\ queue' = queue \ {p}
  /\ NoFault
  /\ UNCHANGED <<resourceVars, projects, landscapeVars, published, w>>

ReadLiveLandscape(l) ==
  /\ Dequeue(l) /\ ~Gone(l) /\ stage[l] = "live"
  /\ Call(l, IF l \in held THEN "access" ELSE "landscapeFinalizer")
  /\ queue' = queue \ {l}
  /\ NoFault
  /\ UNCHANGED <<resourceVars, projects, landscapeVars, profileVars>>

\* Mutant of Registered: the old informer goes on.
RegisteredKeepingWatch(l, state, project) ==
  /\ landscapes' = [landscapes EXCEPT ![l] = state]
  /\ offers' = IF project THEN offers \cup {l} ELSE offers \ {l}
  /\ UNCHANGED watch

\* Landscape l is registered with a client or without one.
Registered(l, state, project) ==
  /\ landscapes' = [landscapes EXCEPT ![l] = state]
  /\ offers' = IF project THEN offers \cup {l} ELSE offers \ {l}
  /\ watch' = watch \ {l}

\* The ProviderConfigs that hear of a landscape that has become known.  Nothing
\* else is news: Available() stays TRUE, as condition Meta does.
Woken(l) == IF landscapes[l] = "unknown" THEN Referencing(l) ELSE {}

\* Mutant of DeletingLandscape: nothing holds a Landscape in deletion back.
DeletingUnconditionally(l) ==
  /\ Call(l, "releaseLandscape")
  /\ queue' = queue \ {l}
  /\ UNCHANGED landscapeVars

\* While registered ProviderConfigs name it, a Landscape in deletion stays, but
\* is registered anew without a client; otherwise its finalizer is removed.
DeletingLandscape(l) ==
  \/ /\ Referencing(l) # {}
     /\ Registered(l, "noclient", l \in projects)
     /\ queue' = (queue \ {l}) \cup Woken(l)
     /\ w' = [Idle EXCEPT !.pc = "status", !.n = l, !.project = (l \in projects)]
  \/ /\ Referencing(l) = {}
     /\ Call(l, "releaseLandscape")
     /\ queue' = queue \ {l}
     /\ UNCHANGED landscapeVars

ReadDeletingLandscape(l) ==
  /\ Dequeue(l) /\ ~Gone(l) /\ stage[l] = "deleting"
  /\ DeletingLandscape(l)
  /\ NoFault
  /\ UNCHANGED <<resourceVars, projects, profileVars>>

\* Mutant of NextConfigCall: the finalizer is not awaited.
LookupWithoutFinalizer(p) == IF stage[p] = "deleting" THEN "unpublish" ELSE "lookup"

NextConfigCall(p) ==
  CASE stage[p] = "deleting" -> "unpublish"
    [] stage[p] = "live" /\ p \in held -> "lookup"
    [] OTHER -> "configFinalizer"

ReadConfig(p) ==
  /\ Dequeue(p) /\ ~Gone(p)
  /\ w' = [Idle EXCEPT !.pc = NextConfigCall(p), !.n = p, !.spec = spec[p]]
  /\ queue' = queue \ {p}
  /\ NoFault
  /\ UNCHANGED <<resourceVars, projects, landscapeVars, profileVars>>

StartLandscape(l) == \/ ReadFails(l) \/ ForgetLandscape(l) \/ ReadLiveLandscape(l)
                     \/ ReadDeletingLandscape(l)
StartConfig(p) == ReadFails(p) \/ ForgetConfig(p) \/ ReadConfig(p)

-------------------------------------------------------------------------------
(***************************************************************************)
(* Calls both controllers make.                                            *)
(***************************************************************************)
\* The answer of the finalizer patch brings the resource as it is by then.
AddFinalizer ==
  /\ w.pc \in {"landscapeFinalizer", "configFinalizer"}
  /\ stage[w.n] = "live"
  /\ held' = held \cup {w.n}
  /\ w' = IF w.n \in Landscapes THEN [w EXCEPT !.pc = "access"]
          ELSE [w EXCEPT !.pc = "lookup", !.spec = spec[w.n]]
  /\ NoFault
  /\ UNCHANGED <<stage, ignored, spec, access, projects, landscapeVars, profileVars, queue>>

\* The patch fails: the resource is gone or (as no finalizer can be added to
\* it any more) in deletion, or the call fails.
AddFinalizerFails ==
  /\ w.pc \in {"landscapeFinalizer", "configFinalizer"}
  /\ \/ stage[w.n] # "live" /\ NoFault
     \/ Fault
  /\ RetryUnknown(w.n)
  /\ UNCHANGED <<resourceVars, projects, landscapeVars, profileVars>>

\* The resource loses its last finalizer and is gone.
Released(n) ==
  /\ stage' = [stage EXCEPT ![n] = "absent"]
  /\ held' = held \ {n}
  /\ ignored' = ignored \ {n}
  /\ projects' = projects \ {n}

\* The finalizer patch fails, with or without having taken effect; what is
\* registered stays.
ReleaseFails ==
  /\ w.pc \in {"releaseLandscape", "releaseConfig"}
  /\ Fault
  /\ \/ UNCHANGED <<stage, held, ignored, projects>>
     \/ Released(w.n)
  /\ RetryUnknown(w.n)
  /\ UNCHANGED <<spec, access, landscapeVars, profileVars>>

-------------------------------------------------------------------------------
(***************************************************************************)
(* The Landscape controller.                                               *)
(***************************************************************************)
\* What the reconcile finds out with a kubeconfig that is good for a: without a
\* client or permission the project stays as the status had it, and the
\* reconcile fails; a project that is missing is no error.
Outcome(l, a) ==
  LET project == a = "granted" \/ (a \in {"none", "denied"} /\ l \in projects)
  IN  /\ Registered(l, IF a = "none" THEN "noclient" ELSE "ready", project)
      /\ queue' = queue \cup Woken(l)
      /\ w' = [w EXCEPT !.pc = "status", !.project = project,
                        !.failed = (a \in {"none", "denied"})]

\* The kubeconfig is loaded and tried, the landscape registered.  A failing
\* call looks like a kubeconfig that is good for less ("project": also the Get
\* of the project, which is not retried, may fail).
RegisterLandscape ==
  /\ w.pc = "access"
  /\ \/ Outcome(w.n, access[w.n]) /\ NoFault
     \/ /\ Fault
        /\ \/ Outcome(w.n, "none")
           \/ Outcome(w.n, "denied")
           \/ "project" \in Env /\ Outcome(w.n, "empty")
  /\ UNCHANGED <<resourceVars, projects, profileVars>>

\* The shoot informer cannot be set up: the old one is gone by then, and the
\* landscape stays unregistered.
InformerFails ==
  /\ w.pc = "access" /\ access[w.n] \notin {"none", "denied"}
  /\ Fault
  /\ Unregistered(w.n)
  /\ queue' = queue \cup Woken(w.n)
  /\ w' = [w EXCEPT !.pc = "status", !.project = (access[w.n] = "granted"), !.failed = TRUE]
  /\ UNCHANGED <<resourceVars, projects, profileVars>>

\* Mutant of EndReconcile: errors are not retried.
EndWithoutRetry(failed) == w' = Idle /\ UNCHANGED queue

EndReconcile(failed) == IF failed THEN Retry ELSE w' = Idle /\ UNCHANGED queue

UpdateLandscapeStatus ==
  /\ w.pc = "status"
  /\ \/ /\ projects' = IF w.project THEN projects \cup {w.n} ELSE projects \ {w.n}
        /\ EndReconcile(w.failed)
        /\ NoFault
     \/ EndReconcile(TRUE) /\ Fault /\ UNCHANGED projects
  /\ UNCHANGED <<resourceVars, landscapeVars, profileVars>>

ReleaseLandscape ==
  /\ w.pc = "releaseLandscape"
  /\ Released(w.n)
  /\ Unregistered(w.n)
  /\ w' = Idle
  /\ NoFault
  /\ UNCHANGED <<spec, access, profileVars, queue>>

-------------------------------------------------------------------------------
(***************************************************************************)
(* The ProviderConfig controller.                                          *)
(***************************************************************************)
SetProviderConfiguration(p, s) == configs' = [configs EXCEPT ![p] = s]

\* The landscape is unknown, does not list the project, or has no CloudProfile
\* to offer: the ProviderConfig is registered, its profile stays as it was.
LookupFails ==
  /\ w.pc = "lookup"
  /\ LET l == w.spec.ls
     IN  \/ NoFault /\ (landscapes[l] = "unknown" \/ l \notin offers)
         \/ NoFault /\ landscapes[l] = "ready" /\ access[l] \in {"none", "denied"}
         \/ Fault /\ landscapes[l] = "ready" /\ l \in offers
  /\ SetProviderConfiguration(w.n, w.spec)
  /\ Retry
  /\ UNCHANGED <<resourceVars, projects, landscapeVars, profiles, published>>

\* The missing client is dereferenced; the panic is recovered and retried.
LookupPanics ==
  /\ w.pc = "lookup"
  /\ landscapes[w.spec.ls] = "noclient" /\ w.spec.ls \in offers
  /\ Retry
  /\ NoFault
  /\ UNCHANGED <<resourceVars, projects, landscapeVars, profileVars>>

Lookup ==
  /\ w.pc = "lookup"
  /\ landscapes[w.spec.ls] = "ready" /\ w.spec.ls \in offers
  /\ access[w.spec.ls] \notin {"none", "denied"}
  /\ w' = [w EXCEPT !.pc = "publish"]
  /\ NoFault
  /\ UNCHANGED <<resourceVars, projects, landscapeVars, profileVars, queue>>

\* The ClusterProfile is created or updated and the profile registered; telling
\* the Clusters or updating the status may still fail.
Publish ==
  /\ w.pc = "publish"
  /\ published' = published \cup {w.n}
  /\ SetProviderConfiguration(w.n, w.spec)
  /\ profiles' = [profiles EXCEPT ![w.n] = w.spec]
  /\ \/ EndReconcile(FALSE) /\ NoFault
     \/ EndReconcile(TRUE) /\ Fault
  /\ UNCHANGED <<resourceVars, projects, landscapeVars>>

\* With the platform cluster out of reach nothing is registered.
PublishFails ==
  /\ w.pc = "publish"
  /\ Fault
  /\ published' \in {published, published \cup {w.n}}
  /\ Retry
  /\ UNCHANGED <<resourceVars, projects, landscapeVars, configs, profiles>>

Unpublish ==
  /\ w.pc = "unpublish"
  /\ published' = published \ {w.n}
  /\ w' = [w EXCEPT !.pc = "releaseConfig"]
  /\ NoFault
  /\ UNCHANGED <<resourceVars, projects, landscapeVars, configs, profiles, queue>>

UnpublishFails ==
  /\ w.pc = "unpublish"
  /\ Fault
  /\ published' \in {published, published \ {w.n}}
  /\ Retry
  /\ UNCHANGED <<resourceVars, projects, landscapeVars, configs, profiles>>

ReleaseConfig ==
  /\ w.pc = "releaseConfig"
  /\ Released(w.n)
  /\ configs' = [configs EXCEPT ![w.n] = None]
  /\ profiles' = [profiles EXCEPT ![w.n] = None]
  /\ w' = Idle
  /\ NoFault
  /\ UNCHANGED <<spec, access, landscapeVars, published, queue>>

Step == \/ AddFinalizer \/ AddFinalizerFails \/ ReleaseFails
        \/ RegisterLandscape \/ InformerFails \/ UpdateLandscapeStatus \/ ReleaseLandscape
        \/ LookupFails \/ LookupPanics \/ Lookup \/ Publish \/ PublishFails
        \/ Unpublish \/ UnpublishFails \/ ReleaseConfig

\* The process dies between two calls: memory is lost, and the initial lists
\* enqueue every resource that is not ignored.
Crash ==
  /\ "crash" \in Env
  /\ Fault
  /\ w' = Idle
  /\ configs' = [p \in Configs |-> None]
  /\ profiles' = [p \in Configs |-> None]
  /\ landscapes' = [l \in Landscapes |-> "unknown"]
  /\ offers' = {} /\ watch' = {}
  /\ queue' = {n \in Resources : ~Gone(n)}
  /\ UNCHANGED <<resourceVars, projects, published>>

-------------------------------------------------------------------------------
(***************************************************************************)
(* Users, Gardener and the shoot informers.                                *)
(***************************************************************************)
Create(n) ==
  /\ stage[n] = "absent"
  /\ stage' = [stage EXCEPT ![n] = "live"]
  /\ queue' = queue \cup {n}
  /\ UNCHANGED <<held, ignored, spec, access, projects, landscapeVars, profileVars, w, faults>>

Delete(n) ==
  /\ stage[n] = "live"
  /\ IF n \in held
     THEN stage' = [stage EXCEPT ![n] = "deleting"] /\ UNCHANGED ignored
     ELSE stage' = [stage EXCEPT ![n] = "absent"] /\ ignored' = ignored \ {n}
  /\ Enqueue(n)
  /\ UNCHANGED <<held, spec, access, projects, landscapeVars, profileVars, w, faults>>

\* "retarget" lets the landscape reference change, "reprofile" the template.
ChangeSpec(p) ==
  /\ \E s \in Specs \ {spec[p]} :
       /\ s.ls # spec[p].ls => "retarget" \in Env
       /\ s.tmpl # spec[p].tmpl => "reprofile" \in Env
       /\ spec' = [spec EXCEPT ![p] = s]
  /\ stage[p] # "absent"
  /\ Enqueue(p)
  /\ UNCHANGED <<stage, held, ignored, access, projects, landscapeVars, profileVars, w, faults>>

\* Permissions or the kubeconfig change; only an inline one is seen at once.
ChangeAccess(l) ==
  /\ "access" \in Env
  /\ \E a \in Accesses \ {access[l]} : access' = [access EXCEPT ![l] = a]
  /\ UNCHANGED queue \/ (stage[l] # "absent" /\ Enqueue(l))
  /\ UNCHANGED <<stage, held, ignored, spec, projects, landscapeVars, profileVars, w, faults>>

\* A user asks for a reconcile with the operation annotation, which takes the
\* place of an ignore annotation, or removes the latter.
Annotate(n) ==
  /\ "annotate" \in Env \/ n \in ignored
  /\ stage[n] # "absent"
  /\ queue' = queue \cup {n}
  /\ ignored' = ignored \ {n}
  /\ UNCHANGED <<stage, held, spec, access, projects, landscapeVars, profileVars, w, faults>>

Ignore(n) ==
  /\ "ignore" \in Env
  /\ stage[n] # "absent"
  /\ ignored' = ignored \cup {n}
  /\ UNCHANGED <<stage, held, spec, access, projects, landscapeVars, profileVars, queue, w,
                 faults>>

WatchStarts(l) ==
  /\ landscapes[l] = "ready"
  /\ watch' = watch \cup {l}
  /\ UNCHANGED <<resourceVars, projects, landscapes, offers, profileVars, queue, w, faults>>

\* A shoot watch that ends with an error has its Landscape reconciled.
WatchFails(l) ==
  /\ "watchfails" \in Env
  /\ landscapes[l] = "ready"
  /\ watch' = watch \ {l}
  /\ queue' = queue \cup {l}
  /\ UNCHANGED <<resourceVars, projects, landscapes, offers, profileVars, w, faults>>

Users == \/ \E n \in Resources : Create(n) \/ Delete(n) \/ Annotate(n) \/ Ignore(n)
         \/ \E p \in Configs : ChangeSpec(p)

Gardener == \E l \in Landscapes : ChangeAccess(l) \/ WatchStarts(l) \/ WatchFails(l)

Next == \/ \E l \in Landscapes : StartLandscape(l)
        \/ \E p \in Configs : StartConfig(p)
        \/ Step \/ Crash \/ Users \/ Gardener

Spec == Init /\ [][Next]_vars

(***************************************************************************)
(* Fairness.  The work queues are first-in first-out and the lock is fair  *)
(* (a blocked writer keeps new readers out), so a pending request is       *)
(* eventually taken; a reconcile that has started goes on.                 *)
(***************************************************************************)
Fairness ==
  /\ \A l \in Landscapes : SF_vars(StartLandscape(l))
  /\ \A p \in Configs : SF_vars(StartConfig(p))
  /\ WF_vars(Step)

FairSpec == Spec /\ Fairness

-------------------------------------------------------------------------------
(***************************************************************************)
(* Properties.                                                             *)
(***************************************************************************)
\* No ClusterProfile is left behind: its ProviderConfig exists and holds the
\* provider's finalizer (handleCreateOrUpdate adds it before it publishes,
\* handleDelete removes it after the ClusterProfile).
NoOrphanedProfile ==
  \A p \in published : stage[p] # "absent" /\ p \in held

\* A resource nobody ignores, is working on or has been asked to reconcile.
Settled(n) == n \notin queue /\ w.n # n /\ n \notin ignored

\* No wake-up is lost.  A ProviderConfig at rest is not in deletion; if it exists its
\* profile is published and registered as it is specified, with its landscape
\* registered as well (unless that is to be reconciled or ignored), and if it is gone
\* nothing of it is registered.  A Landscape at rest is registered with what its
\* status shows, without a client if it is in deletion, and not at all if it is
\* gone.  (Whatever ends a reconcile early returns an error, which queues the request
\* again, and Reconcile of the Landscape controller notifies the ProviderConfigs that
\* name a landscape it has found or lost.)
SettledConfig(p) ==
  /\ stage[p] # "deleting"
  /\ stage[p] = "live" =>
       /\ p \in published /\ configs[p] = spec[p] /\ profiles[p] = spec[p]
       /\ landscapes[spec[p].ls] = "unknown" => ~Settled(spec[p].ls)
  /\ stage[p] = "absent" => configs[p] = None /\ profiles[p] = None

SettledLandscape(l) ==
  /\ stage[l] = "live" => landscapes[l] = "ready" /\ (l \in offers <=> l \in projects)
  /\ stage[l] = "deleting" => landscapes[l] = "noclient"
  /\ stage[l] = "absent" => landscapes[l] = "unknown" /\ l \notin offers /\ l \notin watch

SettledIsRegistered ==
  /\ \A p \in Configs : Settled(p) => SettledConfig(p)
  /\ \A l \in Landscapes : Settled(l) => SettledLandscape(l)

\* A Landscape is not released while a registered profile was built from it
\* (handleDelete looks for registered ProviderConfigs that name it).
UsedLandscapeKept ==
  [][\A l \in held \ held' : \A p \in Configs :
        l \in Landscapes /\ profiles[p] # None => profiles[p].ls # l]_vars

\* A Landscape is not released while a ProviderConfig names it that the
\* provider holds ("check if the landscape is still in use by any provider
\* configs", handleDelete).
ReferencedLandscapeKept ==
  [][\A l \in held \ held' : \A p \in Configs \cap held :
        l \in Landscapes => spec[p].ls # l]_vars

\* The registry changes only in the ways the Cluster controller is prepared
\* for.
Reg == INSTANCE Registry WITH Profiles <- Configs
ImplementsRegistry == Reg!Spec

\* A ProviderConfig in deletion is eventually gone, and what one that is gone gave
\* rise to is eventually unregistered.
ConfigDeletionCompletes ==
  \A p \in Configs :
    (stage[p] # "live" /\ p \notin ignored)
      ~> (\/ stage[p] = "live" \/ p \in ignored
          \/ stage[p] = "absent" /\ profiles[p] = None)

\* A live ProviderConfig gets the profile it specifies once its landscape is
\* registered with a client and lists the project.
Usable(l) == landscapes[l] = "ready" /\ l \in offers /\ access[l] = "granted"
ProfileFollowsConfig ==
  \A p \in Configs : \A s \in Specs :
    (stage[p] = "live" /\ p \notin ignored /\ spec[p] = s /\ Usable(s.ls))
      ~> (\/ stage[p] # "live" \/ p \in ignored \/ spec[p] # s \/ ~Usable(s.ls)
          \/ profiles[p] = s)

\* A Landscape with access to the project that is asked for, or that is registered
\* without a client, is eventually registered with one and lists the project ("When a
\* Landscape is reconciled, ... which projects the specified kubeconfig has access to
\* ... is shown").  One whose kubeconfig worked without the project is at rest: a
\* project granted later is found when something else asks for the Landscape.
AccessIsShown ==
  \A l \in Landscapes :
    (/\ stage[l] = "live" /\ l \notin ignored /\ access[l] = "granted"
     /\ l \in queue \/ landscapes[l] # "ready")
      ~> (\/ stage[l] # "live" \/ l \in ignored \/ access[l] # "granted"
          \/ Usable(l) /\ l \in projects)

\* A Landscape in deletion is gone once no ProviderConfig names it any more
\* ("Waiting for ProviderConfigs to stop referencing the Landscape").
LandscapeDeletionCompletes ==
  \A l \in Landscapes :
    (stage[l] = "deleting" /\ \A p \in Configs : stage[p] # "absent" => spec[p].ls # l)
      ~> (\/ stage[l] = "absent"
          \/ \E p \in Configs : stage[p] # "absent" /\ spec[p].ls = l)
=============================================================================
