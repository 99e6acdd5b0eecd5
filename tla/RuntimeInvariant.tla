--------------------------- MODULE RuntimeInvariant ---------------------------
(* The inductive invariant of RuntimeConfig. *)
EXTENDS RuntimeConfig

\* No ProviderConfig changes the landscape it names.
FixedLandscapes == "retarget" \notin Env

\* Only a resource with the finalizer can be in deletion, and one that has it
\* is there.
HeldInv ==
  \A n \in Resources : /\ stage[n] = "deleting" => n \in held
                       /\ n \in held => stage[n] # "absent"

\* Past the finalizer the worker's resource is held; a ProviderConfig is about
\* to be released only without its ClusterProfile, and a profile about to be
\* published only with its landscape at hand.
WorkerInv ==
  /\ w.pc \notin {"idle", "landscapeFinalizer", "configFinalizer"} => w.n \in held
  /\ w.pc = "releaseConfig" => w.n \notin published
  /\ w.pc = "publish" => landscapes[w.spec.ls] = "ready"

\* Under FixedLandscapes, what is registered and what the worker read of a
\* ProviderConfig name the same landscape; a registered profile has its
\* ProviderConfig registered, and a Landscape about to be released has none.
ReferenceInv ==
  /\ \A p \in Configs :
       /\ configs[p] # None => configs[p].ls = spec[p].ls
       /\ profiles[p] # None => configs[p] # None /\ profiles[p].ls = spec[p].ls
  /\ w.pc \in ConfigCalls => w.spec.ls = spec[w.n].ls
  /\ w.pc = "releaseLandscape" => Referencing(w.n) = {}

\* What the worker and the registry rely on between two calls; with it no
\* ClusterProfile is orphaned and no landscape in use released.
RuntimeInv ==
  /\ TypeOK /\ HeldInv /\ WorkerInv
  /\ published \subseteq held
  /\ FixedLandscapes => ReferenceInv

-------------------------------------------------------------------------------
(* The inductive invariant of SettledIsRegistered, on top of RuntimeInv. *)

\* Nothing is registered of a resource that is not held, unless it is about to be
\* reconciled.
NothingKept(n) ==
  n \notin held /\ n \notin queue /\ w.n # n =>
    /\ n \in Configs => configs[n] = None /\ profiles[n] = None
    /\ n \in Landscapes => landscapes[n] = "unknown" /\ n \notin offers /\ n \notin watch

\* A landscape that got lost under a settled ProviderConfig will not be forgotten
\* for good, as its finalizer keeps it there; and it is not about to be released.
LandscapeStays ==
  /\ \A p \in Configs :
       Settled(p) /\ stage[p] = "live" /\ landscapes[spec[p].ls] = "unknown"
         => spec[p].ls \in held
  /\ w.pc = "releaseLandscape" => Referencing(w.n) = {}

\* Unless it is asked for once more, what the worker knows of its resource is still
\* true, and a reconcile that has not registered the landscape ends with an error.
WorkerKnows ==
  /\ w.pc = "idle" => w.n = None
  /\ w.pc = "status" /\ landscapes[w.n] = "unknown" => w.failed
  /\ w.pc # "idle" /\ w.n \notin queue /\ w.n \notin ignored =>
       /\ w.pc \in {"landscapeFinalizer", "configFinalizer"} => stage[w.n] # "deleting"
       /\ w.pc \in {"access", "lookup", "publish"} => stage[w.n] = "live"
       /\ w.pc \in {"unpublish", "releaseConfig", "releaseLandscape"} => stage[w.n] = "deleting"
       /\ w.pc \in {"lookup", "publish"} => w.spec = spec[w.n]
       /\ w.pc = "status" /\ ~w.failed =>
            /\ landscapes[w.n] = IF stage[w.n] = "live" THEN "ready" ELSE "noclient"
            /\ stage[w.n] # "absent"
            /\ w.n \in offers <=> w.project

SettledInv ==
  /\ \A n \in Resources : NothingKept(n)
  /\ LandscapeStays
  /\ WorkerKnows
  /\ SettledIsRegistered
===============================================================================
