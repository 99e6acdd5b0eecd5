------------------------------- MODULE Registry -------------------------------
(***************************************************************************)
(* The registry of profiles and landscapes that the controllers share      *)
(* (RuntimeConfiguration), as the Cluster controller sees it between its   *)
(* reconciles.  ClusterController lets the registry change in these ways;  *)
(* RuntimeConfig shows that the other two controllers change it in no      *)
(* other.                                                                  *)
(***************************************************************************)
CONSTANTS Profiles, Landscapes,
          Specs,     \* what a profile may be; field ls names its landscape
          None       \* no such profile registered

VARIABLES
  profiles,    \* Profile -> its registered spec, or None
  published,   \* profiles with a ClusterProfile on the platform cluster
  landscapes,  \* Landscape -> "unknown", "noclient" or "ready"
  watch        \* landscapes whose shoot informer delivers events

registry == <<profiles, published, landscapes, watch>>

Init ==
  /\ profiles = [p \in Profiles |-> None]
  /\ published = {}
  /\ landscapes = [l \in Landscapes |-> "unknown"]
  /\ watch = {}

\* A profile is registered with its landscape at hand and published at once.
Register(p, s) ==
  /\ landscapes[s.ls] = "ready"
  /\ profiles' = [profiles EXCEPT ![p] = s]
  /\ published' = published \cup {p}
  /\ UNCHANGED <<landscapes, watch>>

\* Publishing succeeds and the registration does not, as its answer is lost.
Publish(p) ==
  /\ published' = published \cup {p}
  /\ UNCHANGED <<profiles, landscapes, watch>>

\* Memory and platform cluster forget a profile together or one by one.
Unregister(p) ==
  /\ \/ /\ profiles' = [profiles EXCEPT ![p] = None]
        /\ published' \in {published, published \ {p}}
     \/ published' = published \ {p} /\ UNCHANGED profiles
  /\ UNCHANGED <<landscapes, watch>>

SetLandscape(l) ==
  /\ landscapes' = [landscapes EXCEPT ![l] = "ready"]
  /\ watch' \in {watch \ {l}, watch \cup {l}}
  /\ UNCHANGED <<profiles, published>>

LoseLandscape(l) ==
  /\ \E s \in {"unknown", "noclient"} : landscapes' = [landscapes EXCEPT ![l] = s]
  /\ watch' = watch \ {l}
  /\ UNCHANGED <<profiles, published>>

Restart ==
  /\ profiles' = [p \in Profiles |-> None]
  /\ landscapes' = [l \in Landscapes |-> "unknown"]
  /\ watch' = {}
  /\ UNCHANGED published

Next ==
  \/ \E p \in Profiles : Publish(p) \/ Unregister(p) \/ \E s \in Specs : Register(p, s)
  \/ \E l \in Landscapes : SetLandscape(l) \/ LoseLandscape(l)
  \/ Restart

Spec == Init /\ [][Next]_registry
===============================================================================
