----------------------------- MODULE ShootLifecycle -----------------------------
(***************************************************************************)
(* What the provider promises for every Cluster, without saying how: a     *)
(* shoot is only provided while the provider holds the Cluster back from   *)
(* disappearing, is only terminated for a Cluster in deletion, and the     *)
(* Cluster is only released when its shoot is gone.                        *)
(***************************************************************************)
CONSTANT Clusters

VARIABLES
  stage,  \* Cluster -> "absent", "live" or "deleting"
  held,   \* Clusters that carry the provider's finalizer
  shoot   \* Cluster -> "none", "running" or "terminating"

vars == <<stage, held, shoot>>

Init ==
  /\ stage = [c \in Clusters |-> "absent"]
  /\ held = {}
  /\ shoot = [c \in Clusters |-> "none"]

\* Users create and delete Clusters; one that is not held may just disappear.
Appear(c) == /\ stage[c] = "absent"
             /\ stage' = [stage EXCEPT ![c] = "live"]
             /\ UNCHANGED <<held, shoot>>

Withdraw(c) == /\ stage[c] = "live"
               /\ stage' = [stage EXCEPT ![c] = "deleting"]
               /\ UNCHANGED <<held, shoot>>

Vanish(c) == /\ stage[c] # "absent" /\ c \notin held
             /\ stage' = [stage EXCEPT ![c] = "absent"]
             /\ UNCHANGED <<held, shoot>>

Hold(c) == /\ stage[c] = "live" /\ c \notin held
           /\ held' = held \cup {c}
           /\ UNCHANGED <<stage, shoot>>

Provide(c) == /\ c \in held /\ shoot[c] = "none"
              /\ shoot' = [shoot EXCEPT ![c] = "running"]
              /\ UNCHANGED <<stage, held>>

Terminate(c) == /\ stage[c] = "deleting" /\ shoot[c] = "running"
                /\ shoot' = [shoot EXCEPT ![c] = "terminating"]
                /\ UNCHANGED <<stage, held>>

Terminated(c) == /\ shoot[c] = "terminating"
                 /\ shoot' = [shoot EXCEPT ![c] = "none"]
                 /\ UNCHANGED <<stage, held>>

Release(c) == /\ stage[c] = "deleting" /\ c \in held /\ shoot[c] = "none"
              /\ stage' = [stage EXCEPT ![c] = "absent"]
              /\ held' = held \ {c}
              /\ UNCHANGED shoot

Next == \E c \in Clusters :
  \/ Appear(c) \/ Withdraw(c) \/ Vanish(c) \/ Hold(c)
  \/ Provide(c) \/ Terminate(c) \/ Terminated(c) \/ Release(c)

Spec == Init /\ [][Next]_vars
=================================================================================
