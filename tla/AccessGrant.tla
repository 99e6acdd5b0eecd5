------------------------------- MODULE AccessGrant -------------------------------
(***************************************************************************)
(* What the provider promises for every AccessRequest, without saying how: *)
(* permissions on a shoot only exist for a request that the provider holds *)
(* back from disappearing, only ever change for one request at a time      *)
(* (unless the shoot goes), and a request is released without any left.    *)
(***************************************************************************)
CONSTANTS
  Requests,   \* names of AccessRequest resources
  ClusterOf,  \* AccessRequest -> the Cluster it refers to
  Objects     \* what may be created on a shoot for an AccessRequest

VARIABLES
  stage,  \* AccessRequest -> "absent", "live" or "deleting"
  held,   \* AccessRequests that carry the provider's finalizer
  perms   \* AccessRequest -> the objects on the shoot that carry its labels

vars == <<stage, held, perms>>

Init ==
  /\ stage = [r \in Requests |-> "absent"]
  /\ held = {}
  /\ perms = [r \in Requests |-> {}]

Appear(r) == /\ stage[r] = "absent"
             /\ stage' = [stage EXCEPT ![r] = "live"]
             /\ UNCHANGED <<held, perms>>

Withdraw(r) == /\ stage[r] = "live" /\ r \in held
               /\ stage' = [stage EXCEPT ![r] = "deleting"]
               /\ UNCHANGED <<held, perms>>

Vanish(r) == /\ stage[r] = "live" /\ r \notin held
             /\ stage' = [stage EXCEPT ![r] = "absent"]
             /\ UNCHANGED <<held, perms>>

Hold(r) == /\ stage[r] = "live" /\ r \notin held
           /\ held' = held \cup {r}
           /\ UNCHANGED <<stage, perms>>

\* Permissions are given, replaced or withdrawn.
Adjust(r) == /\ r \in held
             /\ \E S \in SUBSET Objects : perms' = [perms EXCEPT ![r] = S]
             /\ UNCHANGED <<stage, held>>

\* The shoot disappears with everything on it.
ShootGone == /\ \E r \in Requests :
                  perms' = [q \in Requests |->
                              IF ClusterOf[q] = ClusterOf[r] THEN {} ELSE perms[q]]
             /\ UNCHANGED <<stage, held>>

Release(r) == /\ stage[r] = "deleting" /\ r \in held /\ perms[r] = {}
              /\ stage' = [stage EXCEPT ![r] = "absent"]
              /\ held' = held \ {r}
              /\ UNCHANGED perms

Next == ShootGone \/ \E r \in Requests :
  \/ Appear(r) \/ Withdraw(r) \/ Vanish(r) \/ Hold(r) \/ Adjust(r) \/ Release(r)

Spec == Init /\ [][Next]_vars
=================================================================================
