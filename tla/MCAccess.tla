--------------------------------- MODULE MCAccess ---------------------------------
(* AccessRequests for one Cluster: odd generations ask for a token with a role of    *)
(* its own, even ones for OIDC with other rules in the role of the same name and a   *)
(* binding of a ClusterRole.                                                         *)
EXTENDS AccessInvariant, TLC
CONSTANTS r1, r2, c1, account, oidc, role, otherRules, binding, roleRef

MCClusterOf == [r \in Requests |-> c1]
MCKindOf == account :> "ServiceAccount" @@ oidc :> "OpenIDConnect" @@ role :> "Role"
            @@ otherRules :> "Role" @@ binding :> "RoleBinding"
            @@ roleRef :> "ClusterRoleBinding"
MCNameOf == [o \in Objects |-> IF o = otherRules THEN role ELSE o]
MCBoundTo == [o \in Objects |-> IF o = binding THEN role ELSE None]
MCWanted ==
  [r \in Requests |-> [g \in Generations |->
     IF g % 2 = 1 THEN [token |-> TRUE, objects |-> {account, role, binding}]
                  ELSE [token |-> FALSE, objects |-> {oidc, otherRules, roleRef}]]]
\* One OIDC request that is given another role.
MCWantedOIDC ==
  [r \in Requests |-> [g \in Generations |->
     [token |-> FALSE, objects |-> {oidc, IF g = 1 THEN role ELSE otherRules}]]]
===================================================================================
