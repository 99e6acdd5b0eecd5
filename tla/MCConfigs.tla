-------------------------------- MODULE MCConfigs --------------------------------
(* Two ClusterConfigs that set the same extension, which the template leaves open   *)
(* and the profile does not enforce.                                                *)
EXTENDS ClusterConfigs, TLC
CONSTANTS c1, c2, k1, k2, e1, v1, v2

\* One reference, both in either order, or none.
MCRefLists == {<<>>, <<k1>>, <<k1, k2>>, <<k2, k1>>}
\* k2 may say nothing of the extension.
MCContentsOf == (k1 :> {e1 :> v1, e1 :> v2}) @@ (k2 :> {e1 :> v2, e1 :> None})
MCTemplate == [e \in Exts |-> None]
MCEnforced == [e \in Exts |-> v1]
==================================================================================
