-------------------------------- MODULE MCShared --------------------------------
(* Clusters whose shoot-name labels may name the same shoots, or change from   *)
(* one name to another.                                                        *)
EXTENDS ClusterController, TLC
CONSTANTS c1, c2, p, ls, ns, x, y, z

MCProfileOf == [c \in Clusters |-> p]
MCProfileSpecs == (p :> {[ls |-> ls, ns |-> ns, ver |-> v] : v \in {1, 2}})
MCHashName == [c \in Clusters |-> IF c = c1 THEN x ELSE z]
\* c1 may be renamed.
MCRenamed == [c \in Clusters |-> IF c = c1 THEN {None, y} ELSE {None}]
\* c2 may be given the name that c1 asks for.
MCContended == [c \in Clusters |-> IF c = c1 THEN {x} ELSE {None, x}]
===============================================================================
