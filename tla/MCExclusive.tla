------------------------------ MODULE MCExclusive ------------------------------
(* Clusters with shoot names of their own in one project of one landscape. *)
EXTENDS ClusterInvariant, TLC
CONSTANTS c1, c2, p, ls, ns, x, y

MCProfileOf == [c \in Clusters |-> p]
MCProfileSpecs == (p :> {[ls |-> ls, ns |-> ns, ver |-> v] : v \in {1, 2}})
MCHashName == [c \in Clusters |-> IF c = c1 THEN x ELSE y]
MCLabelNames == [c \in Clusters |-> {None, MCHashName[c]}]
===============================================================================
