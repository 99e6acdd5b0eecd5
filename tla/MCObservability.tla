------------------------------ MODULE MCObservability ------------------------------
(* A Cluster whose shoots have monitoring secrets of different contents.            *)
EXTENDS Observability
CONSTANTS c1, c2, x, y
====================================================================================
