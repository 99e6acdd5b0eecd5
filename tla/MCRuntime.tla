------------------------------- MODULE MCRuntime -------------------------------
(* Few landscapes and ProviderConfigs. *)
EXTENDS RuntimeInvariant
CONSTANTS l1, l2, p1, p2, t1, t2
===============================================================================
