-------------------------------- MODULE MCVersions --------------------------------
(* CloudProfiles with one version in up to three stages, in any order and also      *)
(* with equal or missing start times, and CloudProfiles with three versions in any  *)
(* order, with the old field or with one or two stages.                             *)
EXTENDS Versions

V(n, p) == [minor |-> n, patch |-> p]
Times == (0..MaxTime) \cup {None}
Lives(classes) == {[i \in 1..Len(classes) |-> [class |-> classes[i], start |-> f[i]]]
                     : f \in [1..Len(classes) -> Times]}

MCSingle ==
  {<<[ver |-> V(31, 0), class |-> None, life |-> l]>> :
     l \in {<<>>} \cup Lives(<<"preview", "supported", "deprecated">>)
             \cup Lives(<<"expired", "deprecated", "supported">>)
             \cup UNION {Lives(<<a, b>>) : a \in Classes, b \in Classes}}
MCClassified(v) ==
  {[ver |-> v, class |-> a, life |-> <<>>] : a \in {"preview", "supported", "deprecated"}}
MCStaged(v) ==
  {[ver |-> v, class |-> None,
    life |-> <<[class |-> "supported", start |-> 0], [class |-> a, start |-> 1]>>]
     : a \in {"deprecated", "expired"}}
MCSeveral ==
  {<<x[p[1]], x[p[2]], x[p[3]]>> :
     x \in {<<a, b, c>> : a \in MCClassified(V(31, 0)), b \in MCStaged(V(31, 1)),
                          c \in MCClassified(V(32, 0))},
     p \in {<<1, 2, 3>>, <<3, 2, 1>>, <<2, 3, 1>>}}
MCOfferLists == MCSingle \cup MCSeveral
MCMinors == {31, 32}
MCPatches == {0, 1}
===================================================================================
