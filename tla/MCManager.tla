----------------------------- MODULE MCManager -----------------------------
(* Three services and two groups: s1 and s2 stay in g1, with priorities 1   *)
(* and 2, and s3 moves between the groups, and the intervals with them.     *)
EXTENDS Manager

CONSTANTS s1, s2, s3, g1, g2

MCConfigs == [s \in Services |-> CASE s = s1 -> {<<g1, 1>>}
                                   [] s = s2 -> {<<g1, 2>>}
                                   [] s = s3 -> {<<g1, 1>>, <<g2, 2>>}]

=============================================================================
