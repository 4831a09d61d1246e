---------------------------- MODULE MCCallbacks ----------------------------
(* Two members, of one priority (ActiveActive) or of two (ActivePassive). *)
EXTENDS Callbacks

CONSTANTS s1, s2

MCAssignments == {[s \in Services |-> 1], [s \in Services |-> IF s = s1 THEN 1 ELSE 2]}

=============================================================================
