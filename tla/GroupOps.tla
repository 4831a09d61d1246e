------------------------------ MODULE GroupOps ------------------------------
(***************************************************************************)
(* The methods of ServiceGroup (internal/manager/servicegroup.go) as       *)
(* operators.  A group is a record of the fields of the Go struct; h is    *)
(* the set of healthy services and p their priorities.  A method denotes   *)
(* the set of outcomes it may have, each a group and the PromotionEvent it *)
(* passes to OnPromotion (NoEvent when it passes none).                    *)
(*                                                                         *)
(* Members is a set here: the slice is sorted by priority on every update, *)
(* and members of equal priority are ordered by measured roundtrip times,  *)
(* which the model leaves open.  "First healthy member" is therefore any   *)
(* healthy member of the best priority.                                    *)
(***************************************************************************)
EXTENDS Integers

CONSTANTS
  Services,    \* identifiers of the services that may join a group
  EmptyDC,     \* the services configured without a datacenter
  nil          \* no service

ASSUME GroupAssumption ==
  /\ nil \notin Services
  /\ EmptyDC \subseteq Services

Event == [new : Services \cup {nil}, old : Services \cup {nil}]

NoEvent == [new |-> nil, old |-> nil]

(* mu is the group's mutex between two calls: "held" if a call returned     *)
(* without unlocking it, "panic" if a call dereferenced a nil active.       *)
Group == [members    : SUBSET Services,
          mode       : {"ActiveActive", "ActivePassive"},
          active     : Services \cup {nil},
          lastActive : Services \cup {nil},
          mu         : {"free", "held", "panic"}]

NewEmptyServiceGroup ==
  [members |-> {}, mode |-> "ActiveActive", active |-> nil, lastActive |-> nil,
   mu |-> "free"]

Outcome(g, new, old) == [group |-> g, event |-> [new |-> new, old |-> old]]

Quiet(g) == [group |-> g, event |-> NoEvent]

-----------------------------------------------------------------------------
(* The healthy members that sortMembersFunc can put before all others. *)
BestOf(S, p) == {s \in S : \A t \in S : p[s] <= p[t]}

(* firstHealthy; promoteNextHealthy picks its service the same way. *)
FirstHealthy(g, h, p) ==
  IF g.members \cap h = {} THEN {nil} ELSE BestOf(g.members \cap h, p)

(* GetActive. *)
GetActive(g, h, p) ==
  IF g.mode = "ActivePassive" \/ g.members \cap h = {}
    THEN {g.active} ELSE BestOf(g.members \cap h, p)

AllSamePriority(S, p) == \A s, t \in S : p[s] = p[t]

OnlyMember(S, s) == \A t \in S : t = s

(* The mode the priorities of the members ask for. *)
ModeOf(g, p) ==
  IF AllSamePriority(g.members, p) THEN "ActiveActive" ELSE "ActivePassive"

(* SetGroupMode, for a group that has members.  An only member becomes      *)
(* active here, if it is healthy, and not by way of a promotion.            *)
SetGroupMode(g, h, p) ==
  {[g EXCEPT !.mode = ModeOf(g, p), !.active = only] :
     only \in IF \E s \in g.members : OnlyMember(g.members, s)
               THEN FirstHealthy(g, h, p) ELSE {g.active}}

(* Mutant: the event is built before the active service is replaced. *)
PromoteStale(g, next) ==
  IF next = g.active THEN Quiet(g)
  ELSE Outcome([g EXCEPT !.lastActive = g.active, !.active = next],
               g.active, g.lastActive)

(* The end of Update: whoever is active should not be active anymore. *)
Promote(g, next) ==
  IF next = g.active THEN Quiet(g)
  ELSE Outcome([g EXCEPT !.lastActive = g.active, !.active = next],
               next, g.active)

(* Mutant: the group is not looked at again after the mode has been set. *)
UpdateModeOnly(g, h, p) ==
  IF g.members = {} THEN {Quiet(g)}
  ELSE {Quiet(m) : m \in SetGroupMode(g, h, p)}

(* Update: sort, set the mode, then hand the active role to the service     *)
(* that should have it.                                                     *)
Update(g, h, p) ==
  IF g.members = {} THEN {Quiet(g)}
  ELSE {Promote(m, next) : m \in SetGroupMode(g, h, p),
                           next \in FirstHealthy(g, h, p)}

(* Mutant: the test for an existing member is the wrong way round. *)
RegisterKnownOnly(g, s, h, p) ==
  IF s \notin g.members THEN {Quiet(g)} ELSE Update(g, h, p)

RegisterService(g, s, h, p) ==
  IF s \in g.members THEN {Quiet(g)}
  ELSE Update([g EXCEPT !.members = @ \cup {s}], h, p)

RemoveService(g, s, h, p) ==
  IF s \in g.members THEN Update([g EXCEPT !.members = @ \ {s}], h, p)
  ELSE {Quiet(g)}

-----------------------------------------------------------------------------
(* OnServiceHealthChange of s, whose new health is s \in h. *)

Leak(g) == Quiet([g EXCEPT !.mu = "held"])

Panic(g) == Quiet([g EXCEPT !.mu = "panic"])

TriggerPromotion(g, s, h, p) ==
  s \in h /\ (g.active = nil \/ g.active \notin h \/ p[s] <= p[g.active])

(* The service an ActivePassive promotion names as its predecessor. *)
OldActive(g) == IF g.active = nil THEN g.lastActive ELSE g.active

PassiveDown(g, s, h, p) ==
  IF g.active = nil THEN {Panic(g)}
  ELSE IF g.active = s
    THEN {Outcome([g EXCEPT !.lastActive = s, !.active = next], next, s) :
            next \in FirstHealthy(g, h, p)}
    ELSE {Leak(g)}

PassiveUp(g, s, h, p) ==
  IF TriggerPromotion(g, s, h, p)
    THEN {Outcome([g EXCEPT !.lastActive = g.active, !.active = s], s, OldActive(g))}
    ELSE {Leak(g)}

(* prioritizedDatacenter is never assigned, so it is the empty string. *)
InPrioritizedDatacenter(s) == s \in EmptyDC

(* Mutant: the active field is not set after the event has been raised. *)
ActiveUpForgets(g, s, h, p) ==
  IF g.active = nil \/ g.active \notin h \/ s \in EmptyDC
    THEN {Outcome(g, s, g.active)} ELSE {Leak(g)}

ActiveUp(g, s, h, p) ==
  IF \/ InPrioritizedDatacenter(s) /\ s # g.active
     \/ g.active = nil
     \/ g.active \notin h
    THEN {Outcome([g EXCEPT !.active = s], s, g.active)}
    ELSE {Leak(g)}

ActiveDown(g, s, h, p) ==
  IF g.active = nil THEN {Panic(g)}
  ELSE IF g.active = s
    THEN {Outcome([g EXCEPT !.lastActive = s, !.active = next], next, s) :
            next \in FirstHealthy(g, h, p)}
    ELSE {Leak(g)}

OnServiceHealthChange(g, s, h, p) ==
  IF g.mode = "ActivePassive"
    THEN IF s \in h THEN PassiveUp(g, s, h, p) ELSE PassiveDown(g, s, h, p)
    ELSE IF s \in h THEN ActiveUp(g, s, h, p) ELSE ActiveDown(g, s, h, p)
=============================================================================
