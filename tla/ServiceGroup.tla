---------------------------- MODULE ServiceGroup ----------------------------
(***************************************************************************)
(* One service group under every sequence of registrations, removals,      *)
(* priority edits and health changes, each method running to its end       *)
(* before the next one starts.  The overlapping of methods is the subject  *)
(* of other modules; here the question is whether the methods themselves   *)
(* keep the active role with the service that should have it.              *)
(***************************************************************************)
EXTENDS GroupOps

CONSTANT Priorities

ASSUME PrioritiesAssumption == Priorities \subseteq Nat

VARIABLES
  group,      \* the group
  healthy,    \* the members whose isHealthy is set
  priority,   \* Service.priority of each service
  event       \* observation: the PromotionEvent of the last method call

vars == <<group, healthy, priority, event>>

Init ==
  /\ group = NewEmptyServiceGroup
  /\ healthy = {}
  /\ priority \in [Services -> Priorities]
  /\ event = NoEvent

(* The method returned with outcome o. *)
Returns(o) ==
  /\ group' = o.group
  /\ event' = o.event

(* A service joins with the health its repository entry gives it: unhealthy *)
(* if it is new, possibly healthy after a restart of the operator.          *)
Register(s, restored) ==
  /\ group.mu = "free"
  /\ s \notin group.members
  /\ healthy' = healthy \cup restored
  /\ UNCHANGED priority
  /\ \E o \in RegisterService(group, s, healthy', priority) : Returns(o)

(* A service leaves; the manager drops a group whose last member has left   *)
(* and makes a new one for the next registration.                           *)
Remove(s) ==
  /\ group.mu = "free"
  /\ s \in group.members
  /\ healthy' = healthy \ {s}
  /\ UNCHANGED priority
  /\ \E o \in RemoveService(group, s, healthy', priority) :
       IF o.group.members = {} THEN Returns(Quiet(NewEmptyServiceGroup))
                               ELSE Returns(o)

(* The zone carries another priority for s: Assign, then Update. *)
Reconfigure(s, n) ==
  /\ group.mu = "free"
  /\ s \in group.members
  /\ priority' = [priority EXCEPT ![s] = n]
  /\ UNCHANGED healthy
  /\ \E o \in Update(group, healthy, priority') : Returns(o)

Flip(s) == IF s \in healthy THEN healthy \ {s} ELSE healthy \cup {s}

(* OnSuccess or OnFailure sets isHealthy and calls back into the group. *)
HealthChange(s) ==
  /\ group.mu = "free"
  /\ s \in group.members
  /\ healthy' = Flip(s)
  /\ UNCHANGED priority
  /\ \E o \in OnServiceHealthChange(group, s, healthy', priority) : Returns(o)

(* The same on a group whose mutex was never released: isHealthy changes,   *)
(* and the callback waits for the mutex from then on.                       *)
HealthChangeBlocks(s) ==
  /\ group.mu = "held"
  /\ s \in group.members
  /\ healthy' = Flip(s)
  /\ event' = NoEvent
  /\ UNCHANGED <<group, priority>>

Next ==
  \/ \E s \in Services : Register(s, {})
  \/ \E s \in Services : Register(s, {s})
  \/ \E s \in Services : Remove(s)
  \/ \E s \in Services, n \in Priorities : Reconfigure(s, n)
  \/ \E s \in Services : HealthChange(s)
  \/ \E s \in Services : HealthChangeBlocks(s)

Spec == Init /\ [][Next]_vars

-----------------------------------------------------------------------------
TypeOK ==
  /\ group \in Group
  /\ healthy \in SUBSET group.members
  /\ priority \in [Services -> Priorities]
  /\ event \in Event

(* As long as no call has kept the mutex, the active role is with a healthy *)
(* member of the best priority, and with nobody only if no member is        *)
(* healthy: every method leaves the group the way firstHealthy's comment    *)
(* asks for ("the service that SHOULD be active", servicegroup.go:97-99).   *)
ActiveIsBest ==
  group.mu = "free" => group.active \in FirstHealthy(group, healthy, priority)

(* The mode follows the priorities (servicegroup.go:280-281): ActiveActive  *)
(* exactly when all members share one priority.                             *)
ModeFitsPriorities ==
  group.mode = "ActiveActive" <=> AllSamePriority(group.members, priority)

(* sg.active.GetID() in OnServiceHealthChange (lines 120 and 168) is never  *)
(* called on a nil active: a member can only go down while somebody holds   *)
(* the active role.                                                         *)
NoNilDereference == group.mu # "panic"

(* A PromotionEvent announces the service that holds the active role when   *)
(* the call returns, and "the new active service is always healthy, unless  *)
(* no services are healthy" (servicegroup.go:34-36).                        *)
PromotionIsTrue ==
  event # NoEvent => /\ event.new = group.active
                     /\ event.new \in FirstHealthy(group, healthy, priority)

(* In a group of several members the active role never moves silently: the  *)
(* call that moves it raises an event from the previous holder, if there    *)
(* was one, to the new one.  The manager relies on it to withdraw the old   *)
(* DNS record and to publish the new one.                                   *)
MovesAreAnnounced ==
  [][ /\ group'.active # group.active
      /\ ~\E s \in group'.members : OnlyMember(group'.members, s)
      /\ group'.members # {}
      => /\ event'.new = group'.active
         /\ group.active # nil => event'.old = group.active ]_vars

-----------------------------------------------------------------------------
(* What comments and tests say and the code does not do. *)

(* "should get promotion event when active service is UnHealthy in          *)
(* ActivePassive" (servicegroup_test.go:118).                               *)
FailureOfActiveIsAnnounced ==
  [][ /\ group.mode = "ActivePassive"
      /\ group.active \in healthy \ healthy' /\ group.active \in group'.members
      => event'.old = group.active ]_vars
=============================================================================
