------------------------- MODULE ServiceGroupProofs -------------------------
(***************************************************************************)
(* Proofs about ServiceGroup for any set of services, priorities and       *)
(* datacenters.  The argument: an update leaves the active role with a     *)
(* first healthy member whatever the group was before, and a health change *)
(* keeps it there because in ActiveActive all members are equally good and *)
(* in ActivePassive the handler compares priorities.                       *)
(***************************************************************************)
EXTENDS ServiceGroup, TLAPS

(* Settled(g, h, p): the active role is where it should be, and the mode    *)
(* fits the priorities.                                                     *)
Settled(g, h, p) ==
  /\ g.active \in FirstHealthy(g, h, p)
  /\ g.mode = "ActiveActive" <=> AllSamePriority(g.members, p)

(* The service a group picks is one of its members, or none. *)
LEMMA FirstHealthyType ==
  ASSUME NEW g \in Group, NEW h, NEW p
  PROVE  FirstHealthy(g, h, p) \subseteq g.members \cup {nil}
BY DEF FirstHealthy, BestOf, Group

(* Update settles any group that has members, keeps its members and its     *)
(* mutex, and announces the new active service if it raises an event.       *)
LEMMA UpdateSettles ==
  ASSUME NEW g \in Group, NEW h, NEW p,
         g.members # {}, NEW o \in Update(g, h, p)
  PROVE  /\ o.group \in Group
         /\ o.event \in Event
         /\ o.group.members = g.members
         /\ o.group.mu = g.mu
         /\ Settled(o.group, h, p)
         /\ o.event # NoEvent => o.event.new = o.group.active
         /\ o.event = NoEvent => \/ o.group.active = g.active
                                 \/ \E s \in g.members : OnlyMember(g.members, s)
         /\ o.event # NoEvent /\ (~\E s \in g.members : OnlyMember(g.members, s))
              => o.event.old = g.active
<1>1. PICK m \in SetGroupMode(g, h, p), next \in FirstHealthy(g, h, p) :
        o = Promote(m, next)
  BY DEF Update
<1>2. PICK only \in IF \E s \in g.members : OnlyMember(g.members, s)
                    THEN FirstHealthy(g, h, p) ELSE {g.active} :
        m = [g EXCEPT !.mode = ModeOf(g, p), !.active = only]
  BY <1>1 DEF SetGroupMode
<1>3. only \in Services \cup {nil} /\ next \in Services \cup {nil}
  BY <1>1, <1>2, FirstHealthyType DEF Group
<1>4. /\ m \in Group
      /\ m.members = g.members
      /\ m.mu = g.mu
      /\ m.active = only
      /\ m.mode = ModeOf(g, p)
  BY <1>2, <1>3 DEF Group, ModeOf
<1>5. CASE next = m.active
  <2>1. o.group = m /\ o.event = NoEvent
    BY <1>1, <1>5 DEF Promote, Quiet
  <2>2. Settled(m, h, p)
    BY <1>1, <1>4, <1>5 DEF Settled, FirstHealthy, ModeOf
  <2>3. NoEvent \in Event
    BY DEF NoEvent, Event
  <2> QED
    BY <1>2, <1>4, <2>1, <2>2, <2>3
<1>6. CASE next # m.active
  <2>1. /\ o.group = [m EXCEPT !.lastActive = m.active, !.active = next]
        /\ o.event = [new |-> next, old |-> m.active]
    BY <1>1, <1>6 DEF Promote, Outcome
  <2>2. /\ o.group \in Group
        /\ o.group.members = g.members
        /\ o.group.mu = g.mu
        /\ o.group.active = next
        /\ o.group.mode = ModeOf(g, p)
    BY <2>1, <1>3, <1>4 DEF Group
  <2>3. Settled(o.group, h, p)
    BY <1>1, <2>2 DEF Settled, FirstHealthy, ModeOf
  <2>4. /\ o.event \in Event
        /\ o.event # NoEvent
        /\ o.event.new = next
        /\ o.event.old = only
    BY <2>1, <1>3, <1>4, <1>6 DEF Event, NoEvent
  <2> QED
    BY <1>2, <2>2, <2>3, <2>4
<1> QED
  BY <1>5, <1>6

(* A health change in a settled group either promotes, and the group is     *)
(* settled again, or returns with the mutex held and the group as it was;   *)
(* it never meets a nil active.                                             *)
LEMMA HealthChangeSettles ==
  ASSUME NEW g \in Group, NEW old \in SUBSET g.members, NEW s \in g.members, NEW h,
         NEW p \in [Services -> Priorities],
         h = IF s \in old THEN old \ {s} ELSE old \cup {s},
         g.mu = "free",
         Settled(g, old, p),
         NEW o \in OnServiceHealthChange(g, s, h, p)
  PROVE  /\ o.group \in Group
         /\ o.event \in Event
         /\ o.group.members = g.members
         /\ o.group.mode = g.mode
         /\ o.group.mu \in {"free", "held"}
         /\ o.group.mu = "free" => Settled(o.group, h, p)
         /\ o.event # NoEvent => o.group.mu = "free" /\ o.event.new = o.group.active
         /\ o.event = NoEvent => o.group.active = g.active
         /\ o.event # NoEvent /\ g.active # nil => o.event.old = g.active
<1> DEFINE H == g.members \cap h
<1> HIDE DEF H
<1>0. \A t \in g.members : t \in Services /\ p[t] \in Int
  <2>1. g.members \subseteq Services
    BY DEF Group
  <2>2. \A t \in Services : p[t] \in Priorities
    OBVIOUS
  <2>3. Priorities \subseteq Int
    BY PrioritiesAssumption
  <2> QED
    BY <2>1, <2>2, <2>3
<1>1. NoEvent \in Event
  BY DEF NoEvent, Event
<1>2. ASSUME o = Leak(g)
      PROVE  /\ o.group \in Group
             /\ o.group = [g EXCEPT !.mu = "held"]
             /\ o.event = NoEvent
  BY <1>2 DEF Leak, Quiet, Group
<1>3. CASE s \in h
  <2>1. s \notin old /\ h = old \cup {s} /\ H = h /\ s \in H /\ s \in Services
    BY <1>0, <1>3 DEF H
  <2>2. g.active \in old \cup {nil} /\ (g.active = nil => old = {})
    BY GroupAssumption DEF Settled, FirstHealthy, BestOf, Group
  <2>3. ASSUME NEW l \in Services \cup {nil}, NEW e \in Services \cup {nil},
               o = Outcome([g EXCEPT !.lastActive = l, !.active = s], s, e),
               s \in BestOf(H, p), g.active # nil => e = g.active
        PROVE  /\ o.group \in Group
               /\ o.group = [g EXCEPT !.lastActive = l, !.active = s]
               /\ o.event \in Event /\ o.event # NoEvent
               /\ o.event.new = s /\ o.event.old = e
               /\ Settled(o.group, h, p)
    <3>1. /\ o.group = [g EXCEPT !.lastActive = l, !.active = s]
          /\ o.event = [new |-> s, old |-> e]
      BY <2>3 DEF Outcome
    <3>2. /\ o.group \in Group
          /\ o.group.members = g.members
          /\ o.group.mode = g.mode
          /\ o.group.active = s
      BY <3>1, <2>1 DEF Group
    <3>3. /\ o.event \in Event /\ o.event # NoEvent
          /\ o.event.new = s /\ o.event.old = e
      BY <3>1, <2>1, GroupAssumption DEF Event, NoEvent
    <3>4. Settled(o.group, h, p)
      BY <3>2, <2>1, <2>3 DEF Settled, FirstHealthy, H
    <3> QED
      BY <3>1, <3>2, <3>3, <3>4
  <2>4. CASE g.mode = "ActivePassive"
    <3>1. o \in PassiveUp(g, s, h, p)
      BY <1>3, <2>4 DEF OnServiceHealthChange
    <3>2. CASE TriggerPromotion(g, s, h, p)
      <4>1. o = Outcome([g EXCEPT !.lastActive = g.active, !.active = s], s, OldActive(g))
        BY <3>1, <3>2 DEF PassiveUp
      <4>2. s \in BestOf(H, p)
        <5>1. CASE g.active = nil
          BY <5>1, <1>0, <2>1, <2>2 DEF BestOf
        <5>2. CASE g.active # nil
          <6>1. g.active \in h /\ p[s] <= p[g.active]
            BY <5>2, <2>1, <2>2, <3>2 DEF TriggerPromotion
          <6>2. \A t \in old : p[g.active] <= p[t]
            BY <5>2, <2>2 DEF Settled, FirstHealthy, BestOf
          <6>3. \A t \in old \cup {s} : p[t] \in Int
            BY <1>0
          <6> QED
            BY <6>1, <6>2, <6>3, <2>1, <2>2, <5>2 DEF BestOf
        <5> QED
          BY <5>1, <5>2
      <4>3. g.active \in Services \cup {nil} /\ OldActive(g) \in Services \cup {nil}
        BY DEF OldActive, Group
      <4>4. g.active # nil => OldActive(g) = g.active
        BY DEF OldActive
      <4>5. /\ o.group \in Group
            /\ o.group = [g EXCEPT !.lastActive = g.active, !.active = s]
            /\ o.event \in Event /\ o.event # NoEvent
            /\ o.event.new = s /\ o.event.old = OldActive(g)
            /\ Settled(o.group, h, p)
        BY <4>1, <4>2, <4>3, <4>4, <2>3
      <4> QED
        BY <4>4, <4>5 DEF Group
    <3>3. CASE ~TriggerPromotion(g, s, h, p)
      <4>1. o = Leak(g)
        BY <3>1, <3>3 DEF PassiveUp
      <4> QED
        BY <4>1, <1>1, <1>2 DEF Group
    <3> QED
      BY <3>2, <3>3
  <2>5. CASE g.mode = "ActiveActive"
    <3>1. o \in ActiveUp(g, s, h, p)
      BY <1>3, <2>5 DEF OnServiceHealthChange
    <3>2. s \in BestOf(H, p)
      <4>1. \A t \in g.members : p[s] = p[t] /\ p[t] \in Int
        BY <1>0, <2>5 DEF Settled, AllSamePriority
      <4> QED
        BY <4>1, <2>1 DEF BestOf, H
    <3>3. CASE o = Leak(g)
      BY <3>3, <1>1, <1>2 DEF Group
    <3>4. CASE o = Outcome([g EXCEPT !.active = s], s, g.active)
      <4>1. [g EXCEPT !.active = s] = [g EXCEPT !.lastActive = g.lastActive, !.active = s]
        BY DEF Group
      <4>2. g.active \in Services \cup {nil} /\ g.lastActive \in Services \cup {nil}
        BY DEF Group
      <4>3. /\ o.group \in Group
            /\ o.group = [g EXCEPT !.lastActive = g.lastActive, !.active = s]
            /\ o.event \in Event /\ o.event # NoEvent
            /\ o.event.new = s /\ o.event.old = g.active
            /\ Settled(o.group, h, p)
        BY <3>2, <3>4, <4>1, <4>2, <2>3
      <4> QED
        BY <4>3 DEF Group
    <3> QED
      BY <3>1, <3>3, <3>4 DEF ActiveUp
  <2> QED
    BY <2>4, <2>5 DEF Group
<1>4. CASE s \notin h
  <2>1. s \in old /\ h = old \ {s} /\ s \in Services
    BY <1>0, <1>4
  <2>2. g.active # nil
    BY <2>1, GroupAssumption DEF Settled, FirstHealthy, BestOf, Group
  <2>3. \/ o = Leak(g)
        \/ /\ g.active = s
           /\ \E next \in FirstHealthy(g, h, p) :
                o = Outcome([g EXCEPT !.lastActive = s, !.active = next], next, s)
    BY <1>4, <2>2 DEF OnServiceHealthChange, PassiveDown, ActiveDown, Group
  <2>4. CASE o = Leak(g)
    BY <2>4, <1>1, <1>2 DEF Group
  <2>5. CASE g.active = s /\ o # Leak(g)
    <3>1. PICK next \in FirstHealthy(g, h, p) :
            o = Outcome([g EXCEPT !.lastActive = s, !.active = next], next, s)
      BY <2>3, <2>5
    <3>2. /\ o.group = [g EXCEPT !.lastActive = s, !.active = next]
          /\ o.event = [new |-> next, old |-> s]
          /\ next \in Services \cup {nil}
      BY <3>1, FirstHealthyType DEF Outcome, Group
    <3>3. /\ o.group \in Group
          /\ o.group.members = g.members
          /\ o.group.mode = g.mode
          /\ o.group.mu = "free"
          /\ o.group.active = next
      BY <3>2, <2>1 DEF Group
    <3>4. /\ o.event \in Event /\ o.event # NoEvent
          /\ o.event.new = next /\ o.event.old = s
      BY <3>2, <2>1, GroupAssumption DEF Event, NoEvent
    <3>5. Settled(o.group, h, p)
      BY <3>1, <3>3 DEF Settled, FirstHealthy
    <3> QED
      BY <2>5, <3>3, <3>4, <3>5
  <2> QED
    BY <2>3, <2>4, <2>5
<1> QED
  BY <1>3, <1>4

-----------------------------------------------------------------------------
IInv ==
  /\ TypeOK
  /\ ActiveIsBest
  /\ ModeFitsPriorities
  /\ NoNilDereference
  /\ PromotionIsTrue

(* A call on a settled group: what the outcome has to satisfy for the       *)
(* invariant to hold again.                                                 *)
LEMMA ReturnsSettled ==
  ASSUME NEW o, Returns(o),
         o.group \in Group, o.event \in Event,
         o.group.mu \in {"free", "held"},
         o.group.mu = "free" => Settled(o.group, healthy', priority'),
         o.group.mode = "ActiveActive" <=> AllSamePriority(o.group.members, priority'),
         o.event # NoEvent => o.group.mu = "free" /\ o.event.new = o.group.active,
         healthy' \in SUBSET o.group.members, priority' \in [Services -> Priorities]
  PROVE  IInv'
BY DEF Returns, IInv, TypeOK, ActiveIsBest, ModeFitsPriorities, NoNilDereference,
       PromotionIsTrue, Settled

(* A group is settled before it has members. *)
LEMMA NewGroupSettled ==
  /\ NewEmptyServiceGroup \in Group
  /\ NewEmptyServiceGroup.mu = "free"
  /\ NewEmptyServiceGroup.members = {}
  /\ \A p : Settled(NewEmptyServiceGroup, {}, p)
  /\ NoEvent \in Event
BY DEF NewEmptyServiceGroup, Group, Settled, FirstHealthy, AllSamePriority, NoEvent, Event

(* The inductive invariant holds initially ... *)
LEMMA InvInit == Init => IInv
BY NewGroupSettled
   DEF Init, IInv, TypeOK, ActiveIsBest, ModeFitsPriorities, NoNilDereference,
       PromotionIsTrue, Settled

(* ... and every step of the group keeps it. *)
LEMMA InvNext == IInv /\ [Next]_vars => IInv'
<1> SUFFICES ASSUME IInv, [Next]_vars PROVE IInv'
  OBVIOUS
<1>0. /\ group \in Group
      /\ healthy \in SUBSET group.members
      /\ priority \in [Services -> Priorities]
      /\ group.mu = "free" => Settled(group, healthy, priority)
      /\ group.mode = "ActiveActive" <=> AllSamePriority(group.members, priority)
      /\ group.members \subseteq Services
  BY DEF IInv, TypeOK, ActiveIsBest, ModeFitsPriorities, Settled, Group
<1>1. ASSUME NEW s \in Services, NEW r \in SUBSET {s}, Register(s, r) PROVE IInv'
  <2> DEFINE g == [group EXCEPT !.members = @ \cup {s}]
  <2>1. g \in Group /\ g.members = group.members \cup {s} /\ g.mu = "free"
    BY <1>0, <1>1 DEF Group, Register
  <2> HIDE DEF g
  <2>2. PICK o \in Update(g, healthy', priority) : Returns(o)
    BY <1>1 DEF Register, RegisterService, g
  <2>3. healthy' \in SUBSET g.members /\ priority' = priority
    BY <1>0, <1>1, <2>1 DEF Register
  <2>4. /\ o.group \in Group /\ o.event \in Event
        /\ o.group.members = g.members /\ o.group.mu = "free"
        /\ Settled(o.group, healthy', priority')
        /\ o.event # NoEvent => o.event.new = o.group.active
    BY <2>1, <2>2, <2>3, UpdateSettles
  <2> QED
    BY <1>0, <2>2, <2>3, <2>4, ReturnsSettled DEF Settled
<1>2. ASSUME NEW s \in Services, Remove(s) PROVE IInv'
  <2> DEFINE g == [group EXCEPT !.members = @ \ {s}]
  <2>1. g \in Group /\ g.members = group.members \ {s} /\ g.mu = "free"
    BY <1>0, <1>2 DEF Group, Remove
  <2> HIDE DEF g
  <2>2. PICK o \in Update(g, healthy', priority) :
          IF o.group.members = {} THEN Returns(Quiet(NewEmptyServiceGroup)) ELSE Returns(o)
    BY <1>2 DEF Remove, RemoveService, g
  <2>3. healthy' \in SUBSET g.members /\ priority' = priority
    BY <1>0, <1>2, <2>1 DEF Remove
  <2>4. CASE g.members = {}
    <3>1. o.group = g
      BY <2>2, <2>4 DEF Update, Quiet
    <3>2. /\ group' = NewEmptyServiceGroup
          /\ event' = NoEvent
          /\ healthy' = {}
      BY <2>2, <2>3, <2>4, <3>1 DEF Returns, Quiet
    <3> QED
      BY <1>0, <2>3, <3>2, NewGroupSettled
         DEF IInv, TypeOK, ActiveIsBest, ModeFitsPriorities, NoNilDereference,
             PromotionIsTrue, Settled
  <2>5. CASE g.members # {}
    <3>1. /\ o.group \in Group /\ o.event \in Event
          /\ o.group.members = g.members /\ o.group.mu = "free"
          /\ Settled(o.group, healthy', priority')
          /\ o.event # NoEvent => o.event.new = o.group.active
      BY <2>1, <2>2, <2>3, <2>5, UpdateSettles
    <3> QED
      BY <1>0, <2>2, <2>3, <2>5, <3>1, ReturnsSettled DEF Settled
  <2> QED
    BY <2>4, <2>5
<1>3. ASSUME NEW s \in Services, NEW n \in Priorities, Reconfigure(s, n) PROVE IInv'
  <2>1. /\ healthy' = healthy
        /\ priority' \in [Services -> Priorities]
        /\ group.members # {} /\ group.mu = "free"
    BY <1>0, <1>3 DEF Reconfigure
  <2>2. PICK o \in Update(group, healthy', priority') : Returns(o)
    BY <1>3, <2>1 DEF Reconfigure
  <2>3. /\ o.group \in Group /\ o.event \in Event
        /\ o.group.members = group.members /\ o.group.mu = "free"
        /\ Settled(o.group, healthy', priority')
        /\ o.event # NoEvent => o.event.new = o.group.active
    BY <1>0, <2>1, <2>2, UpdateSettles
  <2> QED
    BY <1>0, <2>1, <2>2, <2>3, ReturnsSettled DEF Settled
<1>4. ASSUME NEW s \in Services, HealthChange(s) PROVE IInv'
  <2>1. /\ s \in group.members /\ group.mu = "free" /\ priority' = priority
        /\ healthy' = IF s \in healthy THEN healthy \ {s} ELSE healthy \cup {s}
    BY <1>4 DEF HealthChange, Flip
  <2>2. PICK o \in OnServiceHealthChange(group, s, healthy', priority) : Returns(o)
    BY <1>4 DEF HealthChange
  <2>3. /\ o.group \in Group /\ o.event \in Event
        /\ o.group.members = group.members /\ o.group.mode = group.mode
        /\ o.group.mu \in {"free", "held"}
        /\ o.group.mu = "free" => Settled(o.group, healthy', priority)
        /\ o.event # NoEvent => o.group.mu = "free" /\ o.event.new = o.group.active
    BY <1>0, <2>1, <2>2, HealthChangeSettles
  <2>4. healthy' \in SUBSET group.members
    BY <1>0, <2>1
  <2> QED
    BY <1>0, <2>1, <2>2, <2>3, <2>4, ReturnsSettled
<1>5. ASSUME NEW s \in Services, HealthChangeBlocks(s) PROVE IInv'
  <2>1. /\ group' = group /\ group.mu = "held" /\ priority' = priority
        /\ event' = NoEvent /\ healthy' \in SUBSET group.members
    BY <1>0, <1>5 DEF HealthChangeBlocks, Flip
  <2> QED
    BY <1>0, <2>1, NewGroupSettled
       DEF IInv, TypeOK, ActiveIsBest, ModeFitsPriorities, NoNilDereference, PromotionIsTrue
<1>6. CASE UNCHANGED vars
  BY <1>6 DEF vars, IInv, TypeOK, ActiveIsBest, ModeFitsPriorities, NoNilDereference,
              PromotionIsTrue
<1> QED
  BY <1>1, <1>2, <1>3, <1>4, <1>5, <1>6 DEF Next

(* The inductive invariant holds in every state. *)
LEMMA Invariant == Spec => []IInv
BY InvInit, InvNext, PTL DEF Spec

(* The state of a group is well typed. *)
THEOREM GroupTypeCorrect == Spec => []TypeOK
<1>1. IInv => TypeOK
  BY DEF IInv
<1> QED
  BY <1>1, Invariant, PTL

(* The active role is with a best healthy member while the mutex works. *)
THEOREM GroupActiveIsBest == Spec => []ActiveIsBest
<1>1. IInv => ActiveIsBest
  BY DEF IInv
<1> QED
  BY <1>1, Invariant, PTL

(* The mode follows the priorities. *)
THEOREM GroupModeFits == Spec => []ModeFitsPriorities
<1>1. IInv => ModeFitsPriorities
  BY DEF IInv
<1> QED
  BY <1>1, Invariant, PTL

(* OnServiceHealthChange never dereferences a nil active service when       *)
(* calls do not overlap.                                                    *)
THEOREM GroupNoNilDereference == Spec => []NoNilDereference
<1>1. IInv => NoNilDereference
  BY DEF IInv
<1> QED
  BY <1>1, Invariant, PTL

(* Every PromotionEvent names the service that is and should be active. *)
THEOREM GroupPromotionIsTrue == Spec => []PromotionIsTrue
<1>1. IInv => PromotionIsTrue
  BY DEF IInv
<1> QED
  BY <1>1, Invariant, PTL

(* In a group of several members every move of the active role is announced *)
(* with both its ends.                                                      *)
THEOREM GroupMovesAreAnnounced == Spec => MovesAreAnnounced
<1> DEFINE Single(S) == \E s \in S : OnlyMember(S, s)
           Announced == /\ group'.active # group.active
                        /\ ~Single(group'.members)
                        /\ group'.members # {}
                        => /\ event'.new = group'.active
                           /\ group.active # nil => event'.old = group.active
<1>1. IInv /\ [Next]_vars => [Announced]_vars
  <2> SUFFICES ASSUME IInv, Next,
                      group'.active # group.active,
                      ~Single(group'.members), group'.members # {}
               PROVE  /\ event'.new = group'.active
                      /\ group.active # nil => event'.old = group.active
    OBVIOUS
  <2>0. /\ group \in Group
        /\ healthy \in SUBSET group.members
        /\ priority \in [Services -> Priorities]
        /\ group.mu = "free" => Settled(group, healthy, priority)
    BY DEF IInv, TypeOK, ActiveIsBest, ModeFitsPriorities, Settled
  <2>1. ASSUME NEW g \in Group, g.members # {}, NEW h, NEW p, NEW o \in Update(g, h, p),
               Returns(o), g.active = group.active
        PROVE  event'.new = group'.active /\ event'.old = group.active
    <3>1. /\ o.group.members = g.members
          /\ o.event # NoEvent => o.event.new = o.group.active
          /\ o.event = NoEvent => \/ o.group.active = g.active
                                  \/ Single(g.members)
          /\ o.event # NoEvent /\ ~Single(g.members) => o.event.old = g.active
      BY <2>1, UpdateSettles
    <3>2. group' = o.group /\ event' = o.event
      BY <2>1 DEF Returns
    <3> QED
      BY <2>1, <3>1, <3>2
  <2>2. ASSUME NEW s \in Services, NEW r \in SUBSET {s}, Register(s, r)
        PROVE  event'.new = group'.active /\ event'.old = group.active
    <3> DEFINE g == [group EXCEPT !.members = @ \cup {s}]
    <3>1. g \in Group /\ g.members # {} /\ g.active = group.active
      BY <2>0 DEF Group
    <3>2. PICK o \in Update(g, healthy', priority) : Returns(o)
      BY <2>2 DEF Register, RegisterService
    <3> QED
      BY <3>1, <3>2, <2>1
  <2>3. ASSUME NEW s \in Services, Remove(s)
        PROVE  event'.new = group'.active /\ event'.old = group.active
    <3> DEFINE g == [group EXCEPT !.members = @ \ {s}]
    <3>1. g \in Group /\ g.active = group.active
      BY <2>0 DEF Group
    <3> HIDE DEF g
    <3>2. PICK o \in Update(g, healthy', priority) :
            IF o.group.members = {} THEN Returns(Quiet(NewEmptyServiceGroup)) ELSE Returns(o)
      BY <2>3 DEF Remove, RemoveService, g
    <3>3. o.group.members # {} /\ Returns(o)
      BY <3>2 DEF Returns, Quiet, NewEmptyServiceGroup
    <3>4. g.members # {}
      BY <3>2, <3>3 DEF Update, Quiet
    <3> QED
      BY <3>1, <3>2, <3>3, <3>4, <2>1
  <2>4. ASSUME NEW s \in Services, NEW n \in Priorities, Reconfigure(s, n)
        PROVE  event'.new = group'.active /\ event'.old = group.active
    <3>1. PICK o \in Update(group, healthy, priority') : Returns(o)
      BY <2>4 DEF Reconfigure
    <3>2. group.members # {}
      BY <2>4 DEF Reconfigure
    <3> QED
      BY <2>0, <3>1, <3>2, <2>1
  <2>5. ASSUME NEW s \in Services, HealthChange(s)
        PROVE  /\ event'.new = group'.active
               /\ group.active # nil => event'.old = group.active
    <3>1. /\ s \in group.members /\ group.mu = "free" /\ priority' = priority
          /\ healthy' = IF s \in healthy THEN healthy \ {s} ELSE healthy \cup {s}
      BY <2>5 DEF HealthChange, Flip
    <3>2. PICK o \in OnServiceHealthChange(group, s, healthy', priority) : Returns(o)
      BY <2>5 DEF HealthChange
    <3>3. /\ o.event # NoEvent => o.event.new = o.group.active
          /\ o.event = NoEvent => o.group.active = group.active
          /\ o.event # NoEvent /\ group.active # nil => o.event.old = group.active
      BY <2>0, <3>1, <3>2, HealthChangeSettles
    <3>4. group' = o.group /\ event' = o.event
      BY <3>2 DEF Returns
    <3> QED
      BY <3>3, <3>4
  <2>6. ASSUME NEW s \in Services, HealthChangeBlocks(s) PROVE FALSE
    BY <2>6 DEF HealthChangeBlocks
  <2> QED
    BY <2>2, <2>3, <2>4, <2>5, <2>6 DEF Next
<1> QED
  BY <1>1, Invariant, PTL DEF Spec, MovesAreAnnounced
=============================================================================
