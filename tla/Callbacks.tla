----------------------------- MODULE Callbacks -----------------------------
(***************************************************************************)
(* The calls on one service group as they overlap: the health-change       *)
(* callbacks of its members, each in the goroutine of a worker, an update  *)
(* by the zone handler and a read by the API.  A call is split where it    *)
(* releases sg.mu, takes sm.mutex or reads sg.active without a lock; what  *)
(* each part does is the same as in GroupOps.                              *)
(*                                                                         *)
(* The members and their priorities do not change here, and there are      *)
(* several members, so that the mode is fixed.                             *)
(***************************************************************************)
EXTENDS GroupOps, Sequences

CONSTANTS
  Assignments,  \* the priorities the members may have
  zone,         \* the zone handler's goroutine
  api,          \* a request that reads the active service
  free, lost    \* nobody holds the mutex, and nobody will ever release it

ASSUME CallbacksAssumption ==
  /\ Assignments \subseteq [Services -> Nat]
  /\ zone \notin {api, free, lost}
  /\ free \notin {api, lost}
  /\ {zone, api, free, lost} \cap Services = {}

Callers == Services \cup {zone, api}

VARIABLES
  priority,    \* of each member
  healthy,     \* the members with isHealthy set
  active,      \* sg.active
  lastActive,  \* sg.lastActive
  mu,          \* who holds sg.mu between two steps
  sm,          \* who holds sm.mutex between two steps
  flags,       \* the members whose entry has IsActive
  published,   \* the members with a dnsdist rule
  call,        \* where each caller is, and the event it has made
  panic,       \* who dereferenced a nil active, which ends the process
  order,       \* observation: the promotions decided and not yet handled
  overtaken,   \* observation: whether events came in another order than they had
  overlapped   \* observation: the callers whose call met another one's

state == <<priority, healthy, active, lastActive, mu, sm, flags, published, panic>>

observed == <<order, overtaken, overlapped>>

vars == <<state, call, observed>>

Idle == [pc |-> "idle", event |-> NoEvent]

Init ==
  /\ priority \in Assignments
  /\ healthy = {}
  /\ active = nil
  /\ lastActive = nil
  /\ mu = free
  /\ sm = free
  /\ flags = {}
  /\ published = {}
  /\ call = [c \in Callers |-> Idle]
  /\ panic = {}
  /\ order = <<>>
  /\ overtaken = "no"
  /\ overlapped = {}

-----------------------------------------------------------------------------
Mode == IF AllSamePriority(Services, priority) THEN "ActiveActive" ELSE "ActivePassive"

(* The group as the methods of GroupOps see it. *)
TheGroup == [members |-> Services, mode |-> Mode, active |-> active,
             lastActive |-> lastActive, mu |-> "free"]

At(c, pc) == call[c].pc = pc /\ panic = {}

Busy(c) == call[c].pc # "idle"

InFlight == {c \in Services \cup {zone} : call[c].pc \in {"next", "build", "promote", "assign"}}

Goes(c, pc) == call' = [call EXCEPT ![c].pc = pc]

GoesWith(c, pc, new, old) ==
  call' = [call EXCEPT ![c] = [pc |-> pc, event |-> [new |-> new, old |-> old]]]

Ends(c) == call' = [call EXCEPT ![c] = Idle]

(* From then on the other observations are of no interest. *)
OutOfOrder == order' = <<>> /\ overtaken' = "yes" /\ overlapped' = {}

(* A promotion has been decided on.  In ActiveActive the active service     *)
(* changes only after the promotion has been handled, so that two at a time *)
(* are already out of order.                                                *)
Decided(c) ==
  IF overtaken = "yes" \/ (Mode = "ActiveActive" /\ InFlight \ {c} # {})
    THEN OutOfOrder
    ELSE order' = Append(order, c) /\ UNCHANGED <<overtaken, overlapped>>

(* A call starts that changes the group. *)
Begins(c) ==
  LET others == {d \in (Services \cup {zone}) \ {c} : Busy(d)}
  IN  overlapped' = IF overtaken = "yes" THEN {}
                    ELSE IF others = {} THEN overlapped \ {c}
                    ELSE overlapped \cup others \cup {c}

-----------------------------------------------------------------------------
(* The callback of a member. *)

(* OnSuccess or OnFailure reaches the threshold. *)
HealthChanges(s) ==
  /\ At(s, "idle")
  /\ healthy' = IF s \in healthy THEN healthy \ {s} ELSE healthy \cup {s}
  /\ Goes(s, "store")
  /\ Begins(s)
  /\ UNCHANGED <<priority, active, lastActive, mu, sm, flags, published, panic, order, overtaken>>

(* The manager's callback stores the health, and with it IsActive = false. *)
StoreHealth(s) ==
  /\ At(s, "store")
  /\ flags' = flags \ {s}
  /\ Goes(s, "enter")
  /\ UNCHANGED <<priority, healthy, active, lastActive, mu, sm, published, panic, observed>>

(* Nothing to do: OnServiceHealthChange returns with the mutex locked. *)
Leaks(s) ==
  /\ mu' = lost
  /\ Ends(s)
  /\ UNCHANGED <<priority, healthy, active, lastActive, sm, flags, published, panic, observed>>

(* The active service went down: the mutex is released, and the successor   *)
(* looked for afterwards.  Without an active service, its ID is read from a *)
(* nil pointer.                                                             *)
Down(s) ==
  \/ /\ active = nil
     /\ panic' = {s}
     /\ UNCHANGED <<priority, healthy, active, lastActive, mu, sm, flags, published, call, observed>>
  \/ /\ active = s
     /\ lastActive' = IF Mode = "ActivePassive" THEN active ELSE lastActive
     /\ Goes(s, "next")
     /\ IF Mode = "ActiveActive" THEN Decided(s) ELSE UNCHANGED observed
     /\ UNCHANGED <<priority, healthy, active, mu, sm, flags, published, panic>>
  \/ active \notin {nil, s} /\ Leaks(s)

(* Mutant: the mutex is released after the promotion. *)
PassiveUpLocked(s) ==
  IF TriggerPromotion(TheGroup, s, healthy, priority)
    THEN /\ lastActive' = active
         /\ active' = s
         /\ mu' = s
         /\ GoesWith(s, "promote", s, OldActive(TheGroup))
         /\ Decided(s)
         /\ UNCHANGED <<priority, healthy, sm, flags, published, panic>>
    ELSE Leaks(s)

(* Mutant: the event is made and the active service is not replaced. *)
PassiveUpForgets(s) ==
  IF TriggerPromotion(TheGroup, s, healthy, priority)
    THEN /\ GoesWith(s, "promote", s, OldActive(TheGroup))
         /\ Decided(s)
         /\ UNCHANGED state
    ELSE Leaks(s)

UpInPassive(s) ==
  IF TriggerPromotion(TheGroup, s, healthy, priority)
    THEN /\ lastActive' = active
         /\ active' = s
         /\ GoesWith(s, "promote", s, OldActive(TheGroup))
         /\ Decided(s)
         /\ UNCHANGED <<priority, healthy, mu, sm, flags, published, panic>>
    ELSE Leaks(s)

UpInActive(s) ==
  IF \/ InPrioritizedDatacenter(s) /\ s # active
     \/ active = nil
     \/ active \notin healthy
    THEN /\ GoesWith(s, "build", s, nil)
         /\ Decided(s)
         /\ UNCHANGED state
    ELSE Leaks(s)

(* OnServiceHealthChange up to the release of sg.mu.  The health that the   *)
(* callback passes is the one the member still has, since its next check    *)
(* comes after this one's callback.                                         *)
OnServiceHealthChange1(s) ==
  /\ At(s, "enter")
  /\ mu = free
  /\ IF s \notin healthy THEN Down(s)
     ELSE IF Mode = "ActivePassive" THEN UpInPassive(s) ELSE UpInActive(s)

(* promoteNextHealthy, which changes the active service, or firstHealthy,   *)
(* after which the caller will.                                             *)
FindsNext(s) ==
  /\ At(s, "next")
  /\ mu = free
  /\ \E best \in FirstHealthy(TheGroup, healthy, priority) :
       IF Mode = "ActivePassive"
         THEN /\ active' = best
              /\ GoesWith(s, "promote", best, active)
              /\ Decided(s)
         ELSE /\ GoesWith(s, "build", best, nil)
              /\ UNCHANGED <<active, observed>>
  /\ UNCHANGED <<priority, healthy, lastActive, mu, sm, flags, published, panic>>

(* ActiveActive reads sg.active for the event without the mutex. *)
BuildsEvent(s) ==
  /\ At(s, "build")
  /\ GoesWith(s, "promote", call[s].event.new, active)
  /\ UNCHANGED <<state, observed>>

(* Mutant: the flag of the previous active service stays. *)
HandledKeepsOld(S, ev) ==
  IF ev.new = ev.old THEN S ELSE S \cup ({ev.new} \ {nil})

(* handlePromotion, as what it makes of the flags and of the rules. *)
Handled(S, ev) ==
  IF ev.new = ev.old THEN S ELSE (S \ {ev.old}) \cup ({ev.new} \ {nil})

(* handlePromotion runs under sm.mutex.  Update calls it with sg.mu held,   *)
(* and releases that afterwards.                                            *)
Promotes(c) ==
  /\ At(c, "promote")
  /\ sm = free
  /\ flags' = Handled(flags, call[c].event)
  /\ published' = Handled(published, call[c].event)
  /\ mu' = IF mu = c THEN free ELSE mu
  /\ IF c # zone /\ Mode = "ActiveActive" THEN Goes(c, "assign") ELSE Ends(c)
  /\ IF overtaken = "no" /\ Head(order) = c
       THEN order' = Tail(order) /\ UNCHANGED <<overtaken, overlapped>> ELSE OutOfOrder
  /\ UNCHANGED <<priority, healthy, active, lastActive, sm, panic>>

(* ActiveActive sets sg.active without the mutex, and sg.lastActive when a  *)
(* service went down.                                                       *)
Assigns(s) ==
  /\ At(s, "assign")
  /\ active' = call[s].event.new
  /\ lastActive' = IF s \in healthy THEN lastActive ELSE active
  /\ Ends(s)
  /\ UNCHANGED <<priority, healthy, mu, sm, flags, published, panic, observed>>

-----------------------------------------------------------------------------
(* Update by the zone handler: who should be active is found out first, and *)
(* compared with sg.active without the mutex.                               *)
UpdateLooks ==
  /\ At(zone, "idle")
  /\ mu = free
  /\ \E best \in FirstHealthy(TheGroup, healthy, priority) :
       /\ best # active
       /\ GoesWith(zone, "take", best, nil)
  /\ Begins(zone)
  /\ UNCHANGED <<state, order, overtaken>>

UpdateTakes ==
  /\ At(zone, "take")
  /\ mu = free
  /\ mu' = zone
  /\ lastActive' = active
  /\ active' = call[zone].event.new
  /\ GoesWith(zone, "promote", call[zone].event.new, active)
  /\ IF call[zone].event.new \in FirstHealthy(TheGroup, healthy, priority)
       THEN Decided(zone) ELSE OutOfOrder
  /\ UNCHANGED <<priority, healthy, sm, flags, published, panic>>

(* GetActiveForMemberOf: sm.mutex, then sg.mu. *)
ReadBegins ==
  /\ At(api, "idle")
  /\ sm = free
  /\ sm' = api
  /\ Goes(api, "read")
  /\ UNCHANGED <<priority, healthy, active, lastActive, mu, flags, published, panic, observed>>

ReadEnds ==
  /\ At(api, "read")
  /\ mu = free
  /\ sm' = free
  /\ Ends(api)
  /\ UNCHANGED <<priority, healthy, active, lastActive, mu, flags, published, panic, observed>>

-----------------------------------------------------------------------------
Continues(c) ==
  \/ c \in Services /\ (StoreHealth(c) \/ OnServiceHealthChange1(c) \/ FindsNext(c)
                        \/ BuildsEvent(c) \/ Assigns(c))
  \/ c \in Services \cup {zone} /\ Promotes(c)
  \/ c = zone /\ UpdateTakes
  \/ c = api /\ ReadEnds

Next ==
  \/ \E s \in Services : HealthChanges(s)
  \/ UpdateLooks
  \/ ReadBegins
  \/ \E c \in Callers : Continues(c)

(* Goroutines run, and Go's mutexes are handed to who has waited longest,   *)
(* so that a callback obtains one that is released again and again.         *)
(* Whether there is another change, update or request is open.              *)
Fairness ==
  /\ \A s \in Services : SF_vars(Continues(s))
  /\ WF_vars(Continues(zone))
  /\ WF_vars(Continues(api))

Spec == Init /\ [][Next]_vars /\ Fairness

-----------------------------------------------------------------------------
(* The types of the variables; checked as a part of InOrderIsConsistent. *)
TypeOK ==
  /\ priority \in Assignments
  /\ healthy \subseteq Services
  /\ {active, lastActive} \subseteq Services \cup {nil}
  /\ mu \in {free, lost, zone}
  /\ sm \in {free, api}
  /\ flags \cup published \cup panic \subseteq Services
  /\ overlapped \subseteq Services \cup {zone}
  /\ \A c \in Callers :
       /\ call[c].pc \in {"idle", "store", "enter", "next", "build", "promote", "assign",
                          "take", "read"}
       /\ call[c].event \in Event
  /\ order \in Seq(Services \cup {zone})
  /\ overtaken \in {"yes", "no"}

(* When every call has returned and each promotion was handled in the order *)
(* in which it was decided on, the flag and the rule are with the active    *)
(* service alone, and it is healthy unless a callback kept the mutex: no    *)
(* interleaving of the parts of failures, recoveries and updates leaves a   *)
(* second service published.  handlePromotion's own mutex does not give     *)
(* that order.                                                              *)
InOrderIsConsistent ==
  /\ TypeOK
  /\ (\A c \in Callers : ~ Busy(c)) /\ overtaken = "no"
       => /\ flags \subseteq published
          /\ published \subseteq {active}
          /\ mu = free => published \subseteq healthy

(* The nil active of lines 120 and 168 is dereferenced only by a member     *)
(* whose callback overlapped another one's, or an update: it had failed     *)
(* before the other call took the active role from everybody.  (A group in  *)
(* which events were out of order may be left without an active service     *)
(* for good, and then any failure does it.)                                 *)
PanicNeedsOverlap == overtaken = "no" => panic \subseteq overlapped

(* The deadlock of Update, which holds sg.mu and waits for sm.mutex, with   *)
(* GetActiveForMemberOf, which holds sm.mutex and waits for sg.mu. *)
LockOrderInverted == mu = zone /\ sm = api

(* A callback ends.  Nothing stops it but a mutex that an earlier callback  *)
(* did not release, a panic, and the deadlock above; callbacks and reads    *)
(* among themselves never wait for each other in a circle.                  *)
CallbackEnds ==
  \A s \in Services :
    Busy(s) ~> (~ Busy(s) \/ mu = lost \/ panic # {} \/ LockOrderInverted)

=============================================================================
