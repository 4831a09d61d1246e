------------------------------ MODULE Manager ------------------------------
(***************************************************************************)
(* ServicesManager (internal/manager/manager.go): the groups of GroupOps,  *)
(* the service repository, the schedulers and the dnsdist rules, under the *)
(* zone handler's registrations, updates and removals, the health changes  *)
(* of the checked services, the periodic synchronisation and restarts.     *)
(* Calls do not overlap here; a call that waits for a mutex nobody will    *)
(* release stays where it is.  Of the repository's errors the module has   *)
(* the missing entries and the two writes of memberOfChanged; a failing    *)
(* write elsewhere is logged (see Service and RepoStore).                  *)
(*                                                                         *)
(* A removed service may still be checked: handlePromotion queues the old  *)
(* holder of the role again.  If its ID is then registered anew, there are *)
(* two objects of one ID that the manager's lookups by ID confuse.  The    *)
(* module has one state per ID and follows the manager up to that          *)
(* registration, which sets twins, and no further.                         *)
(*                                                                         *)
(* An interval is named by the priority it belongs to (CalculateInterval), *)
(* BaseInterval is the one of priority 1.  A dnsdist rule is named by      *)
(* MemberOf and Datacenter: the pair of a group and a service.             *)
(***************************************************************************)
EXTENDS GroupOps

CONSTANTS
  Names,         \* names of service groups (MemberOf)
  Priorities,    \* priorities in the zone, and with them the intervals
  Configs,       \* the MemberOf and priority the zone may give each service
  BaseInterval   \* GetBaseInterval of every service

ASSUME ManagerAssumption ==
  /\ Priorities \subseteq Nat
  /\ BaseInterval \in Priorities
  /\ Configs \in [Services -> (SUBSET (Names \X Priorities)) \ {{}}]

VARIABLES
  groups,       \* serviceGroups, an unused name having an empty group
  registered,   \* the services in scheduledServices
  memberOf,     \* Service.MemberOf
  priority,     \* Service.priority
  healthy,      \* the services with isHealthy set
  store,        \* the repository: entries, and their IsActive and IsHealthy
  sched,        \* ScheduledInterval, the schedulers and their queues
  spoofs,       \* the rules on the dnsdist servers
  stuck,        \* who waits forever or has crashed
  twins         \* an ID has been registered next to an object still in use

vars == <<groups, registered, memberOf, priority, healthy, store, sched, spoofs, stuck,
          twins>>

(* The entries of a group; only an entry that exists has flags. *)
Entries ==
  {e \in [ids : SUBSET Services, active : SUBSET Services, healthy : SUBSET Services] :
     e.active \cup e.healthy \subseteq e.ids}

NoEntries == [ids |-> {}, active |-> {}, healthy |-> {}]

Schedule == [at : [Services -> Priorities], queue : [Priorities -> SUBSET Services]]

Rules(st) == {r \in Names \X Services : r[2] \in st[r[1]].active}

(* A process starts without services, so that the values of their fields    *)
(* do not matter yet.                                                       *)
AnyConfig(s) == CHOOSE c \in Configs[s] : TRUE

NoMembers == [n \in Names |-> NewEmptyServiceGroup]

NoSchedule == [at    |-> [s \in Services |-> BaseInterval],
               queue |-> [i \in Priorities |-> {}]]

Init ==
  /\ groups = NoMembers
  /\ registered = {}
  /\ memberOf = [s \in Services |-> AnyConfig(s)[1]]
  /\ priority = [s \in Services |-> AnyConfig(s)[2]]
  /\ healthy = {}
  /\ store = [n \in Names |-> NoEntries]
  /\ sched = NoSchedule
  /\ spoofs = {}
  /\ stuck = {}
  /\ twins = FALSE

-----------------------------------------------------------------------------
(* The repository without overrides.  new.IsActive is what the caller sets; *)
(* GSLBService() leaves it false.                                           *)

With(S, s, b) == IF b THEN S \cup {s} ELSE S \ {s}

RepoCreate(st, n, s, isHealthy) ==
  [st EXCEPT ![n] = [ids     |-> @.ids \cup {s},
                     active  |-> @.active \ {s},
                     healthy |-> With(@.healthy, s, isHealthy)]]

(* Mutant: the stored IsActive survives an update. *)
RepoUpdateKeepsActive(st, n, s, isActive, isHealthy) ==
  IF s \notin st[n].ids THEN st
  ELSE [st EXCEPT ![n].active = With(@, s, isActive \/ s \in @),
                  ![n].healthy = With(@, s, isHealthy)]

RepoUpdate(st, n, s, isActive, isHealthy) ==
  IF s \notin st[n].ids THEN st
  ELSE [st EXCEPT ![n].active = With(@, s, isActive),
                  ![n].healthy = With(@, s, isHealthy)]

RepoDelete(st, n, s) ==
  [st EXCEPT ![n] = [ids     |-> @.ids \ {s},
                     active  |-> @.active \ {s},
                     healthy |-> @.healthy \ {s}]]

-----------------------------------------------------------------------------
(* The schedulers: a queue per interval, of the services with an entry that *)
(* will be checked again.                                                   *)

Enqueue(sc, s, i) == [sc EXCEPT !.queue[i] = @ \cup {s}]

(* RemoveService of a scheduler takes out, or marks on top, one entry with  *)
(* the service's ID.  If an entry of an earlier stay on this queue is       *)
(* marked and still on top, it finds that one and the live one stays.  A    *)
(* registered service is then checked from two queues, and nothing but its  *)
(* removal can tell; so Remove chooses whether an entry is left, and the    *)
(* queues here have the entry of the current stay only.                     *)
Dequeue(sc, s, i) == [sc EXCEPT !.queue[i] = @ \ {s}]

(* Mutant: the service is taken off the queue it has just been put on. *)
MoveThenRemove(sc, reg, s, i) ==
  IF sc.at[s] = i THEN sc
  ELSE [Dequeue(Enqueue(sc, s, i), s, i)
          EXCEPT !.at[s] = IF s \in reg THEN i ELSE @]

(* moveServiceToInterval.  MoveToInterval only finds registered services.   *)
MoveServiceToInterval(sc, reg, s, i) ==
  IF sc.at[s] = i THEN sc
  ELSE [Enqueue(Dequeue(sc, s, sc.at[s]), s, i)
          EXCEPT !.at[s] = IF s \in reg THEN i ELSE @]

-----------------------------------------------------------------------------
(* handlePromotion, on a record of what it writes: w.store, w.sched,        *)
(* w.spoofs.  m gives the MemberOf of each service, reg the registered ones.*)

SetActive(w, m, h, s, isActive) ==
  [w EXCEPT !.store = RepoUpdate(@, m[s], s, isActive, s \in h)]

Stored(w, m, s) == s \in w.store[m[s]].ids

Demote(w, m, reg, s, i) ==
  [w EXCEPT !.sched = MoveServiceToInterval(@, reg, s, i),
            !.spoofs = @ \ {<<m[s], s>>}]

(* Mutant: a service that stays on its interval is not published. *)
PublishOnMove(w, m, reg, s) ==
  IF w.sched.at[s] = BaseInterval THEN w
  ELSE [w EXCEPT !.sched = MoveServiceToInterval(@, reg, s, BaseInterval),
                 !.spoofs = @ \cup {<<m[s], s>>}]

PublishActive(w, m, reg, s) ==
  [w EXCEPT !.sched = MoveServiceToInterval(@, reg, s, BaseInterval),
            !.spoofs = @ \cup {<<m[s], s>>}]

Swap(w, m, reg, h, ev) ==
  LET cleared == SetActive(w, m, h, ev.old, FALSE)
      flagged == SetActive(cleared, m, h, ev.new, TRUE)
  IN  IF ~Stored(w, m, ev.old) THEN w
      ELSE IF ~Stored(cleared, m, ev.new) THEN cleared
      ELSE PublishActive(Demote(flagged, m, reg, ev.old, w.sched.at[ev.new]),
                         m, reg, ev.new)

FirstUp(w, m, reg, h, s) ==
  IF Stored(w, m, s)
    THEN PublishActive(SetActive(w, m, h, s, TRUE), m, reg, s) ELSE w

AllDown(w, m, h, s) ==
  IF Stored(w, m, s)
    THEN [SetActive(w, m, h, s, FALSE) EXCEPT !.spoofs = @ \ {<<m[s], s>>}] ELSE w

HandlePromotion(w, m, reg, h, ev) ==
  CASE ev.new = ev.old -> w                              \* no-op by ID
    [] ev.new # ev.old /\ ev.new # nil /\ ev.old # nil -> Swap(w, m, reg, h, ev)
    [] ev.new # nil /\ ev.old = nil -> FirstUp(w, m, reg, h, ev.new)
    [] ev.new = nil /\ ev.old # nil -> AllDown(w, m, h, ev.old)

World(st, sc) == [store |-> st, sched |-> sc, spoofs |-> spoofs]

Writes(w) ==
  /\ store' = w.store
  /\ sched' = w.sched
  /\ spoofs' = w.spoofs

-----------------------------------------------------------------------------
(* RegisterService of a service that is not scheduled yet: its health comes *)
(* from its entry (BuildServiceOptions).  The group runs its update with    *)
(* sm.mutex held, and handlePromotion wants that mutex.  An object of a     *)
(* removed service is in use while it is checked or a group refers to it.   *)
Scheduled == UNION {sched.queue[i] : i \in Priorities}

InUse(s) ==
  \/ s \in Scheduled
  \/ \E n \in Names : s \in {groups[n].active, groups[n].lastActive}

Restored(s, n) == s \in store[n].healthy

Register(s, n, p) ==
  LET h  == With(healthy, s, Restored(s, n))
      pr == [priority EXCEPT ![s] = p]
      w  == World(RepoCreate(store, n, s, Restored(s, n)),
                  [Enqueue(sched, s, p) EXCEPT !.at[s] = p])
  IN  /\ s \notin registered
      /\ twins' = InUse(s)
      /\ registered' = registered \cup {s}
      /\ memberOf' = [memberOf EXCEPT ![s] = n]
      /\ priority' = pr
      /\ healthy' = h
      /\ Writes(w)
      /\ \/ /\ groups[n].mu = "held"            \* waits for the group
            /\ stuck' = stuck \cup {"manager"}
            /\ UNCHANGED groups
         \/ /\ groups[n].mu = "free"
            /\ \E o \in RegisterService(groups[n], s, h, pr) :
                 IF o.event = NoEvent
                   THEN /\ groups' = [groups EXCEPT ![n] = o.group]
                        /\ UNCHANGED stuck
                   ELSE /\ groups' = [groups EXCEPT ![n] = [o.group EXCEPT !.mu = "held"]]
                        /\ stuck' = stuck \cup {"manager"}

(* RemoveService.  The service is still registered and stored while its     *)
(* group promotes another one.  The scheduler may leave an entry of it.     *)
RemoveEntry(w, n, s) == [w EXCEPT !.store = RepoDelete(@, n, s)]

DropIfEmpty(g) == IF g.members = {} THEN NewEmptyServiceGroup ELSE g

Remove(s) ==
  \E sc \in {sched, Dequeue(sched, s, sched.at[s])} :
  LET n == memberOf[s]
      w == World(store, sc)
  IN  /\ s \in registered
      /\ UNCHANGED <<memberOf, priority, healthy, twins>>
      /\ \/ /\ groups[n].mu = "held"
            /\ stuck' = stuck \cup {"zone"}
            /\ Writes(w)
            /\ UNCHANGED <<groups, registered>>
         \/ /\ groups[n].mu = "free"
            /\ registered' = registered \ {s}
            /\ UNCHANGED stuck
            /\ \E o \in RemoveService(groups[n], s, healthy, priority) :
                 /\ groups' = [groups EXCEPT ![n] = DropIfEmpty(o.group)]
                 /\ Writes(RemoveEntry(
                      HandlePromotion(w, memberOf, registered, healthy, o.event), n, s))

(* The last part of updateService: the entry is rewritten, which leaves     *)
(* IsActive false, and the interval follows the default one.                *)
FinishUpdate(w, m, s, oldInterval, newInterval) ==
  LET x == SetActive(w, m, healthy, s, FALSE)
  IN  IF oldInterval # newInterval /\ x.sched.at[s] = oldInterval
        THEN [x EXCEPT !.sched = MoveServiceToInterval(@, registered, s, newInterval)]
        ELSE x

(* updateService for a config that differs in its priority p or in another  *)
(* field that ConfigChanged compares, in the same group.                    *)
Reconfigure(s, p) ==
  LET n  == memberOf[s]
      pr == [priority EXCEPT ![s] = p]
  IN  /\ s \in registered
      /\ priority' = pr
      /\ UNCHANGED <<registered, memberOf, healthy, twins>>
      /\ \/ /\ groups[n].mu = "held"
            /\ stuck' = stuck \cup {"zone"}
            /\ UNCHANGED <<groups, store, sched, spoofs>>
         \/ /\ groups[n].mu = "free"
            /\ UNCHANGED stuck
            /\ \E o \in Update(groups[n], healthy, pr) :
                 /\ groups' = [groups EXCEPT ![n] = o.group]
                 /\ Writes(FinishUpdate(
                      HandlePromotion(World(store, sched), memberOf, registered,
                                      healthy, o.event),
                      memberOf, s, priority[s], p))

(* updateService with another MemberOf as well: memberOfChanged moves the   *)
(* entry, joins the new group and then leaves the old one.                  *)
ChangeGroup(s, n, p) ==
  LET old == memberOf[s]
      pr  == [priority EXCEPT ![s] = p]
      m   == [memberOf EXCEPT ![s] = n]
      w   == World(RepoCreate(RepoDelete(store, old, s), n, s, s \in healthy), sched)
  IN  /\ s \in registered
      /\ n # old
      /\ priority' = pr
      /\ memberOf' = m
      /\ UNCHANGED <<registered, healthy, twins>>
      /\ \/ /\ groups[n].mu = "held"
            /\ stuck' = stuck \cup {"zone"}
            /\ Writes(w)
            /\ UNCHANGED groups
         \/ /\ groups[n].mu = "free"
            /\ \E joined \in RegisterService(groups[n], s, healthy, pr) :
                 LET w1 == HandlePromotion(w, m, registered, healthy, joined.event)
                 IN  \/ /\ groups[old].mu = "held"
                        /\ groups' = [groups EXCEPT ![n] = joined.group]
                        /\ stuck' = stuck \cup {"zone"}
                        /\ Writes(w1)
                     \/ /\ groups[old].mu = "free"
                        /\ UNCHANGED stuck
                        /\ \E left \in RemoveService(groups[old], s, healthy, pr) :
                             /\ groups' = [groups EXCEPT ![n] = joined.group,
                                                         ![old] = DropIfEmpty(left.group)]
                             /\ Writes(FinishUpdate(
                                  HandlePromotion(w1, m, registered, healthy, left.event),
                                  m, s, priority[s], p))

(* The same when a write fails: memberOfChanged logs the error and returns   *)
(* with sm.mutex locked, after Assign and after neither or the first of its  *)
(* two writes, and updateService waits for the mutex.                        *)
ChangeGroupFails(s, n, p) ==
  /\ s \in registered
  /\ n # memberOf[s]
  /\ priority' = [priority EXCEPT ![s] = p]
  /\ memberOf' = [memberOf EXCEPT ![s] = n]
  /\ store' \in {store, RepoDelete(store, memberOf[s], s)}
  /\ stuck' = stuck \cup {"manager"}
  /\ UNCHANGED <<groups, registered, healthy, sched, spoofs, twins>>

-----------------------------------------------------------------------------
(* The callback of RegisterService: store the new health, with IsActive     *)
(* false, and tell the group.  A service is checked while it is on a queue, *)
(* registered or not.  A group that was deleted is a nil pointer.  If the   *)
(* manager waits forever with sm.mutex locked, the promotion waits too, in  *)
(* ActiveActive before the group has changed its active service.            *)
Promoted(g, o) ==
  IF o.event # NoEvent /\ g.mode = "ActiveActive" THEN g ELSE o.group

HealthChange(s) ==
  LET n == memberOf[s]
      h == With(healthy, s, s \notin healthy)
      w == World(RepoUpdate(store, n, s, FALSE, s \in h), sched)
  IN  /\ s \in Scheduled
      /\ healthy' = h
      /\ UNCHANGED <<registered, memberOf, priority, twins>>
      /\ \/ /\ groups[n].members = {}
            /\ stuck' = stuck \cup {"panic"}
            /\ Writes(w)
            /\ UNCHANGED groups
         \/ /\ groups[n].members # {}
            /\ groups[n].mu = "held"
            /\ Writes(w)
            /\ UNCHANGED <<groups, stuck>>
         \/ /\ groups[n].members # {}
            /\ groups[n].mu = "free"
            /\ \E o \in OnServiceHealthChange(groups[n], s, h, priority) :
                 /\ stuck' = IF o.group.mu = "panic" THEN stuck \cup {"panic"} ELSE stuck
                 /\ \/ /\ "manager" \in stuck
                       /\ groups' = [groups EXCEPT ![n] = Promoted(@, o)]
                       /\ Writes(w)
                    \/ /\ "manager" \notin stuck
                       /\ groups' = [groups EXCEPT ![n] = o.group]
                       /\ Writes(HandlePromotion(w, memberOf, registered, h, o.event))

(* synchronizeServers makes the dnsdist rules those of the flagged entries. *)
Synchronize ==
  /\ spoofs' = Rules(store)
  /\ UNCHANGED <<groups, registered, memberOf, priority, healthy, store, sched, stuck,
                 twins>>

(* OnShutdown writes every member, flagging what GetActive returns. *)
OnShutdown(pick) ==
  [n \in Names |->
     [ids     |-> store[n].ids,
      active  |-> {s \in store[n].ids :
                     IF s \in groups[n].members THEN s = pick[n]
                                                ELSE s \in store[n].active},
      healthy |-> {s \in store[n].ids :
                     IF s \in groups[n].members THEN s \in healthy
                                                ELSE s \in store[n].healthy}]]

(* A new process on the repository that is left; its updater first brings   *)
(* the dnsdist servers in line with it.                                     *)
Reborn(st) ==
  /\ groups' = NoMembers
  /\ registered' = {}
  /\ memberOf' = [s \in Services |-> AnyConfig(s)[1]]
  /\ priority' = [s \in Services |-> AnyConfig(s)[2]]
  /\ healthy' = {}
  /\ sched' = NoSchedule
  /\ store' = st
  /\ spoofs' = Rules(st)
  /\ stuck' = {}
  /\ UNCHANGED twins

Shutdown ==
  /\ stuck = {}
  /\ \A n \in Names : groups[n].mu = "free"
  /\ \E pick \in [Names -> Services \cup {nil}] :
       /\ \A n \in Names : pick[n] \in GetActive(groups[n], healthy, priority)
       /\ Reborn(OnShutdown(pick))

Crash == Reborn(store)

-----------------------------------------------------------------------------
ZoneHandler ==
  /\ stuck = {}
  /\ \E s \in Services :
       \/ Remove(s)
       \/ \E n \in Names, p \in Priorities :
            /\ <<n, p>> \in Configs[s]
            /\ \/ Register(s, n, p)
               \/ memberOf[s] = n /\ Reconfigure(s, p)
               \/ ChangeGroup(s, n, p)
               \/ ChangeGroupFails(s, n, p)

Next ==
  \/ /\ ~twins
     /\ \/ ZoneHandler
        \/ "panic" \notin stuck /\ \E s \in Services : HealthChange(s)
        \/ Shutdown
        \/ Crash
  \/ Synchronize

Spec == Init /\ [][Next]_vars

-----------------------------------------------------------------------------
(* The types of the variables; checked as a part of FlaggedIsHealthy. *)
TypeOK ==
  /\ groups \in [Names -> Group]
  /\ registered \subseteq Services
  /\ memberOf \in [Services -> Names]
  /\ priority \in [Services -> Priorities]
  /\ healthy \subseteq Services
  /\ store \in [Names -> Entries]
  /\ sched \in Schedule
  /\ spoofs \subseteq Names \X Services
  /\ stuck \subseteq {"manager", "zone", "panic"}
  /\ twins \in BOOLEAN

(* The entry flagged as active, which is what every synchronisation         *)
(* publishes, is stored as healthy: through promotions, removals, moves     *)
(* between groups, lost mutexes, shutdowns and crashes, no dnsdist server   *)
(* is ever told to answer with a service whose last stored state is down.   *)
(* Two objects of one ID excepted: OnShutdown compares IDs and flags the    *)
(* entry of the one because the other is active.                            *)
FlaggedIsHealthy ==
  /\ TypeOK
  /\ ~twins =>
       \A n \in Names : store[n].active \subseteq store[n].healthy \cap store[n].ids

(* Among the registered members of a group only the one that holds its      *)
(* active role is flagged, so that the operator publishes at most one of    *)
(* them.  Excepted are two objects of one ID, a manager that waits for its  *)
(* own mutex in the middle of a promotion, and a service whose move to      *)
(* another group waits for that group's mutex: it is a member of the group  *)
(* it leaves only, and is flagged under the name of the other one if the    *)
(* old group promotes it.                                                   *)
FlaggedIsActive ==
  "manager" \notin stuck /\ ~twins =>
    \A s \in registered :
      s \in groups[memberOf[s]].members \cap store[memberOf[s]].active
        => groups[memberOf[s]].active = s

(* What the repository flags as active is published: a flag set by a        *)
(* promotion, in any group the service has moved to, comes with its DNSUpdate *)
(* and no withdrawal that follows leaves the flag behind (DNSUpdate itself    *)
(* does not fail here; that is the subject of DnsdistSync).                   *)
FlaggedIsPublished == Rules(store) \subseteq spoofs

(* A registered service has a live entry on the queue of the interval it is *)
(* scheduled on, whatever promotions, demotions and interval changes it has *)
(* been through, so that its checks never stop (one that a waiting removal  *)
(* has taken off excepted, and two objects of one ID, where the removal of  *)
(* the one finds the entry of the other).                                   *)
RegisteredIsChecked ==
  "zone" \notin stuck /\ ~twins => \A s \in registered : s \in sched.queue[sched.at[s]]

=============================================================================
