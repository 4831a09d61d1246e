--------------------------- MODULE ManagerProofs ---------------------------
(***************************************************************************)
(* Proofs about Manager for any services, groups, priorities and configs.  *)
(* The argument has three layers: what the writes of the repository, the   *)
(* schedulers and handlePromotion change (they touch one service in one    *)
(* group at a time); what the methods of a group return (the event names   *)
(* the previous and the new holder of the active role, and the new one is  *)
(* up); and an invariant that ties the flags of the entries to the groups. *)
(* The invariant is weaker while the manager or the zone handler waits     *)
(* forever, because the calls they left half done never finish.            *)
(***************************************************************************)
EXTENDS Manager, TLAPS

-----------------------------------------------------------------------------
(* The repository: a write touches the entry of one service in one group.   *)

(* Only an entry that exists has flags. *)
LEMMA EntryFields ==
  ASSUME NEW st \in [Names -> Entries], NEW n \in Names
  PROVE  /\ st[n].ids \subseteq Services
         /\ st[n].active \subseteq st[n].ids
         /\ st[n].healthy \subseteq st[n].ids
BY DEF Entries

(* An entry built from its parts is one, if the flagged and the up are in it. *)
LEMMA NewEntry ==
  ASSUME NEW ids \in SUBSET Services, NEW a \in SUBSET ids, NEW u \in SUBSET ids
  PROVE  [ids |-> ids, active |-> a, healthy |-> u] \in Entries
BY DEF Entries

(* Update of an entry sets both its flags, and creates none. *)
LEMMA RepoUpdateEffect ==
  ASSUME NEW st \in [Names -> Entries], NEW n \in Names, NEW s \in Services,
         NEW b \in BOOLEAN, NEW h
  PROVE  LET r == RepoUpdate(st, n, s, b, s \in h)
         IN  /\ r \in [Names -> Entries]
             /\ \A k \in Names :
                  /\ r[k].ids = st[k].ids
                  /\ \A x \in Services :
                       /\ x \in r[k].active <=>
                            IF x = s /\ k = n THEN b /\ s \in st[n].ids
                                              ELSE x \in st[k].active
                       /\ x \in r[k].healthy <=>
                            IF x = s /\ k = n THEN s \in h /\ s \in st[n].ids
                                              ELSE x \in st[k].healthy
<1> DEFINE r == RepoUpdate(st, n, s, b, s \in h)
<1>1. /\ st[n].ids \subseteq Services
      /\ st[n].active \subseteq st[n].ids
      /\ st[n].healthy \subseteq st[n].ids
  BY EntryFields
<1>2. CASE s \notin st[n].ids
  BY <1>1, <1>2 DEF RepoUpdate
<1>3. CASE s \in st[n].ids
  <2>1. r = [st EXCEPT ![n] = [st[n] EXCEPT !.active = With(st[n].active, s, b),
                                            !.healthy = With(st[n].healthy, s, s \in h)]]
    BY <1>3 DEF RepoUpdate
  <2>2. st[n] = [ids |-> st[n].ids, active |-> st[n].active, healthy |-> st[n].healthy]
    BY DEF Entries
  <2>3. r[n] = [ids |-> st[n].ids, active |-> With(st[n].active, s, b),
                healthy |-> With(st[n].healthy, s, s \in h)]
    BY <2>1, <2>2
  <2>4. r[n] \in Entries
    BY <2>3, <1>1, <1>3, NewEntry DEF With
  <2> HIDE DEF r
  <2>5. r \in [Names -> Entries]
    BY <2>1, <2>4
  <2>6. \A k \in Names : k # n => r[k] = st[k]
    BY <2>1
  <2>7. /\ r[n].ids = st[n].ids
        /\ \A x \in Services :
             /\ x \in r[n].active <=> IF x = s THEN b ELSE x \in st[n].active
             /\ x \in r[n].healthy <=> IF x = s THEN s \in h ELSE x \in st[n].healthy
    BY <2>3 DEF With
  <2> QED
    BY <1>3, <2>5, <2>6, <2>7 DEF r
<1> QED
  BY <1>2, <1>3

(* Create leaves the entry unflagged, whatever was stored before. *)
LEMMA RepoCreateEffect ==
  ASSUME NEW st \in [Names -> Entries], NEW n \in Names, NEW s \in Services,
         NEW u \in BOOLEAN
  PROVE  LET r == RepoCreate(st, n, s, u)
         IN  /\ r \in [Names -> Entries]
             /\ \A k \in Names, x \in Services :
                  /\ x \in r[k].ids <=> x \in st[k].ids \/ (x = s /\ k = n)
                  /\ x \in r[k].active <=> x \in st[k].active /\ ~(x = s /\ k = n)
                  /\ x \in r[k].healthy <=>
                       IF x = s /\ k = n THEN u ELSE x \in st[k].healthy
<1> DEFINE r == RepoCreate(st, n, s, u)
<1>1. /\ st[n].ids \subseteq Services
      /\ st[n].active \subseteq st[n].ids
      /\ st[n].healthy \subseteq st[n].ids
  BY EntryFields
<1>2. r = [st EXCEPT ![n] = [ids     |-> st[n].ids \cup {s},
                             active  |-> st[n].active \ {s},
                             healthy |-> With(st[n].healthy, s, u)]]
  BY DEF RepoCreate
<1>3. r[n] \in Entries
  BY <1>1, <1>2, NewEntry DEF With
<1> QED
  BY <1>2, <1>3 DEF With

(* Delete takes the entry and its flags away. *)
LEMMA RepoDeleteEffect ==
  ASSUME NEW st \in [Names -> Entries], NEW n \in Names, NEW s \in Services
  PROVE  LET r == RepoDelete(st, n, s)
         IN  /\ r \in [Names -> Entries]
             /\ \A k \in Names, x \in Services :
                  LET gone == x = s /\ k = n
                  IN  /\ x \in r[k].ids <=> x \in st[k].ids /\ ~gone
                      /\ x \in r[k].active <=> x \in st[k].active /\ ~gone
                      /\ x \in r[k].healthy <=> x \in st[k].healthy /\ ~gone
<1> DEFINE r == RepoDelete(st, n, s)
<1>1. /\ st[n].ids \subseteq Services
      /\ st[n].active \subseteq st[n].ids
      /\ st[n].healthy \subseteq st[n].ids
  BY EntryFields
<1>2. r = [st EXCEPT ![n] = [ids     |-> st[n].ids \ {s},
                             active  |-> st[n].active \ {s},
                             healthy |-> st[n].healthy \ {s}]]
  BY DEF RepoDelete
<1>3. r[n] \in Entries
  BY <1>1, <1>2, NewEntry
<1> QED
  BY <1>2, <1>3

-----------------------------------------------------------------------------
(* The schedulers. *)

(* x is on the queue of the interval it is scheduled on. *)
OnItsQueue(sc, x) == x \in sc.queue[sc.at[x]]

(* A schedule taken apart. *)
LEMMA ScheduleFields ==
  ASSUME NEW sc \in Schedule
  PROVE  /\ sc.at \in [Services -> Priorities]
         /\ sc.queue \in [Priorities -> SUBSET Services]
         /\ sc = [at |-> sc.at, queue |-> sc.queue]
BY DEF Schedule

(* ScheduleService puts a service on one queue and moves no other. *)
LEMMA EnqueueEffect ==
  ASSUME NEW sc \in Schedule, NEW s \in Services, NEW i \in Priorities
  PROVE  /\ Enqueue(sc, s, i) =
              [at |-> sc.at, queue |-> [sc.queue EXCEPT ![i] = @ \cup {s}]]
         /\ Enqueue(sc, s, i) \in Schedule
<1> DEFINE q == [sc.queue EXCEPT ![i] = @ \cup {s}]
<1>1. q \in [Priorities -> SUBSET Services]
  BY ScheduleFields
<1>2. Enqueue(sc, s, i) = [at |-> sc.at, queue |-> q]
  <2> DEFINE a == sc.at
             b == sc.queue
  <2>1. sc = [at |-> a, queue |-> b]
    BY ScheduleFields
  <2> HIDE DEF a, b
  <2>2. Enqueue(sc, s, i) = [[at |-> a, queue |-> b] EXCEPT !.queue[i] = @ \cup {s}]
    BY <2>1 DEF Enqueue
  <2>3. Enqueue(sc, s, i) = [at |-> a, queue |-> [b EXCEPT ![i] = @ \cup {s}]]
    BY <2>2
  <2> QED
    BY <2>3 DEF a, b
<1> HIDE DEF q
<1>3. [at |-> sc.at, queue |-> q] \in Schedule
  BY <1>1, ScheduleFields DEF Schedule
<1> QED
  BY <1>2, <1>3 DEF q

(* RemoveService takes a service off one queue and off no other. *)
LEMMA DequeueEffect ==
  ASSUME NEW sc \in Schedule, NEW s \in Services, NEW i \in Priorities
  PROVE  /\ Dequeue(sc, s, i) =
              [at |-> sc.at, queue |-> [sc.queue EXCEPT ![i] = @ \ {s}]]
         /\ Dequeue(sc, s, i) \in Schedule
<1> DEFINE q == [sc.queue EXCEPT ![i] = @ \ {s}]
<1>1. q \in [Priorities -> SUBSET Services]
  BY ScheduleFields
<1>2. Dequeue(sc, s, i) = [at |-> sc.at, queue |-> q]
  <2> DEFINE a == sc.at
             b == sc.queue
  <2>1. sc = [at |-> a, queue |-> b]
    BY ScheduleFields
  <2> HIDE DEF a, b
  <2>2. Dequeue(sc, s, i) = [[at |-> a, queue |-> b] EXCEPT !.queue[i] = @ \ {s}]
    BY <2>1 DEF Dequeue
  <2>3. Dequeue(sc, s, i) = [at |-> a, queue |-> [b EXCEPT ![i] = @ \ {s}]]
    BY <2>2
  <2> QED
    BY <2>3 DEF a, b
<1> HIDE DEF q
<1>3. [at |-> sc.at, queue |-> q] \in Schedule
  BY <1>1, ScheduleFields DEF Schedule
<1> QED
  BY <1>2, <1>3 DEF q

(* moveServiceToInterval keeps every registered service on the queue of its *)
(* interval.                                                                *)
LEMMA MoveEffect ==
  ASSUME NEW sc \in Schedule, NEW reg \in SUBSET Services, NEW s \in Services,
         NEW i \in Priorities
  PROVE  LET r == MoveServiceToInterval(sc, reg, s, i)
         IN  /\ r \in Schedule
             /\ \A x \in reg : OnItsQueue(sc, x) => OnItsQueue(r, x)
<1> DEFINE r == MoveServiceToInterval(sc, reg, s, i)
           q == [sc.queue EXCEPT ![sc.at[s]] = @ \ {s}]
           a == IF s \in reg THEN i ELSE sc.at[s]
<1>1. CASE sc.at[s] = i
  BY <1>1 DEF MoveServiceToInterval
<1>2. CASE sc.at[s] # i
  <2>1. sc.at[s] \in Priorities
    BY ScheduleFields
  <2>2. /\ Dequeue(sc, s, sc.at[s]) = [at |-> sc.at, queue |-> q]
        /\ Dequeue(sc, s, sc.at[s]) \in Schedule
    BY <2>1, DequeueEffect
  <2>3. Enqueue(Dequeue(sc, s, sc.at[s]), s, i)
          = [at |-> sc.at, queue |-> [q EXCEPT ![i] = @ \cup {s}]]
    <3> DEFINE d == Dequeue(sc, s, sc.at[s])
    <3> HIDE DEF d
    <3>1. d.at = sc.at /\ d.queue = q /\ d \in Schedule
      BY <2>2 DEF d
    <3>2. Enqueue(d, s, i) = [at |-> d.at, queue |-> [d.queue EXCEPT ![i] = @ \cup {s}]]
      BY <3>1, EnqueueEffect
    <3> HIDE DEF q
    <3> QED
      BY <3>1, <3>2 DEF d
  <2>4. r = [at |-> [sc.at EXCEPT ![s] = a], queue |-> [q EXCEPT ![i] = @ \cup {s}]]
    <3> HIDE DEF q
    <3>1. r = [[at |-> sc.at, queue |-> [q EXCEPT ![i] = @ \cup {s}]]
                 EXCEPT !.at[s] = IF s \in reg THEN i ELSE @]
      BY <1>2, <2>3 DEF MoveServiceToInterval
    <3> QED
      BY <3>1
  <2>5. r \in Schedule
    BY <2>1, <2>4, ScheduleFields DEF Schedule
  <2>6. ASSUME NEW x \in reg, OnItsQueue(sc, x) PROVE OnItsQueue(r, x)
    <3>1. /\ \A j \in Priorities : r.queue[j] =
               ((IF j = sc.at[s] THEN sc.queue[j] \ {s} ELSE sc.queue[j])
                  \cup (IF j = i THEN {s} ELSE {}))
          /\ r.at[x] = IF x = s THEN i ELSE sc.at[x]
      BY <1>2, <2>1, <2>4, ScheduleFields
    <3>2. CASE x = s
      BY <3>1, <3>2 DEF OnItsQueue
    <3>3. CASE x # s
      BY <2>6, <3>1, <3>3, ScheduleFields DEF OnItsQueue
    <3> QED
      BY <3>2, <3>3
  <2> QED
    BY <2>5, <2>6
<1> QED
  BY <1>1, <1>2

-----------------------------------------------------------------------------
(* What a promotion writes. *)

WorldType == [store  : [Names -> Entries],
              sched  : Schedule,
              spoofs : SUBSET (Names \X Services)]

FlagsArePublished(w) ==
  \A k \in Names, x \in Services : x \in w.store[k].active => <<k, x>> \in w.spoofs

FlagsAreHealthy(st) ==
  \A k \in Names, x \in Services : x \in st[k].active => x \in st[k].healthy

(* What a promotion writes, taken apart. *)
LEMMA WorldFields ==
  ASSUME NEW w \in WorldType
  PROVE  /\ w.store \in [Names -> Entries]
         /\ w.sched \in Schedule
         /\ w.spoofs \in SUBSET (Names \X Services)
         /\ w = [store |-> w.store, sched |-> w.sched, spoofs |-> w.spoofs]
BY DEF WorldType

(* The flag is set or cleared in the group the service belongs to. *)
LEMMA SetActiveEffect ==
  ASSUME NEW w \in WorldType, NEW m \in [Services -> Names], NEW h \in SUBSET Services,
         NEW s \in Services, NEW b \in BOOLEAN
  PROVE  LET v == SetActive(w, m, h, s, b)
         IN  /\ v \in WorldType
             /\ v.sched = w.sched
             /\ v.spoofs = w.spoofs
             /\ \A k \in Names :
                  /\ v.store[k].ids = w.store[k].ids
                  /\ \A x \in Services : x \in v.store[k].active <=>
                       IF x = s /\ k = m[s] THEN b /\ s \in w.store[k].ids
                                            ELSE x \in w.store[k].active
             /\ FlagsAreHealthy(w.store) /\ (b => s \in h) => FlagsAreHealthy(v.store)
<1> DEFINE r == RepoUpdate(w.store, m[s], s, b, s \in h)
<1>1. SetActive(w, m, h, s, b) = [store |-> r, sched |-> w.sched, spoofs |-> w.spoofs]
  BY WorldFields DEF SetActive
<1>2. /\ m[s] \in Names
      /\ w.store \in [Names -> Entries]
  BY WorldFields
<1>3. /\ r \in [Names -> Entries]
      /\ \A k \in Names :
           /\ r[k].ids = w.store[k].ids
           /\ \A x \in Services :
                /\ x \in r[k].active <=>
                     IF x = s /\ k = m[s] THEN b /\ s \in w.store[m[s]].ids
                                       ELSE x \in w.store[k].active
                /\ x \in r[k].healthy <=>
                     IF x = s /\ k = m[s] THEN s \in h /\ s \in w.store[m[s]].ids
                                       ELSE x \in w.store[k].healthy
  BY <1>2, RepoUpdateEffect
<1> HIDE DEF r
<1>4. [store |-> r, sched |-> w.sched, spoofs |-> w.spoofs] \in WorldType
  BY <1>3, WorldFields DEF WorldType
<1>5. FlagsAreHealthy(w.store) /\ (b => s \in h) => FlagsAreHealthy(r)
  BY <1>3 DEF FlagsAreHealthy
<1> QED
  BY <1>1, <1>3, <1>4, <1>5 DEF r

(* A service that is flagged while it is up keeps the flags with the healthy. *)
LEMMA FlagSet ==
  ASSUME NEW w \in WorldType, NEW m \in [Services -> Names], NEW h \in SUBSET Services,
         NEW s \in Services
  PROVE  LET v == SetActive(w, m, h, s, TRUE)
         IN  /\ v \in WorldType
             /\ v.sched = w.sched
             /\ v.spoofs = w.spoofs
             /\ \A k \in Names :
                  /\ v.store[k].ids = w.store[k].ids
                  /\ \A x \in Services : x \in v.store[k].active <=>
                       IF x = s /\ k = m[s] THEN s \in w.store[k].ids
                                            ELSE x \in w.store[k].active
             /\ FlagsAreHealthy(w.store) /\ s \in h => FlagsAreHealthy(v.store)
<1> DEFINE v == SetActive(w, m, h, s, TRUE)
<1>1. /\ v \in WorldType
      /\ v.sched = w.sched
      /\ v.spoofs = w.spoofs
      /\ \A k \in Names :
           /\ v.store[k].ids = w.store[k].ids
           /\ \A x \in Services : x \in v.store[k].active <=>
                IF x = s /\ k = m[s] THEN TRUE /\ s \in w.store[k].ids
                                     ELSE x \in w.store[k].active
      /\ FlagsAreHealthy(w.store) /\ (TRUE => s \in h) => FlagsAreHealthy(v.store)
  BY SetActiveEffect, Zenon
<1> HIDE DEF v
<1> QED
  BY <1>1 DEF v

(* A flag that is cleared leaves no service flagged that is down. *)
LEMMA FlagCleared ==
  ASSUME NEW w \in WorldType, NEW m \in [Services -> Names], NEW h \in SUBSET Services,
         NEW s \in Services
  PROVE  LET v == SetActive(w, m, h, s, FALSE)
         IN  /\ v \in WorldType
             /\ v.sched = w.sched
             /\ v.spoofs = w.spoofs
             /\ \A k \in Names :
                  /\ v.store[k].ids = w.store[k].ids
                  /\ \A x \in Services : x \in v.store[k].active <=>
                       x \in w.store[k].active /\ ~(x = s /\ k = m[s])
             /\ FlagsAreHealthy(w.store) => FlagsAreHealthy(v.store)
<1> DEFINE v == SetActive(w, m, h, s, FALSE)
<1>1. /\ v \in WorldType
      /\ v.sched = w.sched
      /\ v.spoofs = w.spoofs
      /\ \A k \in Names :
           /\ v.store[k].ids = w.store[k].ids
           /\ \A x \in Services : x \in v.store[k].active <=>
                IF x = s /\ k = m[s] THEN FALSE /\ s \in w.store[k].ids
                                     ELSE x \in w.store[k].active
      /\ FlagsAreHealthy(w.store) /\ (FALSE => s \in h) => FlagsAreHealthy(v.store)
  BY SetActiveEffect, Zenon
<1> HIDE DEF v
<1> QED
  BY <1>1 DEF v

(* The branches of handlePromotion end with the move of an interval and a   *)
(* DNSUpdate.                                                               *)
LEMMA PublishEffect ==
  ASSUME NEW w \in WorldType, NEW m \in [Services -> Names], NEW reg \in SUBSET Services,
         NEW s \in Services
  PROVE  LET v == PublishActive(w, m, reg, s)
         IN  /\ v \in WorldType
             /\ v.store = w.store
             /\ v.spoofs = w.spoofs \cup {<<m[s], s>>}
             /\ \A x \in reg : OnItsQueue(w.sched, x) => OnItsQueue(v.sched, x)
<1> DEFINE q == MoveServiceToInterval(w.sched, reg, s, BaseInterval)
<1>1. PublishActive(w, m, reg, s)
        = [store |-> w.store, sched |-> q, spoofs |-> w.spoofs \cup {<<m[s], s>>}]
  <2>1. w = [store |-> w.store, sched |-> w.sched, spoofs |-> w.spoofs]
    BY WorldFields
  <2> HIDE DEF q
  <2>2. PublishActive(w, m, reg, s)
          = [w EXCEPT !.sched = q, !.spoofs = w.spoofs \cup {<<m[s], s>>}]
    BY DEF PublishActive, q
  <2> QED
    BY <2>1, <2>2
<1>2. /\ q \in Schedule
      /\ \A x \in reg : OnItsQueue(w.sched, x) => OnItsQueue(q, x)
  BY MoveEffect, WorldFields, ManagerAssumption
<1> QED
  BY <1>1, <1>2, WorldFields DEF WorldType

(* What handlePromotion does to the service that was active. *)
LEMMA DemoteEffect ==
  ASSUME NEW w \in WorldType, NEW m \in [Services -> Names], NEW reg \in SUBSET Services,
         NEW s \in Services, NEW i \in Priorities
  PROVE  LET v == Demote(w, m, reg, s, i)
         IN  /\ v \in WorldType
             /\ v.store = w.store
             /\ v.spoofs = w.spoofs \ {<<m[s], s>>}
             /\ \A x \in reg : OnItsQueue(w.sched, x) => OnItsQueue(v.sched, x)
<1> DEFINE q == MoveServiceToInterval(w.sched, reg, s, i)
<1>1. Demote(w, m, reg, s, i)
        = [store |-> w.store, sched |-> q, spoofs |-> w.spoofs \ {<<m[s], s>>}]
  <2>1. w = [store |-> w.store, sched |-> w.sched, spoofs |-> w.spoofs]
    BY WorldFields
  <2> HIDE DEF q
  <2>2. Demote(w, m, reg, s, i)
          = [w EXCEPT !.sched = q, !.spoofs = w.spoofs \ {<<m[s], s>>}]
    BY DEF Demote, q
  <2> QED
    BY <2>1, <2>2
<1>2. /\ q \in Schedule
      /\ \A x \in reg : OnItsQueue(w.sched, x) => OnItsQueue(q, x)
  BY MoveEffect, WorldFields
<1> QED
  BY <1>1, <1>2, WorldFields DEF WorldType

(* A promotion from old to new: no flag appears but the one of new, and the *)
(* flag of old is gone.                                                     *)
FlagMoves(w, v, m, new, old) ==
  \A k \in Names, x \in Services :
    x \in v.store[k].active =>
      \/ x = new /\ k = m[x]
      \/ x \in w.store[k].active /\ ~(x = old /\ k = m[x])

SameIds(w, v) == \A k \in Names : v.store[k].ids = w.store[k].ids

QueuesKept(w, v, reg) ==
  \A x \in reg : OnItsQueue(w.sched, x) => OnItsQueue(v.sched, x)

PromotionKeeps(w, v, reg, h, new) ==
  /\ v \in WorldType
  /\ SameIds(w, v)
  /\ QueuesKept(w, v, reg)
  /\ FlagsArePublished(w) => FlagsArePublished(v)
  /\ FlagsAreHealthy(w.store) /\ new \in h \cup {nil} => FlagsAreHealthy(v.store)

(* handlePromotion of the first service that comes up. *)
LEMMA FirstUpEffect ==
  ASSUME NEW w \in WorldType, NEW m \in [Services -> Names], NEW reg \in SUBSET Services,
         NEW h \in SUBSET Services, NEW s \in Services
  PROVE  /\ PromotionKeeps(w, FirstUp(w, m, reg, h, s), reg, h, s)
         /\ FlagMoves(w, FirstUp(w, m, reg, h, s), m, s, nil)
<1> USE DEF PromotionKeeps, FlagMoves, SameIds, QueuesKept
<1>1. \A x \in Services : x # nil
  BY GroupAssumption
<1>2. CASE ~Stored(w, m, s)
  BY <1>1, <1>2 DEF FirstUp
<1>3. CASE Stored(w, m, s)
  <2> DEFINE u == SetActive(w, m, h, s, TRUE)
             v == PublishActive(u, m, reg, s)
  <2> HIDE DEF u, v
  <2>1. FirstUp(w, m, reg, h, s) = v
    BY <1>3 DEF FirstUp, u, v
  <2>2. /\ u \in WorldType
        /\ u.sched = w.sched
        /\ u.spoofs = w.spoofs
        /\ \A k \in Names :
             /\ u.store[k].ids = w.store[k].ids
             /\ \A x \in Services : x \in u.store[k].active <=>
                  IF x = s /\ k = m[s] THEN s \in w.store[k].ids
                                       ELSE x \in w.store[k].active
        /\ FlagsAreHealthy(w.store) /\ s \in h => FlagsAreHealthy(u.store)
    BY FlagSet DEF u
  <2>3. /\ v \in WorldType
        /\ v.store = u.store
        /\ v.spoofs = u.spoofs \cup {<<m[s], s>>}
        /\ \A x \in reg : OnItsQueue(u.sched, x) => OnItsQueue(v.sched, x)
    BY <2>2, PublishEffect DEF v
  <2>4. FlagsArePublished(w) => FlagsArePublished(v)
    BY <2>2, <2>3 DEF FlagsArePublished
  <2>5. s # nil
    BY <1>1
  <2> QED
    BY <1>1, <2>1, <2>2, <2>3, <2>4, <2>5
<1> QED
  BY <1>2, <1>3

(* handlePromotion when the last service has gone down. *)
LEMMA AllDownEffect ==
  ASSUME NEW w \in WorldType, NEW m \in [Services -> Names], NEW reg \in SUBSET Services,
         NEW h \in SUBSET Services, NEW s \in Services
  PROVE  /\ PromotionKeeps(w, AllDown(w, m, h, s), reg, h, nil)
         /\ FlagMoves(w, AllDown(w, m, h, s), m, nil, s)
<1> USE DEF PromotionKeeps, FlagMoves, SameIds, QueuesKept
<1>1. CASE ~Stored(w, m, s)
  <2>1. \A k \in Names : w.store[k].active \subseteq w.store[k].ids
    BY WorldFields, EntryFields
  <2> QED
    BY <1>1, <2>1 DEF AllDown, Stored
<1>2. CASE Stored(w, m, s)
  <2> DEFINE u == SetActive(w, m, h, s, FALSE)
             v == AllDown(w, m, h, s)
  <2> HIDE DEF u, v
  <2>1. /\ u \in WorldType
        /\ u.sched = w.sched
        /\ u.spoofs = w.spoofs
        /\ \A k \in Names :
             /\ u.store[k].ids = w.store[k].ids
             /\ \A x \in Services : x \in u.store[k].active <=>
                  x \in w.store[k].active /\ ~(x = s /\ k = m[s])
        /\ FlagsAreHealthy(w.store) => FlagsAreHealthy(u.store)
    BY FlagCleared DEF u
  <2>2. v = [u EXCEPT !.spoofs = @ \ {<<m[s], s>>}]
    BY <1>2 DEF v, u, AllDown
  <2>3. /\ v \in WorldType
        /\ v.store = u.store
        /\ v.sched = u.sched
        /\ v.spoofs = u.spoofs \ {<<m[s], s>>}
    BY <2>1, <2>2 DEF WorldType
  <2>4. FlagsArePublished(w) => FlagsArePublished(v)
    BY <2>1, <2>3 DEF FlagsArePublished
  <2>5. PromotionKeeps(w, v, reg, h, nil) /\ FlagMoves(w, v, m, nil, s)
    BY <2>1, <2>3, <2>4
  <2> QED
    BY <2>5 DEF v
<1> QED
  BY <1>1, <1>2

(* handlePromotion from one service to another, with its early returns for  *)
(* entries that are missing.                                                *)
LEMMA SwapEffect ==
  ASSUME NEW w \in WorldType, NEW m \in [Services -> Names], NEW reg \in SUBSET Services,
         NEW h \in SUBSET Services, NEW new \in Services, NEW old \in Services, new # old
  PROVE  LET v == Swap(w, m, reg, h, [new |-> new, old |-> old])
         IN  PromotionKeeps(w, v, reg, h, new) /\ FlagMoves(w, v, m, new, old)
<1> USE DEF PromotionKeeps, FlagMoves, SameIds, QueuesKept
<1> DEFINE cleared == SetActive(w, m, h, old, FALSE)
           flagged == SetActive(cleared, m, h, new, TRUE)
           i == w.sched.at[new]
           demoted == Demote(flagged, m, reg, old, i)
           published == PublishActive(demoted, m, reg, new)
           v == Swap(w, m, reg, h, [new |-> new, old |-> old])
<1>1. i \in Priorities
  BY WorldFields, ScheduleFields
<1>2. v = IF ~Stored(w, m, old) THEN w
          ELSE IF ~Stored(cleared, m, new) THEN cleared ELSE published
  BY DEF Swap
<1> HIDE DEF cleared, flagged, i, demoted, published, v
<1>3. /\ cleared \in WorldType
      /\ cleared.sched = w.sched
      /\ cleared.spoofs = w.spoofs
      /\ \A k \in Names :
           /\ cleared.store[k].ids = w.store[k].ids
           /\ \A x \in Services : x \in cleared.store[k].active <=>
                x \in w.store[k].active /\ ~(x = old /\ k = m[old])
      /\ FlagsAreHealthy(w.store) => FlagsAreHealthy(cleared.store)
  BY FlagCleared DEF cleared
<1>4. /\ flagged \in WorldType
      /\ flagged.sched = cleared.sched
      /\ flagged.spoofs = cleared.spoofs
      /\ \A k \in Names :
           /\ flagged.store[k].ids = cleared.store[k].ids
           /\ \A x \in Services : x \in flagged.store[k].active <=>
                IF x = new /\ k = m[new] THEN new \in cleared.store[k].ids
                                         ELSE x \in cleared.store[k].active
      /\ FlagsAreHealthy(cleared.store) /\ new \in h => FlagsAreHealthy(flagged.store)
  BY <1>3, FlagSet DEF flagged
<1>5. /\ demoted \in WorldType
      /\ demoted.store = flagged.store
      /\ demoted.spoofs = flagged.spoofs \ {<<m[old], old>>}
      /\ \A x \in reg : OnItsQueue(flagged.sched, x) => OnItsQueue(demoted.sched, x)
  BY <1>1, <1>4, DemoteEffect DEF demoted
<1>6. /\ published \in WorldType
      /\ published.store = demoted.store
      /\ published.spoofs = demoted.spoofs \cup {<<m[new], new>>}
      /\ \A x \in reg : OnItsQueue(demoted.sched, x) => OnItsQueue(published.sched, x)
  BY <1>5, PublishEffect DEF published
<1>7. new # nil
  BY GroupAssumption
<1>8. CASE ~Stored(w, m, old)
  <2>1. \A k \in Names : w.store[k].active \subseteq w.store[k].ids
    BY WorldFields, EntryFields
  <2>2. v = w
    BY <1>2, <1>8
  <2> QED
    BY <1>8, <2>1, <2>2 DEF Stored, v
<1>9. CASE Stored(w, m, old) /\ ~Stored(cleared, m, new)
  <2>1. v = cleared
    BY <1>2, <1>9
  <2>2. FlagsArePublished(w) => FlagsArePublished(cleared)
    BY <1>3 DEF FlagsArePublished
  <2> QED
    BY <1>3, <2>1, <2>2 DEF v
<1>10. CASE Stored(w, m, old) /\ Stored(cleared, m, new)
  <2>1. v = published
    BY <1>2, <1>10
  <2>2. FlagsArePublished(w) => FlagsArePublished(published)
    BY <1>3, <1>4, <1>5, <1>6 DEF FlagsArePublished
  <2> QED
    BY <1>3, <1>4, <1>5, <1>6, <1>7, <2>1, <2>2 DEF v
<1> QED
  BY <1>8, <1>9, <1>10

(* handlePromotion, all branches. *)
LEMMA PromotionEffect ==
  ASSUME NEW w \in WorldType, NEW m \in [Services -> Names], NEW reg \in SUBSET Services,
         NEW h \in SUBSET Services, NEW ev \in Event
  PROVE  LET v == HandlePromotion(w, m, reg, h, ev)
         IN  /\ PromotionKeeps(w, v, reg, h, ev.new)
             /\ ev.new = ev.old => v = w
             /\ ev.new # ev.old => FlagMoves(w, v, m, ev.new, ev.old)
<1>1. /\ ev = [new |-> ev.new, old |-> ev.old]
      /\ ev.new \in Services \cup {nil}
      /\ ev.old \in Services \cup {nil}
  BY DEF Event
<1>2. CASE ev.new = ev.old
  BY <1>2 DEF HandlePromotion, PromotionKeeps, SameIds, QueuesKept
<1>3. CASE ev.new # ev.old /\ ev.new # nil /\ ev.old # nil
  <2>1. HandlePromotion(w, m, reg, h, ev)
          = Swap(w, m, reg, h, [new |-> ev.new, old |-> ev.old])
    BY <1>1, <1>3 DEF HandlePromotion
  <2> QED
    BY <1>1, <1>3, <2>1, SwapEffect
<1>4. CASE ev.new # nil /\ ev.old = nil
  <2>1. HandlePromotion(w, m, reg, h, ev) = FirstUp(w, m, reg, h, ev.new)
    BY <1>4 DEF HandlePromotion
  <2> QED
    BY <1>1, <1>4, <2>1, FirstUpEffect
<1>5. CASE ev.new = nil /\ ev.old # nil
  <2>1. HandlePromotion(w, m, reg, h, ev) = AllDown(w, m, h, ev.old)
    BY <1>5 DEF HandlePromotion
  <2> QED
    BY <1>1, <1>5, <2>1, AllDownEffect
<1> QED
  BY <1>2, <1>3, <1>4, <1>5

-----------------------------------------------------------------------------
(* What the methods of a group return. *)

(* The event of outcome o names the holder of the active role and its       *)
(* predecessor; without an event an active member that is up stays active.  *)
Announced(g, h, o) ==
  /\ o.event.new # o.event.old => /\ o.event.new = o.group.active
                                  /\ g.active \in {nil, o.event.old}
  /\ o.event.new = o.event.old => \/ g.active \notin g.members \cap h
                                  \/ g.active = o.group.active

ReturnsTyped(g, h, o) ==
  /\ o.group \in Group
  /\ o.event \in Event
  /\ o.event.new \in h \cup {nil}
  /\ o.group.members = g.members

(* The service a group picks is a member that is up, or none. *)
LEMMA FirstHealthyType ==
  ASSUME NEW g \in Group, NEW h, NEW p, NEW s \in FirstHealthy(g, h, p)
  PROVE  /\ s \in (g.members \cap h) \cup {nil}
         /\ s \in Services \cup {nil}
BY DEF FirstHealthy, BestOf, Group

(* Update of any group: the event, if there is one, goes from the service   *)
(* that was active to the one that is, and an active service of a group     *)
(* with members is up. A group of one member raises no event.               *)
LEMMA UpdateOutcome ==
  ASSUME NEW g \in Group, NEW h, NEW p, NEW o \in Update(g, h, p)
  PROVE  /\ ReturnsTyped(g, h, o)
         /\ Announced(g, h, o)
         /\ o.group.mu = g.mu
         /\ o.event # NoEvent => o.event.new # o.event.old
         /\ o.event.new # nil => o.event.new \in g.members
         /\ g.members # {} => o.group.active \in h \cup {nil}
<1>1. NoEvent \in Event /\ NoEvent.new = nil /\ NoEvent.old = nil
  BY DEF NoEvent, Event
<1>2. CASE g.members = {}
  <2>1. o.group = g /\ o.event = NoEvent
    BY <1>2 DEF Update, Quiet
  <2> QED
    BY <1>1, <1>2, <2>1 DEF ReturnsTyped, Announced
<1>3. CASE g.members # {}
  <2>1. PICK m \in SetGroupMode(g, h, p), next \in FirstHealthy(g, h, p) :
          o = Promote(m, next)
    BY <1>3 DEF Update
  <2> DEFINE one == \E s \in g.members : OnlyMember(g.members, s)
  <2>2. PICK only \in IF one THEN FirstHealthy(g, h, p) ELSE {g.active} :
          m = [g EXCEPT !.mode = ModeOf(g, p), !.active = only]
    BY <2>1 DEF SetGroupMode
  <2>3. /\ only \in Services \cup {nil}
        /\ next \in Services \cup {nil}
        /\ next \in (g.members \cap h) \cup {nil}
    BY <2>1, <2>2, FirstHealthyType DEF Group
  <2>4. /\ m \in Group
        /\ m.members = g.members
        /\ m.mu = g.mu
        /\ m.active = only
    BY <2>2, <2>3 DEF Group, ModeOf
  <2>5. one => only = next
    BY <2>1, <2>2 DEF FirstHealthy, BestOf, OnlyMember
  <2>6. g.active \in g.members \cap h /\ one => next = g.active
    BY <2>1 DEF FirstHealthy, BestOf, OnlyMember
  <2>7. ~one => only = g.active
    BY <2>2
  <2>8. nil \notin g.members
    BY GroupAssumption DEF Group
  <2>9. CASE next = only
    <3>1. o.group = m /\ o.event = NoEvent
      BY <2>1, <2>4, <2>9 DEF Promote, Quiet
    <3> QED
      BY <1>1, <2>3, <2>4, <2>6, <2>7, <2>9, <3>1 DEF ReturnsTyped, Announced
  <2>10. CASE next # only
    <3>1. /\ o.group = [m EXCEPT !.lastActive = m.active, !.active = next]
          /\ o.event = [new |-> next, old |-> m.active]
      BY <2>1, <2>4, <2>10 DEF Promote, Outcome
    <3>2. /\ o.group \in Group
          /\ o.group.members = g.members
          /\ o.group.mu = g.mu
          /\ o.group.active = next
      BY <3>1, <2>3, <2>4 DEF Group
    <3>3. /\ o.event \in Event
          /\ o.event.new = next
          /\ o.event.old = only
      BY <3>1, <2>3, <2>4 DEF Event
    <3> QED
      BY <2>3, <2>5, <2>7, <2>10, <3>2, <3>3 DEF ReturnsTyped, Announced
  <2> QED
    BY <2>9, <2>10
<1> QED
  BY <1>2, <1>3

(* OnServiceHealthChange of any group, whether or not s is a member. *)
LEMMA HealthOutcome ==
  ASSUME NEW g \in Group, NEW s \in Services, NEW h, NEW p,
         NEW o \in OnServiceHealthChange(g, s, h, p), g.mu = "free"
  PROVE  /\ ReturnsTyped(g, h, o)
         /\ Announced(g, h, o)
         /\ o.event.new # nil => o.event.new \in g.members \cup {s}
         /\ o.group.mu \in {"free", "held", "panic"}
         /\ o.group.mu = "free" => o.group.active \in h \cup {nil}
<1>1. NoEvent \in Event /\ NoEvent.new = nil /\ NoEvent.old = nil
  BY DEF NoEvent, Event
<1>2. CASE o \in {Leak(g), Panic(g)}
  <2>1. /\ o.group \in Group
        /\ o.group.members = g.members
        /\ o.group.active = g.active
        /\ o.group.mu \in {"held", "panic"}
        /\ o.event = NoEvent
    BY <1>2 DEF Leak, Panic, Quiet, Group
  <2> QED
    BY <1>1, <2>1 DEF ReturnsTyped, Announced
<1>3. CASE /\ s \notin h
           /\ g.active = s
           /\ \E next \in FirstHealthy(g, h, p) :
                o = Outcome([g EXCEPT !.lastActive = s, !.active = next], next, s)
  <2>1. PICK next \in FirstHealthy(g, h, p) :
          o = Outcome([g EXCEPT !.lastActive = s, !.active = next], next, s)
    BY <1>3
  <2>2. /\ next \in (g.members \cap h) \cup {nil}
        /\ next \in Services \cup {nil}
    BY FirstHealthyType
  <2>3. /\ o.group \in Group
        /\ o.group.members = g.members
        /\ o.group.active = next
        /\ o.group.mu = g.mu
        /\ o.event \in Event
        /\ o.event.new = next
        /\ o.event.old = s
    BY <2>1, <2>2 DEF Outcome, Group, Event
  <2>4. next # s
    BY <1>3, <2>2, GroupAssumption
  <2> QED
    BY <1>3, <2>2, <2>3, <2>4 DEF ReturnsTyped, Announced
<1>4. CASE /\ s \in h
           /\ o = Outcome([g EXCEPT !.lastActive = g.active, !.active = s],
                           s, OldActive(g))
  <2>1. OldActive(g) \in Services \cup {nil}
    BY DEF OldActive, Group
  <2>2. /\ o.group \in Group
        /\ o.group.members = g.members
        /\ o.group.active = s
        /\ o.group.mu = g.mu
        /\ o.event \in Event
        /\ o.event.new = s
        /\ o.event.old = OldActive(g)
    BY <1>4, <2>1 DEF Outcome, Group, Event
  <2>3. g.active \in {nil, OldActive(g)}
    BY DEF OldActive
  <2>4. nil \notin g.members
    BY GroupAssumption DEF Group
  <2> QED
    BY <1>4, <2>2, <2>3, <2>4 DEF ReturnsTyped, Announced
<1>5. CASE /\ s \in h
           /\ o = Outcome([g EXCEPT !.active = s], s, g.active)
  <2>1. /\ o.group \in Group
        /\ o.group.members = g.members
        /\ o.group.active = s
        /\ o.group.mu = g.mu
        /\ o.event \in Event
        /\ o.event.new = s
        /\ o.event.old = g.active
    BY <1>5 DEF Outcome, Group, Event
  <2> QED
    BY <1>5, <2>1 DEF ReturnsTyped, Announced
<1>6. CASE s \in h
  BY <1>2, <1>4, <1>5, <1>6 DEF OnServiceHealthChange, PassiveUp, ActiveUp
<1>7. CASE s \notin h
  BY <1>2, <1>3, <1>7 DEF OnServiceHealthChange, PassiveDown, ActiveDown
<1> QED
  BY <1>6, <1>7

-----------------------------------------------------------------------------
(* The parts of the inductive invariant, as predicates of groups gs, entries *)
(* st, the MemberOf m of each service, the registered services reg and the   *)
(* healthy ones h.                                                           *)

(* The groups have the members that the registrations give them. *)
MembersFit(gs, m, reg) == \A k \in Names : gs[k].members = {x \in reg : m[x] = k}

(* A group that can still promote has no unhealthy active member. *)
ActiveIsUp(gs, h) ==
  \A k \in Names : gs[k].mu = "free" /\ gs[k].active \in gs[k].members
                     => gs[k].active \in h

(* Only the holder of the active role is flagged. *)
HolderOnly(gs, st, m, reg) ==
  \A x \in reg : x \in gs[m[x]].members /\ x \in st[m[x]].active => gs[m[x]].active = x

(* A flagged service is up. *)
FlaggedUp(st, m, reg, h) == \A x \in reg : x \in st[m[x]].active => x \in h

(* A group that can still promote and has a member of another group's name  *)
(* is the one that member is waiting to leave, and it has not joined the    *)
(* other group.                                                             *)
Home(gs, m) ==
  \A k \in Names : gs[k].mu = "free" =>
    \A x \in gs[k].members : m[x] = k \/ x \notin gs[m[x]].members

(* What handlePromotion writes. *)
W == [store |-> store, sched |-> sched, spoofs |-> spoofs]

(* The inductive invariant. *)
IInv ==
  /\ TypeOK
  /\ FlagsArePublished(W)
  /\ FlagsAreHealthy(store)
  /\ "zone" \notin stuck => \A x \in registered : OnItsQueue(sched, x)
  /\ stuck = {} => MembersFit(groups, memberOf, registered) /\ ActiveIsUp(groups, healthy)
  /\ "manager" \notin stuck => /\ HolderOnly(groups, store, memberOf, registered)
                               /\ FlaggedUp(store, memberOf, registered, healthy)
                               /\ Home(groups, memberOf)

(* Members that fit their names are at home. *)
LEMMA HomeIfFit ==
  ASSUME NEW gs, NEW m, NEW reg, MembersFit(gs, m, reg)
  PROVE  Home(gs, m)
BY DEF MembersFit, Home

(* The group of a name, and its members. *)
LEMMA GroupOfName ==
  ASSUME NEW gs \in [Names -> Group], NEW k \in Names
  PROVE  gs[k] \in Group /\ gs[k].members \subseteq Services /\ nil \notin gs[k].members
BY GroupAssumption DEF Group

(* A promotion that group n returns keeps the flag with the active role. *)
LEMMA PromotionHolder ==
  ASSUME NEW gs \in [Names -> Group], NEW n \in Names, NEW w \in WorldType,
         NEW m \in [Services -> Names], NEW reg \in SUBSET Services,
         NEW h \in SUBSET Services, NEW o,
         ReturnsTyped(gs[n], h, o), Announced(gs[n], h, o),
         o.event.new # nil => \/ m[o.event.new] = n
                              \/ o.event.new \notin gs[m[o.event.new]].members,
         HolderOnly(gs, w.store, m, reg), FlaggedUp(w.store, m, reg, h)
  PROVE  LET v == HandlePromotion(w, m, reg, h, o.event)
         IN  /\ HolderOnly([gs EXCEPT ![n] = o.group], v.store, m, reg)
             /\ FlaggedUp(v.store, m, reg, h)
<1> DEFINE v == HandlePromotion(w, m, reg, h, o.event)
           new == o.event.new
           old == o.event.old
<1>1. /\ new = old => v = w
      /\ new # old => FlagMoves(w, v, m, new, old)
  BY PromotionEffect DEF ReturnsTyped
<1> HIDE DEF v
<1>2. nil \notin Services
  BY GroupAssumption
<1>3. ASSUME NEW x \in reg, x \in v.store[m[x]].active
      PROVE  \/ x = new /\ new # old
             \/ x \in w.store[m[x]].active /\ (new # old => x # old)
  BY <1>1, <1>3 DEF FlagMoves
<1>4. FlaggedUp(v.store, m, reg, h)
  BY <1>2, <1>3 DEF FlaggedUp, ReturnsTyped
<1>5. ASSUME NEW x \in reg, x \in gs[m[x]].members, x \in v.store[m[x]].active
      PROVE  [gs EXCEPT ![n] = o.group][m[x]].active = x
  <2>1. CASE x = new /\ new # old
    BY <1>2, <1>5, <2>1 DEF Announced
  <2>2. CASE x \in w.store[m[x]].active /\ (new # old => x # old)
    <3>1. gs[m[x]].active = x /\ x \in h
      BY <1>5, <2>2 DEF HolderOnly, FlaggedUp
    <3>2. m[x] = n => o.group.active = x
      BY <1>2, <1>5, <2>2, <3>1 DEF Announced
    <3> QED
      BY <3>1, <3>2
  <2> QED
    BY <1>3, <1>5, <2>1, <2>2
<1>6. \A x \in reg : [gs EXCEPT ![n] = o.group][m[x]].members = gs[m[x]].members
  BY DEF ReturnsTyped
<1> QED
  BY <1>4, <1>5, <1>6 DEF HolderOnly, v

(* Writes that only take flags away. *)
Fewer(w, v) ==
  \A k \in Names, x \in Services : x \in v.store[k].active => x \in w.store[k].active

Tidy(w, v, reg) ==
  /\ v \in WorldType
  /\ Fewer(w, v)
  /\ QueuesKept(w, v, reg)
  /\ FlagsArePublished(w) => FlagsArePublished(v)
  /\ FlagsAreHealthy(w.store) => FlagsAreHealthy(v.store)

(* RemoveService ends with the deletion of the entry. *)
LEMMA RemoveEntryTidy ==
  ASSUME NEW w \in WorldType, NEW n \in Names, NEW s \in Services, NEW reg
  PROVE  Tidy(w, RemoveEntry(w, n, s), reg)
<1> DEFINE st == RepoDelete(w.store, n, s)
<1>1. RemoveEntry(w, n, s) = [store |-> st, sched |-> w.sched, spoofs |-> w.spoofs]
  BY WorldFields DEF RemoveEntry
<1>2. /\ st \in [Names -> Entries]
      /\ \A k \in Names, x \in Services :
           /\ x \in st[k].active <=> x \in w.store[k].active /\ ~(x = s /\ k = n)
           /\ x \in st[k].healthy <=> x \in w.store[k].healthy /\ ~(x = s /\ k = n)
  BY RepoDeleteEffect, WorldFields
<1> HIDE DEF st
<1>3. [store |-> st, sched |-> w.sched, spoofs |-> w.spoofs] \in WorldType
  BY <1>2, WorldFields DEF WorldType
<1>4. FlagsAreHealthy(w.store) => FlagsAreHealthy(st)
  BY <1>2 DEF FlagsAreHealthy
<1> QED
  BY <1>1, <1>2, <1>3, <1>4 DEF Tidy, Fewer, QueuesKept, FlagsArePublished

(* updateService ends with an entry that is not flagged and a move. *)
LEMMA FinishUpdateTidy ==
  ASSUME TypeOK, NEW w \in WorldType, NEW m \in [Services -> Names], NEW s \in Services,
         NEW i, NEW j \in Priorities
  PROVE  Tidy(w, FinishUpdate(w, m, s, i, j), registered)
<1> DEFINE x == SetActive(w, m, healthy, s, FALSE)
           q == MoveServiceToInterval(x.sched, registered, s, j)
           v == FinishUpdate(w, m, s, i, j)
<1>1. healthy \in SUBSET Services /\ registered \in SUBSET Services
  BY DEF TypeOK
<1>2. /\ x \in WorldType
      /\ x.sched = w.sched
      /\ x.spoofs = w.spoofs
      /\ \A k \in Names :
           /\ x.store[k].ids = w.store[k].ids
           /\ \A y \in Services :
                y \in x.store[k].active <=> y \in w.store[k].active /\ ~(y = s /\ k = m[s])
      /\ FlagsAreHealthy(w.store) => FlagsAreHealthy(x.store)
  BY <1>1, FlagCleared, Zenon
<1>3. \/ v = x
      \/ v = [x EXCEPT !.sched = q]
  BY DEF FinishUpdate
<1> HIDE DEF x, v
<1>4. /\ q \in Schedule
      /\ \A y \in registered : OnItsQueue(x.sched, y) => OnItsQueue(q, y)
  BY <1>1, <1>2, MoveEffect, WorldFields
<1> HIDE DEF q
<1>5. /\ v \in WorldType
      /\ v.store = x.store
      /\ v.spoofs = x.spoofs
      /\ v.sched \in {x.sched, q}
  BY <1>2, <1>3, <1>4 DEF WorldType
<1>6. Tidy(w, v, registered)
  BY <1>2, <1>4, <1>5 DEF Tidy, Fewer, QueuesKept, FlagsArePublished
<1> QED
  BY <1>6 DEF v

(* A step that clears flags and publishes nothing keeps what is true of flags. *)
LEMMA FewerFlags ==
  ASSUME NEW gs, NEW w, NEW v, NEW m \in [Services -> Names], NEW h,
         NEW reg \in SUBSET Services, Fewer(w, v)
  PROVE  /\ HolderOnly(gs, w.store, m, reg) => HolderOnly(gs, v.store, m, reg)
         /\ FlaggedUp(w.store, m, reg, h) => FlaggedUp(v.store, m, reg, h)
BY DEF Fewer, HolderOnly, FlaggedUp

-----------------------------------------------------------------------------
(* One lemma per action. *)

(* The part of the state that handlePromotion writes. *)
LEMMA Types ==
  ASSUME TypeOK
  PROVE  /\ W \in WorldType
         /\ W = World(store, sched)
         /\ W.store = store /\ W.sched = sched /\ W.spoofs = spoofs
BY DEF TypeOK, W, WorldType, World

(* RegisterService: the entry is created without a flag, and an event would *)
(* leave the manager waiting for its own mutex.                             *)
LEMMA RegisterKeeps ==
  ASSUME IInv, stuck = {}, NEW s \in Services, NEW n \in Names, NEW p \in Priorities,
         Register(s, n, p)
  PROVE  IInv'
<1> DEFINE r  == Restored(s, n)
           h  == With(healthy, s, r)
           pr == [priority EXCEPT ![s] = p]
           st == RepoCreate(store, n, s, r)
           sc == [Enqueue(sched, s, p) EXCEPT !.at[s] = p]
           g0 == [groups[n] EXCEPT !.members = @ \cup {s}]
<1>1. TypeOK
  BY DEF IInv
<1>2. /\ s \notin registered
      /\ registered' = registered \cup {s}
      /\ memberOf' = [memberOf EXCEPT ![s] = n]
      /\ priority' = pr
      /\ healthy' = h
      /\ store' = st
      /\ sched' = sc
      /\ spoofs' = spoofs
  BY DEF Register, World, Writes
<1>3. twins' \in BOOLEAN
  BY DEF Register, InUse
<1>4. /\ st \in [Names -> Entries]
      /\ \A k \in Names, x \in Services :
           /\ x \in st[k].active <=> x \in store[k].active /\ ~(x = s /\ k = n)
           /\ ~(x = s /\ k = n) => (x \in st[k].healthy <=> x \in store[k].healthy)
  <2>1. r \in BOOLEAN /\ store \in [Names -> Entries]
    BY <1>1 DEF TypeOK, Restored
  <2> HIDE DEF r
  <2> QED
    BY <2>1, RepoCreateEffect
<1>5. /\ sc = [at    |-> [sched.at EXCEPT ![s] = p],
               queue |-> [sched.queue EXCEPT ![p] = @ \cup {s}]]
      /\ sc \in Schedule
  <2>1. sched \in Schedule
    BY <1>1 DEF TypeOK
  <2>2. Enqueue(sched, s, p)
          = [at |-> sched.at, queue |-> [sched.queue EXCEPT ![p] = @ \cup {s}]]
    BY <2>1, EnqueueEffect
  <2>3. sc = [at    |-> [sched.at EXCEPT ![s] = p],
              queue |-> [sched.queue EXCEPT ![p] = @ \cup {s}]]
    <3> DEFINE q == [sched.queue EXCEPT ![p] = @ \cup {s}]
    <3> HIDE DEF q
    <3>1. sc = [[at |-> sched.at, queue |-> q] EXCEPT !.at[s] = p]
      BY <2>2 DEF q
    <3>2. sc = [at |-> [sched.at EXCEPT ![s] = p], queue |-> q]
      BY <3>1
    <3> QED
      BY <3>2 DEF q
  <2> QED
    BY <2>1, <2>3, ScheduleFields DEF Schedule
<1>6. h \subseteq Services /\ \A x \in Services : x # s => (x \in h <=> x \in healthy)
  BY <1>1 DEF TypeOK, With
<1> HIDE DEF r, h, st, sc
<1>7. groups[n] \in Group /\ g0 \in Group /\ g0.members = groups[n].members \cup {s}
        /\ g0.active = groups[n].active
  <2>1. groups[n] \in Group
    BY <1>1 DEF TypeOK
  <2> QED
    BY <2>1 DEF Group
<1>8. /\ MembersFit(groups, memberOf, registered)
      /\ ActiveIsUp(groups, healthy)
      /\ HolderOnly(groups, store, memberOf, registered)
      /\ FlaggedUp(store, memberOf, registered, healthy)
  BY DEF IInv
<1>9. \A k \in Names : s \notin groups[k].members
  BY <1>2, <1>8 DEF MembersFit
<1>10. ASSUME NEW o \in RegisterService(groups[n], s, h, pr)
      PROVE  /\ ReturnsTyped(g0, h, o)
             /\ Announced(g0, h, o)
             /\ o.group.mu = groups[n].mu
             /\ o.group.active \in h \cup {nil}
  <2>1. o \in Update(g0, h, pr)
    BY <1>9 DEF RegisterService
  <2> HIDE DEF g0, pr
  <2>2. g0.mu = groups[n].mu /\ g0.members # {}
    BY <1>7 DEF g0, Group
  <2> QED
    BY <1>7, <2>1, <2>2, UpdateOutcome
<1> HIDE DEF g0, pr
<1>11. \/ /\ groups' \in [Names -> Group]
         /\ stuck' = {"manager"}
      \/ /\ stuck' = {}
         /\ \E o \in RegisterService(groups[n], s, h, pr) :
              o.event = NoEvent /\ groups' = [groups EXCEPT ![n] = o.group]
  <2>1. CASE groups[n].mu = "held" /\ stuck' = stuck \cup {"manager"} /\ groups' = groups
    BY <1>1, <2>1 DEF TypeOK
  <2>2. ASSUME NEW o \in RegisterService(groups[n], s, h, pr),
               IF o.event = NoEvent
                 THEN /\ groups' = [groups EXCEPT ![n] = o.group]
                      /\ UNCHANGED stuck
                 ELSE /\ groups' = [groups EXCEPT ![n] = [o.group EXCEPT !.mu = "held"]]
                      /\ stuck' = stuck \cup {"manager"}
        PROVE  \/ /\ groups' \in [Names -> Group]
                  /\ stuck' = {"manager"}
               \/ /\ stuck' = {}
                  /\ o.event = NoEvent /\ groups' = [groups EXCEPT ![n] = o.group]
    <3>1. CASE o.event = NoEvent
      BY <2>2, <3>1
    <3>2. CASE o.event # NoEvent
      <4>1. [o.group EXCEPT !.mu = "held"] \in Group
        BY <1>10 DEF ReturnsTyped, Group
      <4> QED
        BY <1>1, <2>2, <3>2, <4>1 DEF TypeOK
    <3> QED
      BY <3>1, <3>2
  <2> QED
    BY <2>1, <2>2 DEF Register, r, h, pr
<1>12. TypeOK'
  <2>1. groups' \in [Names -> Group]
    BY <1>1, <1>10, <1>11 DEF TypeOK, ReturnsTyped
  <2> QED
    BY <1>1, <1>2, <1>4, <1>5, <1>6, <1>11, <1>3, <2>1 DEF TypeOK, pr
<1>13. FlagsArePublished(W)'
  BY <1>2, <1>4 DEF IInv, FlagsArePublished, W
<1>14. FlagsAreHealthy(store)'
  BY <1>2, <1>4 DEF IInv, FlagsAreHealthy
<1>15. ASSUME NEW x \in registered' PROVE OnItsQueue(sched, x)'
  <2>1. x # s => OnItsQueue(sched, x)
    BY <1>2 DEF IInv
  <2>2. sched \in Schedule /\ x \in Services
    BY <1>1, <1>2 DEF TypeOK
  <2> QED
    BY <1>2, <1>5, <2>1, <2>2, ScheduleFields DEF OnItsQueue
<1>16. ASSUME "manager" \notin stuck'
       PROVE  /\ MembersFit(groups, memberOf, registered)'
              /\ ActiveIsUp(groups, healthy)'
              /\ HolderOnly(groups, store, memberOf, registered)'
              /\ FlaggedUp(store, memberOf, registered, healthy)'
  <2>1. PICK o \in RegisterService(groups[n], s, h, pr) :
          o.event = NoEvent /\ groups' = [groups EXCEPT ![n] = o.group]
    BY <1>11, <1>16
  <2>2. /\ ReturnsTyped(g0, h, o)
        /\ Announced(g0, h, o)
        /\ o.group.active \in h \cup {nil}
        /\ o.event.new = o.event.old
    BY <1>10, <2>1 DEF NoEvent
  <2>3. /\ groups \in [Names -> Group]
        /\ memberOf \in [Services -> Names]
        /\ registered \subseteq Services
    BY <1>1 DEF TypeOK
  <2>4. MembersFit(groups, memberOf, registered)'
    BY <1>2, <1>7, <1>8, <2>1, <2>2, <2>3 DEF MembersFit, ReturnsTyped
  <2>5. ActiveIsUp(groups, healthy)'
    <3>1. ASSUME NEW k \in Names, groups'[k].mu = "free",
                 groups'[k].active \in groups'[k].members
          PROVE  groups'[k].active \in h
      <4>1. nil \notin groups'[k].members
        BY <1>12, GroupOfName DEF TypeOK
      <4>2. CASE k = n
        BY <2>1, <2>2, <2>3, <3>1, <4>1, <4>2
      <4>3. CASE k # n
        <5>1. groups'[k] = groups[k] /\ groups[k].active \in Services \ {s}
          BY <1>9, <2>1, <2>3, <3>1, <4>3, GroupOfName
        <5> QED
          BY <1>6, <1>8, <3>1, <5>1 DEF ActiveIsUp
      <4> QED
        BY <4>2, <4>3
    <3> QED
      BY <1>2, <3>1 DEF ActiveIsUp
  <2>6. FlaggedUp(store, memberOf, registered, healthy)'
    BY <1>2, <1>4, <1>6, <1>8, <2>3 DEF FlaggedUp
  <2>7. ASSUME NEW x \in registered', x \in groups'[memberOf'[x]].members,
               x \in store'[memberOf'[x]].active
        PROVE  groups'[memberOf'[x]].active = x
    <3>1. x # s /\ x \in registered /\ memberOf'[x] = memberOf[x]
      BY <1>2, <1>4, <2>3, <2>7
    <3>2. /\ x \in store[memberOf[x]].active
          /\ x \in groups[memberOf[x]].members
      BY <1>2, <1>4, <1>8, <2>3, <2>7, <3>1 DEF MembersFit
    <3>3. groups[memberOf[x]].active = x /\ x \in h
      BY <1>6, <1>8, <2>3, <3>1, <3>2 DEF HolderOnly, FlaggedUp
    <3>4. memberOf[x] = n => o.group.active = x
      BY <1>7, <2>2, <3>2, <3>3 DEF Announced
    <3> QED
      BY <2>1, <2>3, <3>1, <3>3, <3>4
  <2> QED
    BY <2>4, <2>5, <2>6, <2>7 DEF HolderOnly
<1>17. "manager" \notin stuck' => Home(groups, memberOf)'
  BY <1>16, HomeIfFit
<1> QED
  BY <1>12, <1>13, <1>14, <1>15, <1>16, <1>17 DEF IInv

(* RemoveService: the old holder loses its entry, and the next one is       *)
(* flagged in the group it belongs to.                                      *)
LEMMA RemoveKeeps ==
  ASSUME IInv, stuck = {}, NEW s \in Services, Remove(s)
  PROVE  IInv'
<1> DEFINE n == memberOf[s]
           d == Dequeue(sched, s, sched.at[s])
<1>1. TypeOK /\ n \in Names /\ s \in registered
  BY DEF IInv, TypeOK, Remove
<1>2. /\ MembersFit(groups, memberOf, registered)
      /\ ActiveIsUp(groups, healthy)
      /\ HolderOnly(groups, store, memberOf, registered)
      /\ FlaggedUp(store, memberOf, registered, healthy)
      /\ Home(groups, memberOf)
      /\ FlagsArePublished(W)
      /\ FlagsAreHealthy(store)
      /\ \A x \in registered : OnItsQueue(sched, x)
  BY DEF IInv
<1>3. sched \in Schedule /\ sched.at[s] \in Priorities
  BY <1>1, ScheduleFields DEF TypeOK
<1>4. /\ d = [at |-> sched.at, queue |-> [sched.queue EXCEPT ![sched.at[s]] = @ \ {s}]]
      /\ d \in Schedule
  BY <1>3, DequeueEffect
<1>5. ASSUME NEW x \in registered, x # s PROVE OnItsQueue(d, x)
  BY <1>1, <1>2, <1>3, <1>4, <1>5, ScheduleFields DEF OnItsQueue, TypeOK
<1>6. UNCHANGED <<memberOf, priority, healthy, twins>>
  BY DEF Remove
<1> HIDE DEF n, d
<1> SUFFICES ASSUME NEW sc \in {sched, d},
                    \/ /\ groups[n].mu = "held"
                       /\ stuck' = stuck \cup {"zone"}
                       /\ Writes(World(store, sc))
                       /\ UNCHANGED <<groups, registered>>
                    \/ /\ groups[n].mu = "free"
                       /\ registered' = registered \ {s}
                       /\ UNCHANGED stuck
                       /\ \E o \in RemoveService(groups[n], s, healthy, priority) :
                            /\ groups' = [groups EXCEPT ![n] = DropIfEmpty(o.group)]
                            /\ Writes(RemoveEntry(
                                 HandlePromotion(World(store, sc), memberOf, registered,
                                                 healthy, o.event), n, s))
             PROVE  IInv'
  BY DEF Remove, n, d
<1> DEFINE w == [store |-> store, sched |-> sc, spoofs |-> spoofs]
<1>7. sc \in Schedule /\ \A x \in registered : x # s => OnItsQueue(sc, x)
  BY <1>2, <1>3, <1>4, <1>5
<1>8. w \in WorldType /\ FlagsArePublished(w) /\ FlagsAreHealthy(w.store)
  BY <1>1, <1>2, <1>7 DEF WorldType, TypeOK, W, FlagsArePublished
<1>9. CASE groups[n].mu = "held" /\ stuck' = stuck \cup {"zone"} /\ Writes(w)
           /\ UNCHANGED <<groups, registered>>
  <2>1. store' = store /\ sched' = sc /\ spoofs' = spoofs /\ stuck' = {"zone"}
    BY <1>9 DEF Writes
  <2>2. TypeOK'
    BY <1>1, <1>7, <1>6, <1>9, <2>1 DEF TypeOK
  <2>3. FlagsArePublished(W)'
    BY <1>2, <2>1 DEF FlagsArePublished, W
  <2> QED
    BY <1>2, <1>6, <1>9, <2>1, <2>2, <2>3 DEF IInv
<1>10. ASSUME groups[n].mu = "free", registered' = registered \ {s}, UNCHANGED stuck,
             NEW o \in RemoveService(groups[n], s, healthy, priority),
             groups' = [groups EXCEPT ![n] = DropIfEmpty(o.group)],
             Writes(RemoveEntry(
               HandlePromotion(w, memberOf, registered, healthy, o.event), n, s))
      PROVE  IInv'
  <2> DEFINE g0 == [groups[n] EXCEPT !.members = @ \ {s}]
             gs == [groups EXCEPT ![n] = g0]
             v  == HandlePromotion(w, memberOf, registered, healthy, o.event)
             u  == RemoveEntry(v, n, s)
  <2>1. /\ groups \in [Names -> Group]
        /\ memberOf \in [Services -> Names]
        /\ registered \in SUBSET Services
        /\ healthy \in SUBSET Services
    BY <1>1 DEF TypeOK
  <2>2. s \in groups[n].members
    BY <1>1, <1>2 DEF MembersFit, n
  <2>3. /\ g0 \in Group
        /\ g0.members = groups[n].members \ {s}
        /\ g0.active = groups[n].active
        /\ g0.mu = "free"
    BY <1>1, <1>10, <2>1 DEF Group
  <2>4. /\ gs \in [Names -> Group]
        /\ gs[n] = g0
        /\ \A k \in Names : k # n => gs[k] = groups[k]
    BY <1>1, <2>1, <2>3
  <2>5. o \in Update(g0, healthy, priority)
    BY <2>2 DEF RemoveService
  <2> HIDE DEF g0
  <2>6. /\ ReturnsTyped(g0, healthy, o)
        /\ Announced(g0, healthy, o)
        /\ o.event.new # nil => o.event.new \in g0.members
        /\ g0.members # {} => o.group.active \in healthy \cup {nil}
    BY <2>3, <2>5, UpdateOutcome
  <2> HIDE DEF gs, w
  <2>7. PromotionKeeps(w, v, registered, healthy, o.event.new)
    BY <1>8, <2>1, <2>6, PromotionEffect DEF ReturnsTyped
  <2>8. /\ HolderOnly(gs, store, memberOf, registered)
        /\ HolderOnly(gs, w.store, memberOf, registered)
        /\ FlaggedUp(w.store, memberOf, registered, healthy)
    <3>1. w.store = store
      BY DEF w
    <3>2. HolderOnly(gs, store, memberOf, registered)
      BY <1>2, <2>1, <2>3, <2>4 DEF HolderOnly
    <3> QED
      BY <1>2, <3>1, <3>2
  <2>9. o.event.new # nil => memberOf[o.event.new] = n
    BY <1>1, <1>2, <2>3, <2>6 DEF MembersFit
  <2>10. /\ HolderOnly([gs EXCEPT ![n] = o.group], v.store, memberOf, registered)
        /\ FlaggedUp(v.store, memberOf, registered, healthy)
    BY <1>1, <1>8, <2>1, <2>4, <2>6, <2>8, <2>9, PromotionHolder
  <2> HIDE DEF v
  <2>11. Tidy(v, u, registered)
    BY <1>1, <2>7, RemoveEntryTidy DEF PromotionKeeps
  <2>12. /\ HolderOnly([gs EXCEPT ![n] = o.group], u.store, memberOf, registered)
         /\ FlaggedUp(u.store, memberOf, registered, healthy)
    BY <2>1, <2>10, <2>11, FewerFlags DEF Tidy
  <2> HIDE DEF u
  <2>13. store' = u.store /\ sched' = u.sched /\ spoofs' = u.spoofs
    BY <1>10 DEF Writes, u, v
  <2>14. /\ DropIfEmpty(o.group) \in Group
         /\ DropIfEmpty(o.group).members = g0.members
         /\ g0.members # {} => DropIfEmpty(o.group) = o.group
    BY <2>6 DEF DropIfEmpty, NewEmptyServiceGroup, ReturnsTyped, Group
  <2>15. TypeOK'
    BY <1>1, <1>6, <1>10, <2>1, <2>11, <2>13, <2>14, WorldFields DEF TypeOK, Tidy
  <2>16. FlagsArePublished(u) /\ FlagsAreHealthy(u.store)
    BY <1>8, <2>6, <2>7, <2>11 DEF PromotionKeeps, Tidy, ReturnsTyped
  <2>17. FlagsArePublished(W)' /\ FlagsAreHealthy(store)'
    BY <2>13, <2>16 DEF FlagsArePublished, W
  <2>18. \A x \in registered' : OnItsQueue(sched, x)'
    <3>1. w.sched = sc
      BY DEF w
    <3>2. \A x \in registered : x # s => OnItsQueue(u.sched, x)
      BY <1>7, <2>7, <2>11, <3>1 DEF PromotionKeeps, Tidy, QueuesKept
    <3> QED
      BY <1>10, <2>13, <3>2 DEF OnItsQueue
  <2>19. MembersFit(groups, memberOf, registered)'
    BY <1>1, <1>2, <1>6, <1>10, <2>1, <2>3, <2>14 DEF MembersFit, n
  <2>20. ActiveIsUp(groups, healthy)'
    <3>1. nil \notin g0.members
      BY <2>3, GroupAssumption DEF Group
    <3> QED
      BY <1>1, <1>2, <1>6, <1>10, <2>1, <2>6, <2>14, <3>1 DEF ActiveIsUp
  <2>21. FlaggedUp(store, memberOf, registered, healthy)'
    BY <1>6, <1>10, <2>12, <2>13 DEF FlaggedUp
  <2>22. HolderOnly(groups, store, memberOf, registered)'
    <3>1. \A k \in Names : groups'[k].members # {}
            => groups'[k] = [gs EXCEPT ![n] = o.group][k]
      BY <1>1, <1>10, <2>1, <2>4, <2>14
    <3> QED
      BY <1>6, <1>10, <2>1, <2>12, <2>13, <3>1 DEF HolderOnly
  <2> QED
    BY <1>10, <2>15, <2>17, <2>18, <2>19, <2>20, <2>21, <2>22, HomeIfFit DEF IInv
<1> QED
  BY <1>9, <1>10 DEF World

(* updateService within a group. *)
LEMMA ReconfigureKeeps ==
  ASSUME IInv, stuck = {}, NEW s \in Services, NEW p \in Priorities, Reconfigure(s, p)
  PROVE  IInv'
<1> DEFINE n  == memberOf[s]
           pr == [priority EXCEPT ![s] = p]
<1>1. /\ TypeOK
      /\ n \in Names
      /\ groups \in [Names -> Group]
      /\ memberOf \in [Services -> Names]
      /\ registered \in SUBSET Services
      /\ healthy \in SUBSET Services
      /\ pr \in [Services -> Priorities]
  BY DEF IInv, TypeOK
<1>2. /\ MembersFit(groups, memberOf, registered)
      /\ ActiveIsUp(groups, healthy)
      /\ HolderOnly(groups, store, memberOf, registered)
      /\ FlaggedUp(store, memberOf, registered, healthy)
      /\ FlagsArePublished(W)
      /\ FlagsAreHealthy(store)
      /\ \A x \in registered : OnItsQueue(sched, x)
  BY DEF IInv
<1>3. priority' = pr /\ UNCHANGED <<registered, memberOf, healthy, twins>>
  BY DEF Reconfigure
<1> HIDE DEF n, pr
<1>4. CASE stuck' = stuck \cup {"zone"} /\ UNCHANGED <<groups, store, sched, spoofs>>
  <2>1. TypeOK'
    BY <1>1, <1>3, <1>4 DEF TypeOK
  <2>2. FlagsArePublished(W)'
    BY <1>2, <1>4 DEF FlagsArePublished, W
  <2> QED
    BY <1>2, <1>3, <1>4, <2>1, <2>2, HomeIfFit DEF IInv
<1>5. ASSUME groups[n].mu = "free", UNCHANGED stuck,
             NEW o \in Update(groups[n], healthy, pr),
             groups' = [groups EXCEPT ![n] = o.group],
             Writes(FinishUpdate(
               HandlePromotion(W, memberOf, registered, healthy, o.event),
               memberOf, s, priority[s], p))
      PROVE  IInv'
  <2> DEFINE v == HandlePromotion(W, memberOf, registered, healthy, o.event)
             u == FinishUpdate(v, memberOf, s, priority[s], p)
  <2>1. W \in WorldType /\ W.store = store /\ W.sched = sched
    BY <1>1, Types
  <2>2. /\ ReturnsTyped(groups[n], healthy, o)
        /\ Announced(groups[n], healthy, o)
        /\ o.event.new # nil => o.event.new \in groups[n].members
        /\ groups[n].members # {} => o.group.active \in healthy \cup {nil}
    BY <1>1, <1>5, UpdateOutcome
  <2>3. PromotionKeeps(W, v, registered, healthy, o.event.new)
    BY <1>1, <2>1, <2>2, PromotionEffect DEF ReturnsTyped
  <2>4. o.event.new # nil => memberOf[o.event.new] = n
    BY <1>1, <1>2, <2>2 DEF MembersFit
  <2>5. /\ HolderOnly(groups', v.store, memberOf, registered)
        /\ FlaggedUp(v.store, memberOf, registered, healthy)
    BY <1>1, <1>2, <1>5, <2>1, <2>2, <2>4, PromotionHolder
  <2> HIDE DEF v
  <2>6. Tidy(v, u, registered)
    BY <1>1, <2>3, FinishUpdateTidy DEF PromotionKeeps
  <2>7. /\ HolderOnly(groups', u.store, memberOf, registered)
        /\ FlaggedUp(u.store, memberOf, registered, healthy)
    BY <1>1, <2>5, <2>6, FewerFlags DEF Tidy
  <2> HIDE DEF u
  <2>8. store' = u.store /\ sched' = u.sched /\ spoofs' = u.spoofs
    BY <1>5 DEF Writes, u, v
  <2>9. TypeOK'
    BY <1>1, <1>3, <1>5, <2>2, <2>6, <2>8, WorldFields DEF TypeOK, Tidy, ReturnsTyped
  <2>10. FlagsArePublished(u) /\ FlagsAreHealthy(u.store)
    BY <1>2, <2>1, <2>2, <2>3, <2>6 DEF PromotionKeeps, Tidy, ReturnsTyped
  <2>11. FlagsArePublished(W)' /\ FlagsAreHealthy(store)'
    BY <2>8, <2>10 DEF FlagsArePublished, W
  <2>12. \A x \in registered' : OnItsQueue(sched, x)'
    <3>1. \A x \in registered : OnItsQueue(u.sched, x)
      BY <1>2, <2>1, <2>3, <2>6 DEF PromotionKeeps, Tidy, QueuesKept
    <3> QED
      BY <1>3, <2>8, <3>1 DEF OnItsQueue
  <2>13. MembersFit(groups, memberOf, registered)'
    BY <1>1, <1>2, <1>3, <1>5, <2>2 DEF MembersFit, ReturnsTyped
  <2>14. ActiveIsUp(groups, healthy)'
    <3>1. nil \notin groups[n].members
      BY <1>1, GroupOfName
    <3> QED
      BY <1>1, <1>2, <1>3, <1>5, <2>2, <3>1 DEF ActiveIsUp, ReturnsTyped
  <2> QED
    BY <1>3, <1>5, <2>7, <2>8, <2>9, <2>11, <2>12, <2>13, <2>14, HomeIfFit DEF IInv
<1> QED
  BY <1>4, <1>5, <1>1, Types DEF Reconfigure, n, pr

(* What a new process starts with. *)
LEMMA FreshTypes ==
  /\ \A s \in Services : AnyConfig(s)[1] \in Names /\ AnyConfig(s)[2] \in Priorities
  /\ NoMembers \in [Names -> Group]
  /\ \A k \in Names : NoMembers[k].members = {}
  /\ NoSchedule \in Schedule
<1>1. \A s \in Services : AnyConfig(s)[1] \in Names /\ AnyConfig(s)[2] \in Priorities
  <2>1. ASSUME NEW s \in Services PROVE AnyConfig(s) \in Names \X Priorities
    <3>1. Configs[s] # {} /\ Configs[s] \subseteq Names \X Priorities
      BY ManagerAssumption
    <3> QED
      BY <3>1 DEF AnyConfig
  <2> QED
    BY <2>1
<1>2. NoMembers \in [Names -> Group] /\ \A k \in Names : NoMembers[k].members = {}
  BY DEF NoMembers, NewEmptyServiceGroup, Group
<1>3. NoSchedule \in Schedule
  BY ManagerAssumption DEF NoSchedule, Schedule
<1> QED
  BY <1>1, <1>2, <1>3

(* A new process, on a repository whose flagged entries are healthy. *)
LEMMA RebornKeeps ==
  ASSUME NEW st \in [Names -> Entries], FlagsAreHealthy(st), Reborn(st), twins \in BOOLEAN
  PROVE  IInv'
<1>1. TypeOK'
  BY FreshTypes DEF Reborn, TypeOK, Rules
<1>2. FlagsArePublished(W)' /\ FlagsAreHealthy(store)'
  BY DEF Reborn, FlagsArePublished, W, Rules
<1>3. MembersFit(groups, memberOf, registered)' /\ ActiveIsUp(groups, healthy)'
  BY FreshTypes DEF Reborn, MembersFit, ActiveIsUp
<1>4. HolderOnly(groups, store, memberOf, registered)'
      /\ FlaggedUp(store, memberOf, registered, healthy)'
  BY DEF Reborn, HolderOnly, FlaggedUp
<1> QED
  BY <1>1, <1>2, <1>3, <1>4, HomeIfFit DEF IInv, Reborn

(* OnShutdown flags what GetActive returns, and that service is up. *)
LEMMA ShutdownKeeps ==
  ASSUME IInv, Shutdown
  PROVE  IInv'
<1>1. PICK pick \in [Names -> Services \cup {nil}] :
        /\ \A n \in Names : pick[n] \in GetActive(groups[n], healthy, priority)
        /\ Reborn(OnShutdown(pick))
  BY DEF Shutdown
<1>2. /\ store \in [Names -> Entries]
      /\ twins \in BOOLEAN
      /\ FlagsAreHealthy(store)
      /\ ActiveIsUp(groups, healthy)
      /\ \A n \in Names : groups[n].mu = "free"
  BY DEF IInv, TypeOK, Shutdown
<1> DEFINE st == OnShutdown(pick)
<1>3. st \in [Names -> Entries]
  <2>1. ASSUME NEW n \in Names PROVE st[n] \in Entries
    BY <1>2, EntryFields, NewEntry DEF OnShutdown
  <2> QED
    BY <2>1 DEF OnShutdown
<1>4. ASSUME NEW k \in Names, NEW x \in Services, x \in st[k].active
      PROVE  x \in st[k].healthy
  <2>1. CASE x \in groups[k].members
    <3>1. x \in GetActive(groups[k], healthy, priority)
      BY <1>1, <1>4, <2>1 DEF OnShutdown
    <3>2. x \in healthy
      BY <1>2, <2>1, <3>1 DEF GetActive, BestOf, ActiveIsUp
    <3> QED
      BY <1>4, <2>1, <3>2 DEF OnShutdown
  <2>2. CASE x \notin groups[k].members
    BY <1>2, <1>4, <2>2 DEF OnShutdown, FlagsAreHealthy
  <2> QED
    BY <2>1, <2>2
<1>5. FlagsAreHealthy(st)
  BY <1>4 DEF FlagsAreHealthy
<1> HIDE DEF st
<1> QED
  BY <1>1, <1>2, <1>3, <1>5, RebornKeeps DEF st

(* The health callback, also of a service that is no longer registered and  *)
(* while the zone handler or the manager waits.                             *)
LEMMA HealthChangeKeeps ==
  ASSUME IInv, "panic" \notin stuck, NEW s \in Services, HealthChange(s)
  PROVE  IInv'
<1> DEFINE n == memberOf[s]
           h == With(healthy, s, s \notin healthy)
           w == SetActive(W, memberOf, h, s, FALSE)
<1>1. /\ TypeOK
      /\ n \in Names
      /\ groups \in [Names -> Group]
      /\ memberOf \in [Services -> Names]
      /\ registered \in SUBSET Services
      /\ stuck \subseteq {"manager", "zone", "panic"}
  BY DEF IInv, TypeOK
<1>2. h \in SUBSET Services /\ \A x \in Services : x # s => (x \in h <=> x \in healthy)
  BY <1>1 DEF TypeOK, With
<1>3. healthy' = h /\ UNCHANGED <<registered, memberOf, priority, twins>>
  BY DEF HealthChange
<1>4. W \in WorldType /\ W.store = store /\ W.sched = sched
  BY <1>1, Types
<1> HIDE DEF h
<1>5. World(RepoUpdate(store, n, s, FALSE, s \in h), sched) = w
  <2> DEFINE r == RepoUpdate(store, memberOf[s], s, FALSE, s \in h)
  <2> HIDE DEF r
  <2>1. w = [W EXCEPT !.store = r]
    BY <1>4 DEF SetActive, r
  <2>2. World(r, sched) = [W EXCEPT !.store = r]
    BY DEF World, W
  <2> QED
    BY <2>1, <2>2 DEF r
<1>6. /\ w \in WorldType
      /\ w.sched = W.sched
      /\ w.spoofs = W.spoofs
      /\ \A k \in Names :
           /\ w.store[k].ids = W.store[k].ids
           /\ \A x \in Services :
                x \in w.store[k].active <=> x \in W.store[k].active /\ ~(x = s /\ k = n)
      /\ FlagsAreHealthy(W.store) => FlagsAreHealthy(w.store)
  BY <1>1, <1>2, <1>4, FlagCleared, Zenon
<1> HIDE DEF w
<1>7. FlagsArePublished(w) /\ FlagsAreHealthy(w.store)
  BY <1>4, <1>6 DEF IInv, FlagsArePublished
<1>8. "manager" \notin stuck =>
        /\ HolderOnly(groups, w.store, memberOf, registered)
        /\ FlaggedUp(w.store, memberOf, registered, h)
        /\ Home(groups, memberOf)
  <2>1. SUFFICES ASSUME "manager" \notin stuck PROVE <1>8!2
    OBVIOUS
  <2>2. /\ HolderOnly(groups, store, memberOf, registered)
        /\ FlaggedUp(store, memberOf, registered, healthy)
        /\ Home(groups, memberOf)
    BY <2>1 DEF IInv
  <2>3. HolderOnly(groups, w.store, memberOf, registered)
    BY <1>1, <1>4, <1>6, <2>2 DEF HolderOnly
  <2>4. FlaggedUp(w.store, memberOf, registered, h)
    BY <1>1, <1>2, <1>4, <1>6, <2>2 DEF FlaggedUp
  <2> QED
    BY <2>2, <2>3, <2>4
<1>9. stuck = {} =>
        /\ MembersFit(groups, memberOf, registered)
        /\ \A k \in Names : k # n /\ groups[k].mu = "free"
              /\ groups[k].active \in groups[k].members => groups[k].active \in h
  <2>1. SUFFICES ASSUME stuck = {},
                        NEW k \in Names, k # n, groups[k].mu = "free",
                        groups[k].active \in groups[k].members
                 PROVE  groups[k].active \in h
    BY DEF IInv
  <2>2. memberOf[groups[k].active] = k /\ groups[k].active \in healthy
    BY <1>1, <2>1 DEF IInv, MembersFit, ActiveIsUp
  <2> QED
    BY <1>1, <1>2, <2>1, <2>2, GroupOfName
(* What is left to show of a step that writes v and leaves the groups gs. *)
<1>10. ASSUME NEW v \in WorldType, store' = v.store, sched' = v.sched, spoofs' = v.spoofs,
             FlagsArePublished(v), FlagsAreHealthy(v.store),
             QueuesKept(w, v, registered),
             groups' \in [Names -> Group],
             stuck' \in {stuck, stuck \cup {"panic"}},
             \A k \in Names : groups'[k].members = groups[k].members,
             \A k \in Names : k # n => groups'[k] = groups[k],
             groups'[n].mu = "free" => groups[n].mu = "free",
             stuck' = {} /\ groups'[n].mu = "free" => groups'[n].active \in h \cup {nil},
             "manager" \notin stuck =>
               /\ HolderOnly(groups', v.store, memberOf, registered)
               /\ FlaggedUp(v.store, memberOf, registered, h)
      PROVE  IInv'
  <2>1. TypeOK'
    BY <1>1, <1>2, <1>3, <1>10, WorldFields DEF TypeOK
  <2>2. FlagsArePublished(W)' /\ FlagsAreHealthy(store)'
    BY <1>10 DEF FlagsArePublished, W
  <2>3. ASSUME "zone" \notin stuck' PROVE \A x \in registered' : OnItsQueue(sched, x)'
    <3>1. \A x \in registered : OnItsQueue(v.sched, x)
      BY <1>4, <1>6, <1>10, <2>3 DEF IInv, QueuesKept
    <3> QED
      BY <1>3, <1>10, <3>1 DEF OnItsQueue
  <2>4. ASSUME stuck' = {}
        PROVE  MembersFit(groups, memberOf, registered)' /\ ActiveIsUp(groups, healthy)'
    <3>1. stuck = {}
      BY <1>10, <2>4
    <3>2. MembersFit(groups, memberOf, registered)'
      BY <1>3, <1>9, <1>10, <3>1 DEF MembersFit
    <3>3. nil \notin groups'[n].members
      BY <1>1, <1>10, GroupOfName
    <3>4. ActiveIsUp(groups, healthy)'
      BY <1>3, <1>9, <1>10, <2>4, <3>1, <3>3 DEF ActiveIsUp
    <3> QED
      BY <3>2, <3>4
  <2>5. ASSUME "manager" \notin stuck'
        PROVE  /\ HolderOnly(groups, store, memberOf, registered)'
               /\ FlaggedUp(store, memberOf, registered, healthy)'
               /\ Home(groups, memberOf)'
    <3>1. "manager" \notin stuck
      BY <1>10, <2>5
    <3>2. Home(groups, memberOf)'
      <4>1. \A k \in Names : groups'[k].mu = "free" => groups[k].mu = "free"
        BY <1>10
      <4>2. \A k \in Names : \A x \in groups[k].members : x \in Services
        BY <1>1, GroupOfName
      <4> QED
        BY <1>1, <1>3, <1>8, <1>10, <3>1, <4>1, <4>2 DEF Home
    <3> QED
      BY <1>3, <1>8, <1>10, <3>1, <3>2
  <2> QED
    BY <2>1, <2>2, <2>3, <2>4, <2>5 DEF IInv
<1>11. QueuesKept(w, w, registered)
  BY DEF QueuesKept
<1>12. CASE stuck' = stuck \cup {"panic"} /\ Writes(w) /\ UNCHANGED groups
  BY <1>1, <1>6, <1>7, <1>8, <1>10, <1>11, <1>12 DEF Writes
<1>13. CASE groups[n].mu = "held" /\ Writes(w) /\ UNCHANGED <<groups, stuck>>
  BY <1>1, <1>6, <1>7, <1>8, <1>10, <1>11, <1>13 DEF Writes
<1>14. ASSUME groups[n].mu = "free",
              NEW o \in OnServiceHealthChange(groups[n], s, h, priority),
              stuck' = IF o.group.mu = "panic" THEN stuck \cup {"panic"} ELSE stuck,
              \/ /\ "manager" \in stuck
                 /\ groups' = [groups EXCEPT ![n] = Promoted(@, o)]
                 /\ Writes(w)
              \/ /\ "manager" \notin stuck
                 /\ groups' = [groups EXCEPT ![n] = o.group]
                 /\ Writes(HandlePromotion(w, memberOf, registered, h, o.event))
       PROVE  IInv'
  <2>1. /\ ReturnsTyped(groups[n], h, o)
        /\ Announced(groups[n], h, o)
        /\ o.event.new # nil => o.event.new \in groups[n].members \cup {s}
        /\ o.group.mu = "free" => o.group.active \in h \cup {nil}
    BY <1>1, <1>14, HealthOutcome
  <2>2. CASE /\ "manager" \in stuck
             /\ groups' = [groups EXCEPT ![n] = Promoted(@, o)]
             /\ Writes(w)
    <3>1. /\ Promoted(groups[n], o) \in Group
          /\ Promoted(groups[n], o).members = groups[n].members
      BY <1>1, <2>1 DEF Promoted, ReturnsTyped
    <3> QED
      BY <1>1, <1>6, <1>7, <1>10, <1>11, <1>14, <2>2, <3>1 DEF Writes
  <2>3. CASE /\ "manager" \notin stuck
             /\ groups' = [groups EXCEPT ![n] = o.group]
             /\ Writes(HandlePromotion(w, memberOf, registered, h, o.event))
    <3> DEFINE v == HandlePromotion(w, memberOf, registered, h, o.event)
    <3>1. PromotionKeeps(w, v, registered, h, o.event.new)
      BY <1>1, <1>2, <1>6, <2>1, PromotionEffect DEF ReturnsTyped
    <3>2. o.event.new # nil => \/ memberOf[o.event.new] = n
                               \/ o.event.new \notin groups[memberOf[o.event.new]].members
      BY <1>1, <1>8, <1>14, <2>1, <2>3 DEF Home
    <3>3. /\ HolderOnly(groups', v.store, memberOf, registered)
          /\ FlaggedUp(v.store, memberOf, registered, h)
      BY <1>1, <1>2, <1>6, <1>8, <2>1, <2>3, <3>2, PromotionHolder
    <3>4. store' = v.store /\ sched' = v.sched /\ spoofs' = v.spoofs
      BY <2>3 DEF Writes
    <3> HIDE DEF v
    <3>5. /\ v \in WorldType
          /\ FlagsArePublished(v)
          /\ FlagsAreHealthy(v.store)
          /\ QueuesKept(w, v, registered)
      BY <1>7, <2>1, <3>1 DEF PromotionKeeps, ReturnsTyped
    <3>6. /\ groups' \in [Names -> Group]
          /\ groups'[n] = o.group
          /\ \A k \in Names : k # n => groups'[k] = groups[k]
          /\ \A k \in Names : groups'[k].members = groups[k].members
      BY <1>1, <2>1, <2>3 DEF ReturnsTyped
    <3> QED
      BY <1>10, <1>14, <2>1, <3>3, <3>4, <3>5, <3>6
  <2> QED
    BY <1>14, <2>2, <2>3
<1> QED
  BY <1>5, <1>12, <1>13, <1>14 DEF HealthChange, n, h

(* updateService with another MemberOf: two promotions, of the group that   *)
(* is joined and of the one that is left.                                   *)
LEMMA ChangeGroupKeeps ==
  ASSUME IInv, stuck = {}, NEW s \in Services, NEW n \in Names, NEW p \in Priorities,
         ChangeGroup(s, n, p)
  PROVE  IInv'
<1> DEFINE old == memberOf[s]
           pr  == [priority EXCEPT ![s] = p]
           m   == [memberOf EXCEPT ![s] = n]
           st  == RepoCreate(RepoDelete(store, old, s), n, s, s \in healthy)
           w   == World(st, sched)
           g0  == [groups[n] EXCEPT !.members = @ \cup {s}]
           gs0 == [groups EXCEPT ![n] = g0]
<1>1. /\ TypeOK
      /\ old \in Names
      /\ groups \in [Names -> Group]
      /\ memberOf \in [Services -> Names]
      /\ store \in [Names -> Entries]
      /\ registered \in SUBSET Services
      /\ healthy \in SUBSET Services
      /\ s \in registered
      /\ n # old
      /\ pr \in [Services -> Priorities]
      /\ m \in [Services -> Names]
      /\ m[s] = n
      /\ \A x \in Services : x # s => m[x] = memberOf[x]
  BY DEF IInv, TypeOK, ChangeGroup
<1>2. /\ MembersFit(groups, memberOf, registered)
      /\ ActiveIsUp(groups, healthy)
      /\ HolderOnly(groups, store, memberOf, registered)
      /\ FlaggedUp(store, memberOf, registered, healthy)
      /\ FlagsArePublished(W)
      /\ FlagsAreHealthy(store)
      /\ \A x \in registered : OnItsQueue(sched, x)
  BY DEF IInv
<1>3. priority' = pr /\ memberOf' = m /\ UNCHANGED <<registered, healthy, twins>>
  BY DEF ChangeGroup
<1>4. s \in groups[old].members /\ s \notin groups[n].members
  BY <1>1, <1>2 DEF MembersFit
<1>5. /\ st \in [Names -> Entries]
      /\ \A k \in Names, x \in Services :
           /\ x \in st[k].active <=> x \in store[k].active /\ ~(x = s /\ k \in {old, n})
           /\ ~(x = s /\ k \in {old, n}) =>
                (x \in st[k].healthy <=> x \in store[k].healthy)
  <2> DEFINE d == RepoDelete(store, old, s)
             u == s \in healthy
  <2>1. /\ d \in [Names -> Entries]
        /\ \A k \in Names, x \in Services :
             /\ x \in d[k].active <=> x \in store[k].active /\ ~(x = s /\ k = old)
             /\ x \in d[k].healthy <=> x \in store[k].healthy /\ ~(x = s /\ k = old)
    BY <1>1, RepoDeleteEffect
  <2>2. u \in BOOLEAN
    OBVIOUS
  <2> HIDE DEF d, u
  <2>3. /\ RepoCreate(d, n, s, u) \in [Names -> Entries]
        /\ \A k \in Names, x \in Services :
             /\ x \in RepoCreate(d, n, s, u)[k].active <=>
                  x \in d[k].active /\ ~(x = s /\ k = n)
             /\ ~(x = s /\ k = n) =>
                  (x \in RepoCreate(d, n, s, u)[k].healthy <=> x \in d[k].healthy)
    BY <2>1, <2>2, RepoCreateEffect
  <2>4. st = RepoCreate(d, n, s, u)
    BY DEF d, u
  <2> HIDE DEF st
  <2> QED
    BY <2>1, <2>3, <2>4
<1> HIDE DEF old, pr, m, st
<1>6. /\ w \in WorldType
      /\ w.store = st /\ w.sched = sched /\ w.spoofs = spoofs
  BY <1>1, <1>5 DEF WorldType, World, TypeOK
<1> HIDE DEF w
<1>7. FlagsArePublished(w) /\ FlagsAreHealthy(w.store)
  BY <1>2, <1>5, <1>6 DEF FlagsArePublished, FlagsAreHealthy, W
<1>8. HolderOnly(groups, w.store, m, registered) /\ FlaggedUp(w.store, m, registered, healthy)
  BY <1>1, <1>2, <1>5, <1>6 DEF HolderOnly, FlaggedUp
<1>9. CASE groups[n].mu = "held" /\ stuck' = stuck \cup {"zone"} /\ Writes(w)
           /\ UNCHANGED groups
  <2>1. store' = w.store /\ sched' = w.sched /\ spoofs' = w.spoofs /\ stuck' = {"zone"}
    BY <1>9 DEF Writes
  <2>2. TypeOK'
    BY <1>1, <1>3, <1>5, <1>6, <1>9, <2>1 DEF TypeOK
  <2>3. FlagsArePublished(W)' /\ FlagsAreHealthy(store)'
    BY <1>7, <2>1 DEF FlagsArePublished, W
  <2>4. Home(groups, m)
    <3>1. \A k \in Names : \A x \in groups[k].members : x \in Services /\ memberOf[x] = k
      BY <1>1, <1>2 DEF MembersFit
    <3> QED
      BY <1>1, <1>4, <3>1 DEF Home
  <2>5. HolderOnly(groups, store, memberOf, registered)'
        /\ FlaggedUp(store, memberOf, registered, healthy)'
        /\ Home(groups, memberOf)'
    BY <1>3, <1>8, <1>9, <2>1, <2>4
  <2> QED
    BY <2>1, <2>2, <2>3, <2>5 DEF IInv
<1>10. ASSUME groups[n].mu = "free",
             NEW joined \in RegisterService(groups[n], s, healthy, pr)
      PROVE  LET w1 == HandlePromotion(w, m, registered, healthy, joined.event)
                 gs == [groups EXCEPT ![n] = joined.group]
             IN  /\ joined.group \in Group
                 /\ joined.group.members = groups[n].members \cup {s}
                 /\ joined.group.active \in healthy \cup {nil}
                 /\ w1 \in WorldType
                 /\ FlagsArePublished(w1)
                 /\ FlagsAreHealthy(w1.store)
                 /\ QueuesKept(w, w1, registered)
                 /\ HolderOnly(gs, w1.store, m, registered)
                 /\ FlaggedUp(w1.store, m, registered, healthy)
  <2> DEFINE w1 == HandlePromotion(w, m, registered, healthy, joined.event)
  <2>1. /\ g0 \in Group
        /\ g0.members = groups[n].members \cup {s}
        /\ g0.active = groups[n].active
    <3>1. groups[n] \in Group
      BY <1>1
    <3> QED
      BY <3>1 DEF Group
  <2>2. /\ gs0 \in [Names -> Group]
        /\ gs0[n] = g0
        /\ \A k \in Names : k # n => gs0[k] = groups[k]
        /\ [gs0 EXCEPT ![n] = joined.group] = [groups EXCEPT ![n] = joined.group]
    BY <1>1, <2>1
  <2>3. joined \in Update(g0, healthy, pr)
    BY <1>4, <1>10 DEF RegisterService
  <2> HIDE DEF g0, gs0
  <2>4. /\ ReturnsTyped(g0, healthy, joined)
        /\ Announced(g0, healthy, joined)
        /\ joined.event.new # nil => joined.event.new \in g0.members
        /\ joined.group.active \in healthy \cup {nil}
    BY <2>1, <2>3, UpdateOutcome
  <2>5. PromotionKeeps(w, w1, registered, healthy, joined.event.new)
    BY <1>1, <1>6, <2>4, PromotionEffect DEF ReturnsTyped
  <2>6. HolderOnly(gs0, w.store, m, registered)
    <3>1. s \notin w.store[m[s]].active
      BY <1>1, <1>5, <1>6
    <3> QED
      BY <1>1, <1>8, <2>1, <2>2, <3>1 DEF HolderOnly
  <2>7. joined.event.new # nil => m[joined.event.new] = n
    BY <1>1, <1>2, <2>1, <2>4 DEF MembersFit
  <2>8. /\ HolderOnly([gs0 EXCEPT ![n] = joined.group], w1.store, m, registered)
        /\ FlaggedUp(w1.store, m, registered, healthy)
    BY <1>1, <1>6, <1>8, <2>2, <2>4, <2>6, <2>7, PromotionHolder
  <2> HIDE DEF w1
  <2>9. /\ w1 \in WorldType
        /\ FlagsArePublished(w1)
        /\ FlagsAreHealthy(w1.store)
        /\ QueuesKept(w, w1, registered)
    BY <1>7, <2>4, <2>5 DEF PromotionKeeps, ReturnsTyped
  <2> QED
    BY <2>1, <2>2, <2>4, <2>8, <2>9 DEF ReturnsTyped, w1
<1>11. ASSUME groups[n].mu = "free",
              NEW joined \in RegisterService(groups[n], s, healthy, pr),
              groups[old].mu = "held",
              groups' = [groups EXCEPT ![n] = joined.group],
              stuck' = stuck \cup {"zone"},
              Writes(HandlePromotion(w, m, registered, healthy, joined.event))
       PROVE  IInv'
  <2> DEFINE w1 == HandlePromotion(w, m, registered, healthy, joined.event)
  <2>1. store' = w1.store /\ sched' = w1.sched /\ spoofs' = w1.spoofs /\ stuck' = {"zone"}
    BY <1>11 DEF Writes
  <2>2. /\ joined.group \in Group
        /\ joined.group.members = groups[n].members \cup {s}
        /\ w1 \in WorldType
        /\ FlagsArePublished(w1)
        /\ FlagsAreHealthy(w1.store)
        /\ HolderOnly(groups', w1.store, m, registered)
        /\ FlaggedUp(w1.store, m, registered, healthy)
    BY <1>10, <1>11
  <2> HIDE DEF w1
  <2>3. TypeOK'
    BY <1>1, <1>3, <1>11, <2>1, <2>2, WorldFields DEF TypeOK
  <2>4. FlagsArePublished(W)' /\ FlagsAreHealthy(store)'
    BY <2>1, <2>2 DEF FlagsArePublished, W
  <2>5. Home(groups', m)
    <3>1. \A k \in Names : \A x \in groups[k].members : x \in Services /\ memberOf[x] = k
      BY <1>1, <1>2 DEF MembersFit
    <3>2. /\ groups'[n].members = groups[n].members \cup {s}
          /\ groups'[old].mu = "held"
          /\ \A k \in Names : k # n => groups'[k] = groups[k]
      BY <1>1, <1>11, <2>2
    <3>3. ASSUME NEW k \in Names, groups'[k].mu = "free", NEW x \in groups'[k].members
          PROVE  m[x] = k
      <4>1. CASE k = n
        BY <1>1, <3>1, <3>2, <3>3, <4>1
      <4>2. CASE k # n
        <5>1. x \in groups[k].members /\ k # old
          BY <3>2, <3>3, <4>2
        <5>2. x \in Services /\ memberOf[x] = k
          BY <3>1, <5>1
        <5> QED
          BY <1>1, <5>1, <5>2 DEF old
      <4> QED
        BY <4>1, <4>2
    <3> QED
      BY <3>3 DEF Home
  <2> QED
    BY <1>3, <2>1, <2>2, <2>3, <2>4, <2>5 DEF IInv
<1>12. ASSUME groups[n].mu = "free",
              NEW joined \in RegisterService(groups[n], s, healthy, pr),
              groups[old].mu = "free",
              UNCHANGED stuck,
              NEW left \in RemoveService(groups[old], s, healthy, pr),
              groups' = [groups EXCEPT ![n] = joined.group,
                                       ![old] = DropIfEmpty(left.group)],
              Writes(FinishUpdate(
                HandlePromotion(
                  HandlePromotion(w, m, registered, healthy, joined.event),
                  m, registered, healthy, left.event),
                m, s, priority[s], p))
       PROVE  IInv'
  <2> DEFINE w1  == HandlePromotion(w, m, registered, healthy, joined.event)
             w2  == HandlePromotion(w1, m, registered, healthy, left.event)
             u   == FinishUpdate(w2, m, s, priority[s], p)
             g1  == [groups[old] EXCEPT !.members = @ \ {s}]
             gs1 == [groups EXCEPT ![n] = joined.group]
             gs2 == [gs1 EXCEPT ![old] = g1]
             gs3 == [gs2 EXCEPT ![old] = left.group]
  <2>1. /\ joined.group \in Group
        /\ joined.group.members = groups[n].members \cup {s}
        /\ joined.group.active \in healthy \cup {nil}
        /\ w1 \in WorldType
        /\ FlagsArePublished(w1)
        /\ FlagsAreHealthy(w1.store)
        /\ QueuesKept(w, w1, registered)
        /\ HolderOnly(gs1, w1.store, m, registered)
        /\ FlaggedUp(w1.store, m, registered, healthy)
    BY <1>10, <1>12
  <2>2. store' = u.store /\ sched' = u.sched /\ spoofs' = u.spoofs
    BY <1>12 DEF Writes
  <2> HIDE DEF w1
  <2>3. /\ g1 \in Group
        /\ g1.members = groups[old].members \ {s}
        /\ g1.active = groups[old].active
    <3>1. groups[old] \in Group
      BY <1>1
    <3> QED
      BY <3>1 DEF Group
  <2>4. /\ gs1 \in [Names -> Group]
        /\ gs1[n] = joined.group
        /\ \A k \in Names : k # n => gs1[k] = groups[k]
    BY <1>1, <2>1
  <2>5. left \in Update(g1, healthy, pr)
    BY <1>4, <1>12 DEF RemoveService
  <2> HIDE DEF g1, gs1
  <2>6. /\ ReturnsTyped(g1, healthy, left)
        /\ Announced(g1, healthy, left)
        /\ left.event.new # nil => left.event.new \in g1.members
        /\ g1.members # {} => left.group.active \in healthy \cup {nil}
    BY <2>3, <2>5, UpdateOutcome
  <2>7. /\ gs2 \in [Names -> Group]
        /\ gs2[old] = g1
        /\ \A k \in Names : k # old => gs2[k] = gs1[k]
    BY <1>1, <2>3, <2>4
  <2>8. /\ gs3 \in [Names -> Group]
        /\ gs3[old] = left.group
        /\ \A k \in Names : k # old => gs3[k] = gs1[k]
    BY <1>1, <2>6, <2>7 DEF ReturnsTyped
  <2> HIDE DEF gs2
  <2>9. HolderOnly(gs2, w1.store, m, registered)
    BY <1>1, <2>1, <2>3, <2>4, <2>7 DEF HolderOnly
  <2>10. left.event.new # nil => m[left.event.new] = old
    <3>1. groups[old].members = {x \in registered : memberOf[x] = old}
      BY <1>1, <1>2 DEF MembersFit
    <3>2. \A x \in g1.members : x \in Services /\ x # s /\ memberOf[x] = old
      BY <1>1, <2>3, <3>1
    <3> QED
      BY <1>1, <2>6, <3>2
  <2>11. PromotionKeeps(w1, w2, registered, healthy, left.event.new)
    BY <1>1, <2>1, <2>6, PromotionEffect DEF ReturnsTyped
  <2>12. /\ HolderOnly(gs3, w2.store, m, registered)
         /\ FlaggedUp(w2.store, m, registered, healthy)
    BY <1>1, <2>1, <2>6, <2>7, <2>9, <2>10, PromotionHolder
  <2> HIDE DEF w2, gs3
  <2>13. Tidy(w2, u, registered)
    BY <1>1, <2>11, FinishUpdateTidy DEF PromotionKeeps
  <2> HIDE DEF u
  <2>14. /\ HolderOnly(gs3, u.store, m, registered)
         /\ FlaggedUp(u.store, m, registered, healthy)
    BY <1>1, <2>12, <2>13, FewerFlags DEF Tidy
  <2>15. /\ DropIfEmpty(left.group) \in Group
         /\ DropIfEmpty(left.group).members = g1.members
         /\ g1.members # {} => DropIfEmpty(left.group) = left.group
    BY <2>6 DEF DropIfEmpty, NewEmptyServiceGroup, ReturnsTyped, Group
  <2>16. /\ groups'[n] = joined.group
         /\ groups'[old] = DropIfEmpty(left.group)
         /\ \A k \in Names \ {n, old} : groups'[k] = groups[k]
         /\ groups' \in [Names -> Group]
    BY <1>1, <1>12, <2>1, <2>15
  <2>17. TypeOK'
    BY <1>1, <1>3, <1>12, <2>2, <2>13, <2>16, WorldFields DEF TypeOK, Tidy
  <2>18. FlagsArePublished(u) /\ FlagsAreHealthy(u.store)
    BY <2>1, <2>6, <2>11, <2>13 DEF PromotionKeeps, Tidy, ReturnsTyped
  <2>19. FlagsArePublished(W)' /\ FlagsAreHealthy(store)'
    BY <2>2, <2>18 DEF FlagsArePublished, W
  <2>20. \A x \in registered' : OnItsQueue(sched, x)'
    <3>1. \A x \in registered : OnItsQueue(u.sched, x)
      BY <1>2, <1>6, <2>1, <2>11, <2>13 DEF PromotionKeeps, Tidy, QueuesKept
    <3> QED
      BY <1>3, <2>2, <3>1 DEF OnItsQueue
  <2>21. MembersFit(groups, memberOf, registered)'
    <3>1. \A x \in registered : m[x] = IF x = s THEN n ELSE memberOf[x]
      BY <1>1
    <3>2. groups'[n].members = {x \in registered : m[x] = n}
      BY <1>1, <1>2, <2>1, <2>16, <3>1 DEF MembersFit
    <3>3. groups'[old].members = {x \in registered : m[x] = old}
      BY <1>1, <1>2, <2>3, <2>15, <2>16, <3>1 DEF MembersFit
    <3>4. memberOf[s] = old
      BY DEF old
    <3>5. \A k \in Names \ {n, old} : groups'[k].members = {x \in registered : m[x] = k}
      BY <1>1, <1>2, <2>16, <3>1, <3>4 DEF MembersFit
    <3> QED
      BY <1>3, <3>2, <3>3, <3>5 DEF MembersFit
  <2>22. ActiveIsUp(groups, healthy)'
    <3>1. nil \notin groups'[n].members /\ nil \notin g1.members
      BY <1>1, <2>15, <2>16, GroupOfName
    <3> QED
      BY <1>1, <1>2, <1>3, <2>1, <2>6, <2>15, <2>16, <3>1 DEF ActiveIsUp
  <2>23. \A k \in Names : groups'[k].members # {} => groups'[k] = gs3[k]
    BY <1>1, <2>4, <2>8, <2>15, <2>16
  <2>24. HolderOnly(groups, store, memberOf, registered)'
         /\ FlaggedUp(store, memberOf, registered, healthy)'
    BY <1>1, <1>3, <2>2, <2>14, <2>23 DEF HolderOnly, FlaggedUp
  <2> QED
    BY <1>12, <2>17, <2>19, <2>20, <2>21, <2>22, <2>24, HomeIfFit DEF IInv
<1> QED
  BY <1>9, <1>11, <1>12 DEF ChangeGroup, old, pr, m, st, w

(* The same with a failing store. *)
LEMMA ChangeGroupFailsKeeps ==
  ASSUME IInv, stuck = {}, NEW s \in Services, NEW n \in Names, NEW p \in Priorities,
         ChangeGroupFails(s, n, p)
  PROVE  IInv'
<1> DEFINE old == memberOf[s]
           r == RepoDelete(store, old, s)
<1>1. TypeOK /\ stuck' = {"manager"} /\ store' \in {store, r}
  BY DEF IInv, ChangeGroupFails
<1>2. /\ r \in [Names -> Entries]
      /\ \A k \in Names, x \in Services :
           /\ x \in r[k].active <=> x \in store[k].active /\ ~(x = s /\ k = old)
           /\ x \in r[k].healthy <=> x \in store[k].healthy /\ ~(x = s /\ k = old)
  <2>1. store \in [Names -> Entries] /\ old \in Names
    BY <1>1 DEF TypeOK
  <2> HIDE DEF old
  <2> QED
    BY <2>1, RepoDeleteEffect
<1> HIDE DEF r, old
<1>3. TypeOK'
  BY <1>1, <1>2 DEF TypeOK, ChangeGroupFails
<1>4. FlagsArePublished(W)' /\ FlagsAreHealthy(store)'
  BY <1>1, <1>2 DEF IInv, ChangeGroupFails, FlagsArePublished, FlagsAreHealthy, W
<1>5. \A x \in registered' : OnItsQueue(sched, x)'
  BY DEF IInv, ChangeGroupFails, OnItsQueue
<1> QED
  BY <1>1, <1>3, <1>4, <1>5 DEF IInv

(* synchronizeServers. *)
LEMMA SynchronizeKeeps ==
  ASSUME IInv, Synchronize
  PROVE  IInv'
<1>1. TypeOK'
  BY DEF IInv, TypeOK, Synchronize, Rules
<1>2. FlagsArePublished(W)'
  BY DEF Synchronize, FlagsArePublished, W, Rules
<1> QED
  BY <1>1, <1>2 DEF IInv, Synchronize

-----------------------------------------------------------------------------
(* Every step keeps the inductive invariant. *)
LEMMA StepKeepsIInv == IInv /\ [Next]_vars => IInv'
<1> SUFFICES ASSUME IInv, [Next]_vars PROVE IInv'
  OBVIOUS
<1>1. CASE ZoneHandler
  <2>1. stuck = {}
    BY <1>1 DEF ZoneHandler
  <2>2. PICK s \in Services :
          \/ Remove(s)
          \/ \E n \in Names, p \in Priorities :
               \/ Register(s, n, p)
               \/ Reconfigure(s, p)
               \/ ChangeGroup(s, n, p)
               \/ ChangeGroupFails(s, n, p)
    BY <1>1 DEF ZoneHandler
  <2> QED
    BY <2>1, <2>2, RemoveKeeps, RegisterKeeps, ReconfigureKeeps, ChangeGroupKeeps,
       ChangeGroupFailsKeeps
<1>2. CASE "panic" \notin stuck /\ \E s \in Services : HealthChange(s)
  BY <1>2, HealthChangeKeeps
<1>3. CASE Synchronize
  BY <1>3, SynchronizeKeeps
<1>4. CASE Shutdown
  BY <1>4, ShutdownKeeps
<1>5. CASE Crash
  BY <1>5, RebornKeeps DEF Crash, IInv, TypeOK
<1>6. CASE UNCHANGED vars
  BY <1>6 DEF vars, IInv, TypeOK, W, FlagsArePublished, OnItsQueue
<1> QED
  BY <1>1, <1>2, <1>3, <1>4, <1>5, <1>6 DEF Next

(* The first process starts with nothing stored. *)
LEMMA InitIInv == Init => IInv
<1> SUFFICES ASSUME Init PROVE IInv
  OBVIOUS
<1>1. NoEntries \in Entries /\ NoEntries.active = {}
  BY DEF NoEntries, Entries
<1>2. TypeOK
  BY <1>1, FreshTypes DEF Init, TypeOK
<1>3. FlagsArePublished(W) /\ FlagsAreHealthy(store)
  BY <1>1 DEF Init, FlagsArePublished, FlagsAreHealthy, W
<1>4. MembersFit(groups, memberOf, registered) /\ ActiveIsUp(groups, healthy)
  BY FreshTypes DEF Init, MembersFit, ActiveIsUp
<1>5. HolderOnly(groups, store, memberOf, registered)
      /\ FlaggedUp(store, memberOf, registered, healthy)
  BY DEF Init, HolderOnly, FlaggedUp
<1> QED
  BY <1>2, <1>3, <1>4, <1>5, HomeIfFit DEF IInv, Init

(* IInv holds in every state. *)
THEOREM Inductive == Spec => []IInv
BY InitIInv, StepKeepsIInv, PTL DEF Spec

(* No entry is flagged as active and stored as down, whatever promotions,   *)
(* moves, removals, lost mutexes, shutdowns and crashes there were, until   *)
(* an ID is registered next to an object that is still in use: what         *)
(* synchronizeServers publishes was up when it was stored.                  *)
THEOREM FlaggedHealthy == Spec => []FlaggedIsHealthy
<1>1. IInv => FlaggedIsHealthy
  <2> SUFFICES ASSUME IInv PROVE FlaggedIsHealthy
    OBVIOUS
  <2>1. TypeOK /\ store \in [Names -> Entries] /\ FlagsAreHealthy(store)
    BY DEF IInv, TypeOK
  <2>2. \A n \in Names : store[n].active \subseteq store[n].healthy \cap store[n].ids
    BY <2>1, EntryFields DEF FlagsAreHealthy
  <2> QED
    BY <2>1, <2>2 DEF FlaggedIsHealthy
<1> QED
  BY <1>1, Inductive, PTL

(* Only the member that holds the active role of its group is flagged (the  *)
(* exceptions of FlaggedIsActive apart): handlePromotion always takes the   *)
(* flag of the previous holder away, even when the event names a service    *)
(* that has left.                                                           *)
THEOREM FlaggedActive == Spec => []FlaggedIsActive
<1>1. IInv => FlaggedIsActive
  BY DEF IInv, FlaggedIsActive, HolderOnly
<1> QED
  BY <1>1, Inductive, PTL

(* A flagged entry has its rule on the dnsdist servers: no branch of        *)
(* handlePromotion and no early return withdraws the rule and leaves the    *)
(* flag.                                                                    *)
THEOREM FlaggedPublished == Spec => []FlaggedIsPublished
<1>1. IInv => FlaggedIsPublished
  BY DEF IInv, FlaggedIsPublished, FlagsArePublished, W, Rules
<1> QED
  BY <1>1, Inductive, PTL

(* A registered service is on the queue of its interval, so that its checks *)
(* do not stop (the exceptions of RegisteredIsChecked apart).               *)
THEOREM RegisteredChecked == Spec => []RegisteredIsChecked
<1>1. IInv => RegisteredIsChecked
  BY DEF IInv, RegisteredIsChecked, OnItsQueue
<1> QED
  BY <1>1, Inductive, PTL

=============================================================================
