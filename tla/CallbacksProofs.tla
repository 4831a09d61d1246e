-------------------------- MODULE CallbacksProofs --------------------------
(***************************************************************************)
(* Proofs about Callbacks for any number of members with any priorities.   *)
(* As long as promotions are handled in the order in which they were       *)
(* decided on, the rule and the flag follow the active role: in            *)
(* ActivePassive the promotions still to come form a chain from the        *)
(* published service to the active one, in ActiveActive there is one at a  *)
(* time.  A nil active is met only by a call that did not run alone.       *)
(***************************************************************************)
EXTENDS Callbacks, SequenceTheorems, TLAPS

-----------------------------------------------------------------------------
(* The inductive invariant. *)

(* The callers that change the group. *)
Changers == Services \cup {zone}

AllPcs == {"idle", "store", "enter", "next", "build", "promote", "assign", "take", "read"}

(* Where a caller may be: only ActiveActive builds its event and assigns    *)
(* the active service without the mutex.                                    *)
Pcs(c) ==
  IF c = zone THEN {"idle", "take", "promote"}
  ELSE IF c = api THEN {"idle", "read"}
  ELSE IF Mode = "ActivePassive" THEN {"idle", "store", "enter", "next", "promote"}
  ELSE {"idle", "store", "enter", "next", "build", "promote", "assign"}

CallsOK ==
  /\ call \in [Callers -> [pc : AllPcs, event : Event]]
  /\ \A c \in Callers : call[c].pc \in Pcs(c)

(* Between the decision for a promotion and its handling. *)
Decisive == IF Mode = "ActiveActive" THEN {"next", "build", "promote"} ELSE {"promote"}

Waiting == {c \in Changers : call[c].pc \in Decisive}

(* The sequence q lists the members of W, each once. *)
Lists(q, W) ==
  /\ \A i \in 1 .. Len(q) : q[i] \in W
  /\ \A i, j \in 1 .. Len(q) : q[i] = q[j] => i = j
  /\ \A c \in W : \E i \in 1 .. Len(q) : q[i] = c

(* The events of q lead from the service published to the one active. *)
Leads(q, cl, pub, act) ==
  /\ q = <<>> => pub \subseteq {act}
  /\ q # <<>> =>
       /\ pub \subseteq {cl[q[1]].event.old}
       /\ \A i, j \in 1 .. Len(q) :
            j = i + 1 => \/ cl[q[i]].event.new = nil
                         \/ cl[q[i]].event.new = cl[q[j]].event.old
       /\ cl[q[Len(q)]].event.new = act

(* order lists those who wait for their promotion. *)
InQueue == Lists(order, Waiting)

(* ActivePassive: the promotions still to be handled form a chain. *)
Chain == Leads(order, call, published, active)

(* ActiveActive: there is one promotion at a time, and the rule follows it. *)
OneAtATime ==
  /\ \A c, d \in InFlight : c = d
  /\ InFlight = {} => published \subseteq {active}
  /\ \A s \in Services :
       /\ call[s].pc \in {"next", "build", "promote"} => published \subseteq {active}
       /\ call[s].pc = "promote" => call[s].event.old = active
       /\ call[s].pc = "assign" => published \subseteq {call[s].event.new}
  /\ call[zone].pc = "promote" => /\ published \subseteq {call[zone].event.old}
                                  /\ call[zone].event.new = active

Entering(s) == call[s].pc \in {"store", "enter"}

(* An active service that is down has a callback under way. *)
ActiveIsUp ==
  active \in Services \ healthy =>
     \/ mu = lost
     \/ Entering(active)
     \/ call[active].pc = "next"
     \/ Mode = "ActiveActive" /\ call[active].pc # "idle"

(* ActiveActive has chosen a service and not yet made it active. *)
Chosen(s) == Mode = "ActiveActive" /\ call[s].pc \in {"build", "promote", "assign"}

(* So has a service that has been chosen. *)
ChosenIsUp ==
  \A s \in Services :
    Chosen(s) /\ call[s].event.new \in Services \ healthy =>
      \/ mu = lost
      \/ call[s].event.new # s /\ Entering(call[s].event.new)

(* A group without an active service, or about to be without one, has no    *)
(* healthy members but those that have still to take the role.              *)
NobodyIsUp ==
  mu # lost =>
    /\ active = nil =>
         \A x \in healthy : Entering(x) \/ (Chosen(x) /\ call[x].event.new = x)
    /\ \A s \in Services :
         Chosen(s) /\ call[s].event.new = nil => \A x \in healthy : Entering(x)

(* A call that has met no other is alone ... *)
Alone ==
  \A c \in Changers :
    Busy(c) /\ c \notin overlapped => \A d \in Changers : Busy(d) => d = c

(* ... and a member that fails alone finds an active service. *)
FailsAlone ==
  \A s \in Services :
    Entering(s) /\ s \notin healthy /\ active = nil /\ mu # lost => s \in overlapped

Ordered ==
  /\ InQueue
  /\ Mode = "ActiveActive" => OneAtATime
  /\ Mode = "ActivePassive" => Chain
  /\ ActiveIsUp
  /\ ChosenIsUp
  /\ NobodyIsUp
  /\ Alone
  /\ FailsAlone
  /\ panic \subseteq overlapped

IInv ==
  /\ TypeOK
  /\ CallsOK
  /\ flags \subseteq published
  /\ overtaken = "no" => Ordered

-----------------------------------------------------------------------------
(* The callers and their calls. *)

(* The identities are different ones. *)
LEMMA Distinct ==
  /\ nil \notin Services
  /\ zone \notin Services /\ api \notin Services /\ lost \notin Services /\ free \notin Services
  /\ zone # api /\ zone # free /\ zone # lost /\ free # lost /\ free # api
  /\ Changers \subseteq Callers
  /\ Services \subseteq Changers
  /\ zone \in Changers
  /\ api \in Callers /\ api \notin Changers
BY GroupAssumption, CallbacksAssumption DEF Changers, Callers

(* The mode is one of two, and priorities do not change. *)
LEMMA ModeFacts ==
  /\ Mode = "ActiveActive" \/ Mode = "ActivePassive"
  /\ ~(Mode = "ActiveActive" /\ Mode = "ActivePassive")
  /\ priority' = priority => Mode' = Mode
BY DEF Mode, AllSamePriority

(* A step of caller c to p, with event e. *)
Moves(c, p, e) ==
  /\ call' \in [Callers -> [pc : AllPcs, event : Event]]
  /\ call'[c].pc = p
  /\ call'[c].event = e
  /\ \A d \in Callers \ {c} : call'[d] = call[d]

(* A step that keeps the event. *)
LEMMA GoesMoves ==
  ASSUME CallsOK, NEW c \in Callers, NEW p \in AllPcs, Goes(c, p)
  PROVE  Moves(c, p, call[c].event)
BY DEF CallsOK, Goes, Moves

(* A step that makes the event. *)
LEMMA GoesWithMoves ==
  ASSUME CallsOK, NEW c \in Callers, NEW p \in AllPcs,
         NEW new \in Services \cup {nil}, NEW old \in Services \cup {nil},
         GoesWith(c, p, new, old)
  PROVE  Moves(c, p, [new |-> new, old |-> old])
BY DEF CallsOK, GoesWith, Moves, Event

(* The end of a call. *)
LEMMA EndsMoves ==
  ASSUME CallsOK, NEW c \in Callers, Ends(c)
  PROVE  Moves(c, "idle", NoEvent)
BY DEF CallsOK, Ends, Idle, NoEvent, Moves, Event, AllPcs

(* A step to where the caller may be keeps the types of the calls. *)
LEMMA MovesTyped ==
  ASSUME CallsOK, NEW c \in Callers, NEW p \in Pcs(c), NEW e, Moves(c, p, e),
         priority' = priority
  PROVE  CallsOK'
<1>1. Mode' = Mode
  BY ModeFacts
<1>2. \A d \in Callers : Pcs(d)' = Pcs(d)
  BY <1>1 DEF Pcs
<1>3. \A d \in Callers : call'[d].pc \in Pcs(d)
  BY DEF Moves, CallsOK
<1> QED
  BY <1>2, <1>3 DEF Moves, CallsOK

(* Where the callers are. *)
LEMMA CallFacts ==
  ASSUME CallsOK
  PROVE  /\ \A c \in Callers : /\ call[c].event \in Event
                               /\ call[c].event.new \in Services \cup {nil}
                               /\ call[c].event.old \in Services \cup {nil}
         /\ \A s \in Services : call[s].pc \in AllPcs \ {"take", "read"}
         /\ Mode = "ActivePassive" => \A s \in Services : call[s].pc \notin {"build", "assign"}
         /\ call[zone].pc \in {"idle", "take", "promote"}
<1>1. \A c \in Callers : call[c].event \in Event /\ call[c].pc \in Pcs(c)
  BY DEF CallsOK
<1> QED
  BY <1>1, Distinct DEF Event, Pcs, AllPcs

(* The service that is found is healthy, and nobody is if there is none. *)
LEMMA FirstHealthyFacts ==
  ASSUME NEW s \in FirstHealthy(TheGroup, healthy, priority), healthy \subseteq Services
  PROVE  /\ s \in healthy \cup {nil}
         /\ s = nil => healthy = {}
BY Distinct DEF FirstHealthy, BestOf, TheGroup

-----------------------------------------------------------------------------
(* The order of the promotions. *)

(* Append, position by position. *)
LEMMA AppendFacts ==
  ASSUME NEW S, NEW q \in Seq(S), NEW c \in S, NEW r, r = Append(q, c)
  PROVE  /\ r \in Seq(S)
         /\ r # <<>>
         /\ Len(q) \in Nat
         /\ Len(r) = Len(q) + 1
         /\ r[Len(q) + 1] = c
         /\ \A i \in 1 .. Len(q) : r[i] = q[i]
OBVIOUS

(* The same for Tail. *)
LEMMA TailFacts ==
  ASSUME NEW S, NEW q \in Seq(S), q # <<>>, NEW r, r = Tail(q)
  PROVE  /\ r \in Seq(S)
         /\ Len(q) \in Nat \ {0}
         /\ Len(r) = Len(q) - 1
         /\ Head(q) = q[1]
         /\ \A i \in 1 .. Len(q) - 1 : r[i] = q[i + 1]
OBVIOUS

(* The empty list is the one without a length. *)
LEMMA EmptyFacts ==
  ASSUME NEW S, NEW q \in Seq(S)
  PROVE  q = <<>> <=> Len(q) = 0
OBVIOUS

(* c joins the list. *)
LEMMA ListJoin ==
  ASSUME NEW S, NEW q \in Seq(S), NEW W, Lists(q, W), NEW c \in S, c \notin W,
         NEW r, r = Append(q, c)
  PROVE  Lists(r, W \cup {c})
<1> DEFINE n == Len(q)
           V == W \cup {c}
<1>1. /\ n \in Nat
      /\ Len(r) = n + 1
      /\ r[n + 1] = c
      /\ \A i \in 1 .. n : r[i] = q[i]
  BY AppendFacts
<1>2. /\ \A i \in 1 .. n : q[i] \in W
      /\ \A i, j \in 1 .. n : q[i] = q[j] => i = j
      /\ \A d \in W : \E i \in 1 .. n : q[i] = d
  BY DEF Lists
<1> HIDE DEF n
<1>3. \A i \in 1 .. n + 1 : i \in 1 .. n \/ i = n + 1
  BY <1>1
<1>4. \A i \in 1 .. n : i \in 1 .. n + 1
  BY <1>1
<1>5. n + 1 \in 1 .. n + 1
  BY <1>1
<1>6. \A i \in 1 .. n + 1 : r[i] \in V
  BY <1>1, <1>2, <1>3
<1>7. \A i, j \in 1 .. n + 1 : r[i] = r[j] => i = j
  BY <1>1, <1>2, <1>3
<1>8. \A d \in V : \E i \in 1 .. n + 1 : r[i] = d
  BY <1>1, <1>2, <1>4, <1>5
<1> QED
  BY <1>1, <1>6, <1>7, <1>8 DEF Lists

(* The first leaves it. *)
LEMMA ListLeave ==
  ASSUME NEW S, NEW q \in Seq(S), q # <<>>, NEW W, Lists(q, W), NEW r, r = Tail(q)
  PROVE  Lists(r, W \ {Head(q)})
<1> DEFINE n == Len(q)
           V == W \ {Head(q)}
<1>1. /\ n \in Nat \ {0}
      /\ Len(r) = n - 1
      /\ Head(q) = q[1]
      /\ \A i \in 1 .. n - 1 : r[i] = q[i + 1]
  BY TailFacts
<1>2. /\ \A i \in 1 .. n : q[i] \in W
      /\ \A i, j \in 1 .. n : q[i] = q[j] => i = j
      /\ \A d \in W : \E i \in 1 .. n : q[i] = d
  BY DEF Lists
<1> HIDE DEF n
<1>3. \A i \in 1 .. n - 1 : i + 1 \in 1 .. n /\ i + 1 # 1
  BY <1>1
<1>4. 1 \in 1 .. n
  BY <1>1
<1>5. \A i \in 1 .. n - 1 : r[i] \in V
  BY <1>1, <1>2, <1>3, <1>4
<1>6. ASSUME NEW i \in 1 .. n - 1, NEW j \in 1 .. n - 1, r[i] = r[j]
      PROVE  i = j
  <2>1. q[i + 1] = q[j + 1]
    BY <1>1, <1>6
  <2>2. i + 1 = j + 1
    BY <1>2, <1>3, <2>1
  <2> QED
    BY <2>2
<1>7. ASSUME NEW d \in V
      PROVE  \E i \in 1 .. n - 1 : r[i] = d
  <2>1. PICK k \in 1 .. n : q[k] = d
    BY <1>2
  <2>2. k # 1
    BY <1>1, <2>1
  <2>3. k - 1 \in 1 .. n - 1 /\ (k - 1) + 1 = k
    BY <1>1, <2>2
  <2> QED
    BY <1>1, <2>1, <2>3
<1> QED
  BY <1>1, <1>5, <1>6, <1>7 DEF Lists

(* The chain looks only at the events of those who wait. *)
LEMMA LeadSame ==
  ASSUME NEW S, NEW q \in Seq(S), NEW W, Lists(q, W), NEW cl, NEW dl, NEW pub, NEW act,
         Leads(q, cl, pub, act), \A c \in W : dl[c].event = cl[c].event
  PROVE  Leads(q, dl, pub, act)
<1>1. \A i \in 1 .. Len(q) : dl[q[i]].event = cl[q[i]].event
  BY DEF Lists
<1>2. q # <<>> => 1 \in 1 .. Len(q) /\ Len(q) \in 1 .. Len(q)
  OBVIOUS
<1> QED
  BY <1>1, <1>2 DEF Leads

(* The service that was active hands over to the one that is. *)
LEMMA LeadJoin ==
  ASSUME NEW S, NEW q \in Seq(S), NEW W, Lists(q, W), NEW cl, NEW dl,
         NEW pub \in SUBSET Services, NEW act, NEW next, Leads(q, cl, pub, act),
         NEW c \in S, NEW r, r = Append(q, c),
         dl[c].event.new = next,
         act = nil \/ dl[c].event.old = act,
         \A d \in W : dl[d].event = cl[d].event
  PROVE  Leads(r, dl, pub, next)
<1> DEFINE n == Len(q)
<1>1. /\ n \in Nat
      /\ r # <<>>
      /\ Len(r) = n + 1
      /\ r[n + 1] = c
      /\ \A i \in 1 .. n : r[i] = q[i]
      /\ n = 0 => q = <<>>
      /\ n # 0 => q # <<>>
  BY AppendFacts
<1>2. \A i \in 1 .. n : dl[r[i]].event = cl[q[i]].event
  BY <1>1 DEF Lists
<1>3. /\ n = 0 => pub \subseteq {act}
      /\ n # 0 => /\ pub \subseteq {cl[q[1]].event.old}
                  /\ cl[q[n]].event.new = act
                  /\ \A i, j \in 1 .. n :
                       j = i + 1 => \/ cl[q[i]].event.new = nil
                                    \/ cl[q[i]].event.new = cl[q[j]].event.old
  BY <1>1 DEF Leads
<1> HIDE DEF n
<1>4. pub \subseteq {dl[r[1]].event.old}
  <2>1. CASE n = 0
    <3>1. r[1] = c
      BY <1>1, <2>1
    <3> QED
      BY <1>3, <2>1, <3>1, Distinct
  <2>2. CASE n # 0
    <3>1. 1 \in 1 .. n
      BY <1>1, <2>2
    <3> QED
      BY <1>2, <1>3, <2>2, <3>1
  <2> QED
    BY <2>1, <2>2
<1>5. ASSUME NEW i \in 1 .. n + 1, NEW j \in 1 .. n + 1, j = i + 1
      PROVE  dl[r[i]].event.new = nil \/ dl[r[i]].event.new = dl[r[j]].event.old
  <2>1. CASE j \in 1 .. n
    <3>1. i \in 1 .. n /\ n # 0
      BY <1>1, <1>5, <2>1
    <3> QED
      BY <1>2, <1>3, <1>5, <2>1, <3>1
  <2>2. CASE j = n + 1
    <3>1. i = n /\ i \in 1 .. n /\ n # 0
      BY <1>1, <1>5, <2>2
    <3>2. dl[r[i]].event.new = act
      BY <1>2, <1>3, <3>1
    <3>3. r[j] = c
      BY <1>1, <2>2
    <3> QED
      BY <3>2, <3>3
  <2> QED
    BY <1>1, <2>1, <2>2
<1> QED
  BY <1>1, <1>4, <1>5 DEF Leads

(* The first promotion is handled: the rule moves one link on. *)
LEMMA LeadLeave ==
  ASSUME NEW S, NEW q \in Seq(S), q # <<>>, NEW W, Lists(q, W), NEW cl, NEW dl,
         NEW pub \in SUBSET Services, NEW act, Leads(q, cl, pub, act),
         NEW r, r = Tail(q), \A d \in W : d # Head(q) => dl[d].event = cl[d].event
  PROVE  Leads(r, dl, Handled(pub, cl[Head(q)].event), act)
<1> DEFINE n == Len(q)
           new == Handled(pub, cl[Head(q)].event)
<1>1. /\ n \in Nat \ {0}
      /\ r \in Seq(S)
      /\ Len(r) = n - 1
      /\ Head(q) = q[1]
      /\ \A i \in 1 .. n - 1 : r[i] = q[i + 1]
  BY TailFacts
<1>2. /\ pub \subseteq {cl[q[1]].event.old}
      /\ cl[q[n]].event.new = act
      /\ \A i, j \in 1 .. n :
           j = i + 1 => \/ cl[q[i]].event.new = nil
                        \/ cl[q[i]].event.new = cl[q[j]].event.old
  BY DEF Leads
<1>3. new \subseteq {cl[q[1]].event.new} /\ nil \notin new
  BY <1>1, <1>2, Distinct DEF Handled
<1>4. /\ \A i \in 1 .. n : q[i] \in W
      /\ \A i, j \in 1 .. n : q[i] = q[j] => i = j
  BY DEF Lists
<1> HIDE DEF n, new
<1>5. ASSUME NEW i \in 1 .. n - 1 PROVE dl[r[i]].event = cl[q[i + 1]].event
  <2>1. i + 1 \in 1 .. n /\ 1 \in 1 .. n /\ i + 1 # 1
    BY <1>1
  <2>2. q[i + 1] \in W /\ q[i + 1] # Head(q)
    BY <1>1, <1>4, <2>1
  <2> QED
    BY <1>1, <2>2
<1>6. CASE n = 1
  <2>1. r = <<>>
    BY <1>1, <1>6
  <2> QED
    BY <1>2, <1>3, <1>6, <2>1 DEF Leads, new
<1>7. CASE n > 1
  <2>1. 1 \in 1 .. n /\ 2 \in 1 .. n /\ 1 \in 1 .. n - 1 /\ n - 1 \in 1 .. n - 1
    BY <1>1, <1>7
  <2>2. dl[r[1]].event = cl[q[2]].event /\ dl[r[n - 1]].event = cl[q[n]].event
    <3>1. 1 + 1 = 2 /\ (n - 1) + 1 = n
      BY <1>1
    <3>2. dl[r[1]].event = cl[q[1 + 1]].event
      BY <1>5, <2>1
    <3>3. dl[r[n - 1]].event = cl[q[(n - 1) + 1]].event
      BY <1>5, <2>1
    <3> QED
      BY <3>1, <3>2, <3>3
  <2>3. cl[q[1]].event.new = nil \/ cl[q[1]].event.new = cl[q[2]].event.old
    BY <1>2, <2>1
  <2>4. new \subseteq {dl[r[1]].event.old}
    BY <1>3, <2>2, <2>3
  <2>5. ASSUME NEW i \in 1 .. n - 1, NEW j \in 1 .. n - 1, j = i + 1
        PROVE  dl[r[i]].event.new = nil \/ dl[r[i]].event.new = dl[r[j]].event.old
    <3>1. i + 1 \in 1 .. n /\ j + 1 \in 1 .. n /\ j + 1 = (i + 1) + 1
      BY <1>1, <2>5
    <3>2. dl[r[i]].event = cl[q[i + 1]].event /\ dl[r[j]].event = cl[q[j + 1]].event
      BY <1>5
    <3> QED
      BY <1>2, <3>1, <3>2
  <2>6. dl[r[n - 1]].event.new = act
    BY <1>2, <2>2
  <2>7. r # <<>>
    <3>1. Len(r) # 0
      BY <1>1, <1>7
    <3> QED
      BY <1>1, <3>1, EmptyFacts, Zenon
  <2> QED
    BY <1>1, <2>4, <2>5, <2>6, <2>7 DEF Leads, new
<1> QED
  BY <1>1, <1>6, <1>7

-----------------------------------------------------------------------------
(* What a step does to the sets of callers. *)

Flying == {"next", "build", "promote", "assign"}

(* One caller moves, and with it who waits, is in flight and is busy. *)
LEMMA MovesEffect ==
  ASSUME NEW c \in Callers, NEW p, NEW e, Moves(c, p, e), priority' = priority
  PROVE  /\ Mode' = Mode
         /\ Decisive' = Decisive
         /\ c \in Changers /\ p \in Decisive => Waiting' = Waiting \cup {c}
         /\ c \notin Changers \/ p \notin Decisive => Waiting' = Waiting \ {c}
         /\ c \in Changers /\ p \in Flying => InFlight' = InFlight \cup {c}
         /\ c \notin Changers \/ p \notin Flying => InFlight' = InFlight \ {c}
         /\ Busy(c)' <=> p # "idle"
         /\ \A d \in Callers \ {c} : /\ call'[d] = call[d]
                                     /\ Busy(d)' <=> Busy(d)
                                     /\ Entering(d)' <=> Entering(d)
                                     /\ Chosen(d)' <=> Chosen(d)
<1>1. Mode' = Mode
  BY ModeFacts
<1>2. Decisive' = Decisive
  BY <1>1 DEF Decisive
<1>3. call'[c].pc = p /\ \A d \in Callers \ {c} : call'[d] = call[d]
  BY DEF Moves
<1>4. Waiting' = {d \in Changers : call'[d].pc \in Decisive}
  BY <1>2 DEF Waiting
<1>5. /\ c \in Changers /\ p \in Decisive => Waiting' = Waiting \cup {c}
      /\ c \notin Changers \/ p \notin Decisive => Waiting' = Waiting \ {c}
  BY <1>3, <1>4, Distinct DEF Waiting
<1>6. /\ c \in Changers /\ p \in Flying => InFlight' = InFlight \cup {c}
      /\ c \notin Changers \/ p \notin Flying => InFlight' = InFlight \ {c}
  BY <1>3, Distinct DEF InFlight, Flying, Changers
<1> QED
  BY <1>1, <1>2, <1>3, <1>5, <1>6 DEF Busy, Entering, Chosen

(* The call meets another one, or is alone. *)
LEMMA BeginsEffect ==
  ASSUME overtaken = "no", NEW c \in Changers, Begins(c)
  PROVE  \/ /\ \A d \in Changers : Busy(d) => d = c
            /\ overlapped' = overlapped \ {c}
         \/ /\ \A d \in Changers : Busy(d) => d \in overlapped'
            /\ c \in overlapped'
            /\ overlapped \subseteq overlapped'
<1> DEFINE others == {d \in (Services \cup {zone}) \ {c} : Busy(d)}
<1>1. /\ others = {} => overlapped' = overlapped \ {c}
      /\ others # {} => overlapped' = overlapped \cup others \cup {c}
  BY DEF Begins
<1>2. \A d \in Changers : Busy(d) => d = c \/ d \in others
  BY DEF Changers
<1> HIDE DEF others
<1> QED
  BY <1>1, <1>2

(* The chain stays if nobody who waits moves. *)
LEMMA ChainKept ==
  ASSUME TypeOK, InQueue, Chain, UNCHANGED <<order, published, active>>,
         \A c \in Waiting : call'[c].event = call[c].event
  PROVE  Chain'
<1>1. order \in Seq(Changers)
  BY DEF TypeOK, Changers
<1>2. Leads(order, call', published, active)
  BY <1>1, LeadSame DEF InQueue, Chain
<1> QED
  BY <1>2 DEF Chain

(* c joins the queue. *)
LEMMA QueueJoined ==
  ASSUME TypeOK, InQueue, NEW c \in Changers, c \notin Waiting,
         order' = Append(order, c), Waiting' = Waiting \cup {c}
  PROVE  InQueue'
<1>1. order \in Seq(Changers)
  BY DEF TypeOK, Changers
<1>2. Lists(order', Waiting \cup {c})
  BY <1>1, ListJoin DEF InQueue
<1> QED
  BY <1>2 DEF InQueue

(* A promotion is decided on in order, or nothing more is claimed. *)
LEMMA DecidedEffect ==
  ASSUME TypeOK, NEW c \in Changers, Decided(c)
  PROVE  /\ order' \in Seq(Services \cup {zone})
         /\ overtaken' \in {"yes", "no"}
         /\ overlapped' \subseteq Services \cup {zone}
         /\ overtaken' = "no" =>
              /\ overtaken = "no"
              /\ order' = Append(order, c)
              /\ overlapped' = overlapped
              /\ Mode = "ActiveActive" => InFlight \ {c} = {}
<1>1. CASE overtaken = "yes" \/ (Mode = "ActiveActive" /\ InFlight \ {c} # {})
  <2>1. order' = <<>> /\ overtaken' = "yes" /\ overlapped' = {}
    BY <1>1 DEF Decided, OutOfOrder
  <2> QED
    BY <2>1
<1>2. CASE ~(overtaken = "yes" \/ (Mode = "ActiveActive" /\ InFlight \ {c} # {}))
  <2>1. order' = Append(order, c) /\ overtaken' = overtaken /\ overlapped' = overlapped
    BY <1>2 DEF Decided
  <2>2. order' \in Seq(Services \cup {zone})
    BY <2>1, AppendFacts DEF TypeOK, Changers
  <2> QED
    BY <1>2, <2>1, <2>2 DEF TypeOK
<1> QED
  BY <1>1, <1>2

-----------------------------------------------------------------------------
(* One lemma per action. *)

(* A member's health changes: a failure that meets no other call finds an   *)
(* active service.                                                          *)
LEMMA HealthChangesKeeps ==
  ASSUME IInv, NEW s \in Services, HealthChanges(s)
  PROVE  IInv'
<1>0. /\ TypeOK /\ CallsOK /\ s \in Callers /\ s \in Changers
      /\ call[s].pc = "idle" /\ panic = {} /\ healthy \subseteq Services
  BY Distinct DEF IInv, TypeOK, HealthChanges, At
<1>1. /\ healthy' = IF s \in healthy THEN healthy \ {s} ELSE healthy \cup {s}
      /\ Begins(s)
      /\ UNCHANGED <<priority, active, lastActive, mu, sm, flags, published, panic, order,
                     overtaken>>
  BY DEF HealthChanges
<1>2. Moves(s, "store", call[s].event)
  BY <1>0, GoesMoves DEF HealthChanges, AllPcs
<1>3. CallsOK'
  BY <1>0, <1>1, <1>2, MovesTyped, Distinct DEF Pcs
<1>4. TypeOK'
  <2>1. healthy' \subseteq Services
    BY <1>0, <1>1 DEF TypeOK
  <2>2. overlapped' \subseteq Services \cup {zone}
    BY <1>0, <1>1 DEF TypeOK, Begins
  <2> QED
    BY <1>0, <1>1, <1>3, <2>1, <2>2 DEF TypeOK, CallsOK, AllPcs
<1>5. ASSUME overtaken = "no"
      PROVE  Ordered'
  <2>0. Ordered
    BY <1>5 DEF IInv
  <2>1. /\ Mode' = Mode
        /\ Waiting' = Waiting
        /\ InFlight' = InFlight
        /\ s \notin Waiting
        /\ s \notin InFlight
        /\ \A d \in Callers \ {s} : /\ call'[d] = call[d]
                                    /\ Busy(d)' <=> Busy(d)
                                    /\ Entering(d)' <=> Entering(d)
                                    /\ Chosen(d)' <=> Chosen(d)
    BY <1>0, <1>1, <1>2, MovesEffect DEF Waiting, InFlight, Decisive, Flying
  <2>2. Busy(s)' /\ ~Busy(s) /\ Entering(s)' /\ ~Entering(s) /\ ~Chosen(s) /\ ~Chosen(s)'
    BY <1>0, <1>2 DEF Moves, Busy, Entering, Chosen
  <2>3. InQueue'
    BY <1>1, <2>0, <2>1 DEF Ordered, InQueue
  <2>4. ASSUME Mode = "ActivePassive" PROVE Chain'
    <3>1. \A c \in Waiting : call'[c].event = call[c].event
      BY <2>1, Distinct DEF Waiting
    <3> QED
      BY <1>0, <1>1, <2>0, <2>4, <3>1, ChainKept DEF Ordered
  <2>5. ASSUME Mode = "ActiveActive" PROVE OneAtATime'
    BY <1>0, <1>1, <1>2, <2>0, <2>1, <2>5, Distinct DEF Ordered, OneAtATime, Moves
  <2>6. ActiveIsUp'
    BY <1>0, <1>1, <1>2, <2>0, <2>1, <2>2, Distinct DEF Ordered, ActiveIsUp
  <2>7. ChosenIsUp'
    BY <1>0, <1>1, <1>2, <2>0, <2>1, <2>2, Distinct DEF Ordered, ChosenIsUp
  <2>8. NobodyIsUp'
    BY <1>0, <1>1, <1>2, <2>0, <2>1, <2>2, Distinct DEF Ordered, NobodyIsUp
  <2>9. Alone'
    BY <1>0, <1>1, <1>5, <2>0, <2>1, <2>2, BeginsEffect, Distinct DEF Ordered, Alone
  <2>10. FailsAlone'
    BY <1>0, <1>1, <1>5, <2>0, <2>1, <2>2, BeginsEffect, Distinct
       DEF Ordered, FailsAlone, NobodyIsUp
  <2>11. (panic \subseteq overlapped)'
    BY <1>0, <1>1
  <2> QED
    BY <2>1, <2>3, <2>4, <2>5, <2>6, <2>7, <2>8, <2>9, <2>10, <2>11 DEF Ordered
<1> QED
  BY <1>1, <1>3, <1>4, <1>5 DEF IInv

(* The health is stored: nothing that is published depends on it. *)
LEMMA StoreHealthKeeps ==
  ASSUME IInv, NEW s \in Services, StoreHealth(s)
  PROVE  IInv'
<1>0. /\ TypeOK /\ CallsOK /\ s \in Callers /\ s \in Changers
      /\ call[s].pc = "store" /\ healthy \subseteq Services
  BY Distinct DEF IInv, TypeOK, StoreHealth, At
<1>1. /\ flags' = flags \ {s}
      /\ UNCHANGED <<priority, healthy, active, lastActive, mu, sm, published, panic, order,
                     overtaken, overlapped>>
  BY DEF StoreHealth, observed
<1>2. Moves(s, "enter", call[s].event)
  BY <1>0, GoesMoves DEF StoreHealth, AllPcs
<1>3. CallsOK'
  BY <1>0, <1>1, <1>2, MovesTyped, Distinct DEF Pcs
<1>4. TypeOK'
  BY <1>0, <1>1, <1>3 DEF TypeOK, CallsOK, AllPcs
<1>5. ASSUME overtaken = "no"
      PROVE  Ordered'
  <2>0. Ordered
    BY <1>5 DEF IInv
  <2>1. /\ Mode' = Mode
        /\ Waiting' = Waiting
        /\ InFlight' = InFlight
        /\ s \notin Waiting
        /\ s \notin InFlight
        /\ \A d \in Callers \ {s} : /\ call'[d] = call[d]
                                    /\ Busy(d)' <=> Busy(d)
                                    /\ Entering(d)' <=> Entering(d)
                                    /\ Chosen(d)' <=> Chosen(d)
    BY <1>0, <1>1, <1>2, MovesEffect DEF Waiting, InFlight, Decisive, Flying
  <2>2. Busy(s)' /\ Busy(s) /\ Entering(s)' /\ Entering(s) /\ ~Chosen(s) /\ ~Chosen(s)'
    BY <1>0, <1>2 DEF Moves, Busy, Entering, Chosen
  <2>3. InQueue'
    BY <1>1, <2>0, <2>1 DEF Ordered, InQueue
  <2>4. ASSUME Mode = "ActivePassive" PROVE Chain'
    <3>1. \A c \in Waiting : call'[c].event = call[c].event
      BY <2>1, Distinct DEF Waiting
    <3> QED
      BY <1>0, <1>1, <2>0, <2>4, <3>1, ChainKept DEF Ordered
  <2>5. ASSUME Mode = "ActiveActive" PROVE OneAtATime'
    BY <1>0, <1>1, <1>2, <2>0, <2>1, <2>5, Distinct DEF Ordered, OneAtATime, Moves
  <2>6. ActiveIsUp'
    BY <1>0, <1>1, <2>0, <2>1, <2>2, Distinct DEF Ordered, ActiveIsUp
  <2>7. ChosenIsUp'
    BY <1>0, <1>1, <2>0, <2>1, <2>2, Distinct DEF Ordered, ChosenIsUp
  <2>8. NobodyIsUp'
    BY <1>0, <1>1, <2>0, <2>1, <2>2, Distinct DEF Ordered, NobodyIsUp
  <2>9. Alone'
    BY <1>0, <1>1, <2>0, <2>1, <2>2, Distinct DEF Ordered, Alone
  <2>10. FailsAlone'
    BY <1>0, <1>1, <2>0, <2>1, <2>2, Distinct DEF Ordered, FailsAlone
  <2>11. (panic \subseteq overlapped)'
    BY <1>1, <2>0 DEF Ordered
  <2> QED
    BY <2>1, <2>3, <2>4, <2>5, <2>6, <2>7, <2>8, <2>9, <2>10, <2>11 DEF Ordered
<1> QED
  BY <1>1, <1>3, <1>4, <1>5 DEF IInv

(* A callback that keeps the mutex lets nobody else decide. *)
LEMMA LeaksKeeps ==
  ASSUME IInv, NEW s \in Services, At(s, "enter"), Leaks(s)
  PROVE  IInv'
<1>0. /\ TypeOK /\ CallsOK /\ s \in Callers /\ s \in Changers
      /\ call[s].pc = "enter"
  BY Distinct DEF IInv, At
<1>1. /\ mu' = lost
      /\ UNCHANGED <<priority, healthy, active, lastActive, sm, flags, published, panic, order,
                     overtaken, overlapped>>
  BY DEF Leaks, observed
<1>2. Moves(s, "idle", NoEvent)
  BY <1>0, EndsMoves DEF Leaks
<1>3. CallsOK'
  BY <1>0, <1>1, <1>2, MovesTyped, Distinct DEF Pcs
<1>4. TypeOK'
  BY <1>0, <1>1, <1>3 DEF TypeOK, CallsOK, AllPcs
<1>5. ASSUME overtaken = "no"
      PROVE  Ordered'
  <2>0. Ordered
    BY <1>5 DEF IInv
  <2>1. /\ Mode' = Mode
        /\ Waiting' = Waiting
        /\ InFlight' = InFlight
        /\ s \notin Waiting
        /\ s \notin InFlight
        /\ \A d \in Callers \ {s} : /\ call'[d] = call[d]
                                    /\ Busy(d)' <=> Busy(d)
                                    /\ Entering(d)' <=> Entering(d)
                                    /\ Chosen(d)' <=> Chosen(d)
    BY <1>0, <1>1, <1>2, MovesEffect DEF Waiting, InFlight, Decisive, Flying
  <2>2. ~Busy(s)' /\ ~Entering(s)' /\ ~Chosen(s)'
    BY <1>0, <1>2 DEF Moves, Busy, Entering, Chosen
  <2>3. InQueue'
    BY <1>1, <2>0, <2>1 DEF Ordered, InQueue
  <2>4. ASSUME Mode = "ActivePassive" PROVE Chain'
    <3>1. \A c \in Waiting : call'[c].event = call[c].event
      BY <2>1, Distinct DEF Waiting
    <3> QED
      BY <1>0, <1>1, <2>0, <2>4, <3>1, ChainKept DEF Ordered
  <2>5. ASSUME Mode = "ActiveActive" PROVE OneAtATime'
    BY <1>0, <1>1, <1>2, <2>0, <2>1, <2>5, Distinct DEF Ordered, OneAtATime, Moves
  <2>6. ActiveIsUp' /\ ChosenIsUp' /\ NobodyIsUp' /\ FailsAlone'
    BY <1>1 DEF ActiveIsUp, ChosenIsUp, NobodyIsUp, FailsAlone
  <2>7. Alone'
    BY <1>0, <1>1, <2>0, <2>1, <2>2, Distinct DEF Ordered, Alone
  <2>8. (panic \subseteq overlapped)'
    BY <1>1, <2>0 DEF Ordered
  <2> QED
    BY <2>1, <2>3, <2>4, <2>5, <2>6, <2>7, <2>8 DEF Ordered
<1> QED
  BY <1>1, <1>3, <1>4, <1>5 DEF IInv

(* A member that fails without an active service has met another call. *)
LEMMA PanicKeeps ==
  ASSUME IInv, NEW s \in Services, At(s, "enter"), mu = free, s \notin healthy, active = nil,
         panic' = {s},
         UNCHANGED <<priority, healthy, active, lastActive, mu, sm, flags, published, call,
                     order, overtaken, overlapped>>
  PROVE  IInv'
<1>1. TypeOK'
  BY DEF IInv, TypeOK
<1>2. Mode' = Mode
  BY ModeFacts
<1>3. CallsOK'
  BY <1>2 DEF IInv, CallsOK, Pcs
<1>4. ASSUME overtaken = "no"
      PROVE  Ordered'
  <2>0. Ordered
    BY <1>4 DEF IInv
  <2>1. s \in overlapped
    BY <2>0, Distinct DEF Ordered, FailsAlone, Entering, At
  <2>2. Waiting' = Waiting /\ InFlight' = InFlight
    BY <1>2 DEF Waiting, Decisive, InFlight
  <2>3. InQueue' /\ (Chain <=> Chain')
    BY <2>0, <2>2 DEF Ordered, InQueue, Chain
  <2>4. OneAtATime <=> OneAtATime'
    BY <2>2 DEF OneAtATime
  <2>5. ActiveIsUp' /\ ChosenIsUp' /\ NobodyIsUp'
    BY <1>2, <2>0 DEF Ordered, ActiveIsUp, ChosenIsUp, NobodyIsUp, Entering, Chosen
  <2>6. Alone' /\ FailsAlone'
    BY <2>0 DEF Ordered, Alone, FailsAlone, Busy, Entering
  <2> QED
    BY <1>2, <2>0, <2>1, <2>3, <2>4, <2>5, <2>6 DEF Ordered
<1> QED
  BY <1>1, <1>3, <1>4 DEF IInv

(* The active service has failed and looks for its successor: it counts as  *)
(* a decision only in ActiveActive, which must not have made another.       *)
LEMMA DownNextKeeps ==
  ASSUME IInv, NEW s \in Services, At(s, "enter"), s \notin healthy, active = s,
         {lastActive'} \subseteq Services \cup {nil}, Goes(s, "next"),
         IF Mode = "ActiveActive" THEN Decided(s) ELSE UNCHANGED observed,
         UNCHANGED <<priority, healthy, active, mu, sm, flags, published, panic>>
  PROVE  IInv'
<1>0. /\ TypeOK /\ CallsOK /\ s \in Callers /\ s \in Changers
      /\ call[s].pc = "enter" /\ panic = {} /\ active # nil
  BY Distinct DEF IInv, At
<1>1. /\ order' \in Seq(Services \cup {zone})
      /\ overtaken' \in {"yes", "no"}
      /\ overlapped' \subseteq Services \cup {zone}
      /\ overtaken' = "no" =>
           /\ overtaken = "no"
           /\ overlapped' = overlapped
           /\ Mode = "ActiveActive" => order' = Append(order, s) /\ InFlight \ {s} = {}
           /\ Mode = "ActivePassive" => order' = order
  <2>1. CASE Mode = "ActiveActive"
    BY <1>0, <2>1, DecidedEffect
  <2>2. CASE Mode = "ActivePassive"
    BY <1>0, <2>2 DEF observed, TypeOK
  <2> QED
    BY <2>1, <2>2, ModeFacts
<1>2. Moves(s, "next", call[s].event)
  BY <1>0, GoesMoves DEF AllPcs
<1>3. CallsOK'
  BY <1>0, <1>2, MovesTyped, Distinct DEF Pcs
<1>4. TypeOK'
  BY <1>0, <1>1, <1>3 DEF TypeOK, CallsOK, AllPcs
<1>5. ASSUME overtaken' = "no"
      PROVE  Ordered'
  <2>0. Ordered
    BY <1>1, <1>5 DEF IInv
  <2>1. /\ Mode' = Mode
        /\ Mode = "ActiveActive" => Waiting' = Waiting \cup {s}
        /\ Mode = "ActivePassive" => Waiting' = Waiting
        /\ InFlight' = InFlight \cup {s}
        /\ s \notin Waiting
        /\ s \notin InFlight
        /\ \A d \in Callers \ {s} : /\ call'[d] = call[d]
                                    /\ Busy(d)' <=> Busy(d)
                                    /\ Entering(d)' <=> Entering(d)
                                    /\ Chosen(d)' <=> Chosen(d)
    BY <1>0, <1>2, MovesEffect DEF Waiting, InFlight, Decisive, Flying
  <2>2. Busy(s)' /\ Busy(s) /\ ~Entering(s)' /\ ~Chosen(s)'
    BY <1>0, <1>2 DEF Moves, Busy, Entering, Chosen
  <2>3. \A x \in Services : ~Chosen(x)'
    BY <1>1, <1>5, <2>1, <2>2, Distinct DEF Chosen, InFlight
  <2>4. InQueue'
    <3>1. CASE Mode = "ActiveActive"
      BY <1>0, <1>1, <1>5, <2>0, <2>1, <3>1, QueueJoined DEF Ordered
    <3>2. CASE Mode = "ActivePassive"
      BY <1>1, <1>5, <2>0, <2>1, <3>2 DEF Ordered, InQueue
    <3> QED
      BY <3>1, <3>2, ModeFacts
  <2>5. ASSUME Mode = "ActivePassive" PROVE Chain'
    <3>1. \A c \in Waiting : call'[c].event = call[c].event
      BY <2>1, Distinct DEF Waiting
    <3> QED
      BY <1>0, <1>1, <1>5, <2>0, <2>5, <3>1, ChainKept DEF Ordered
  <2>6. ASSUME Mode = "ActiveActive" PROVE OneAtATime'
    <3>1. InFlight = {} /\ InFlight' = {s}
      BY <1>1, <1>5, <2>1, <2>6
    <3>2. published \subseteq {active}
      BY <2>0, <2>6, <3>1 DEF Ordered, OneAtATime
    <3>3. \A d \in Changers \ {s} : call'[d].pc \notin {"next", "build", "promote", "assign"}
      BY <3>1 DEF InFlight, Changers
    <3> QED
      BY <1>2, <3>1, <3>2, <3>3, Distinct DEF OneAtATime, Moves, Changers
  <2>7. ActiveIsUp'
    BY <1>2 DEF ActiveIsUp, Moves
  <2>8. ChosenIsUp' /\ NobodyIsUp' /\ FailsAlone'
    BY <1>0, <2>3 DEF ChosenIsUp, NobodyIsUp, FailsAlone
  <2>9. Alone'
    BY <1>0, <1>1, <1>5, <2>0, <2>1, <2>2, Distinct DEF Ordered, Alone
  <2>10. (panic \subseteq overlapped)'
    BY <1>0
  <2> QED
    BY <2>1, <2>4, <2>5, <2>6, <2>7, <2>8, <2>9, <2>10 DEF Ordered
<1> QED
  BY <1>3, <1>4, <1>5 DEF IInv

(* A member that has recovered becomes active before its promotion is       *)
(* handled: the chain grows by one link.                                    *)
LEMMA UpInPassiveKeeps ==
  ASSUME IInv, NEW s \in Services, At(s, "enter"), s \in healthy, Mode = "ActivePassive",
         lastActive' = active, active' = s,
         GoesWith(s, "promote", s, OldActive(TheGroup)), Decided(s),
         UNCHANGED <<priority, healthy, mu, sm, flags, published, panic>>
  PROVE  IInv'
<1> DEFINE old == OldActive(TheGroup)
<1>0. /\ TypeOK /\ CallsOK /\ s \in Callers /\ s \in Changers
      /\ call[s].pc = "enter" /\ panic = {} /\ s # nil
      /\ active \in Services \cup {nil} /\ published \in SUBSET Services
      /\ old \in Services \cup {nil}
      /\ active = nil \/ old = active
  BY Distinct DEF IInv, At, TypeOK, OldActive, TheGroup
<1> HIDE DEF old
<1>1. /\ order' \in Seq(Services \cup {zone})
      /\ overtaken' \in {"yes", "no"}
      /\ overlapped' \subseteq Services \cup {zone}
      /\ overtaken' = "no" => /\ overtaken = "no"
                              /\ overlapped' = overlapped
                              /\ order' = Append(order, s)
  BY <1>0, DecidedEffect
<1>2. Moves(s, "promote", [new |-> s, old |-> old])
  BY <1>0, GoesWithMoves DEF AllPcs, old
<1>3. CallsOK'
  BY <1>0, <1>2, MovesTyped, Distinct DEF Pcs
<1>4. TypeOK'
  BY <1>0, <1>1, <1>3 DEF TypeOK, CallsOK, AllPcs
<1>5. ASSUME overtaken' = "no"
      PROVE  Ordered'
  <2>0. Ordered
    BY <1>1, <1>5 DEF IInv
  <2>1. /\ Mode' = Mode
        /\ Waiting' = Waiting \cup {s}
        /\ s \notin Waiting
        /\ \A d \in Callers \ {s} : /\ call'[d] = call[d]
                                    /\ Busy(d)' <=> Busy(d)
                                    /\ Entering(d)' <=> Entering(d)
                                    /\ Chosen(d)' <=> Chosen(d)
    BY <1>0, <1>2, MovesEffect DEF Waiting, InFlight, Decisive, Flying
  <2>2. Busy(s)' /\ Busy(s)
    BY <1>0, <1>2 DEF Moves, Busy
  <2>3. \A x \in Services : ~Chosen(x)'
    BY <2>1, ModeFacts DEF Chosen
  <2>4. InQueue'
    BY <1>0, <1>1, <1>5, <2>0, <2>1, QueueJoined DEF Ordered
  <2>5. Chain'
    <3>1. order \in Seq(Changers) /\ Lists(order, Waiting) /\ Leads(order, call, published, active)
      BY <1>0, <2>0 DEF Ordered, InQueue, Chain, TypeOK, Changers
    <3>2. \A d \in Waiting : call'[d].event = call[d].event
      BY <2>1, Distinct DEF Waiting
    <3>3. call'[s].event.new = s /\ (active = nil \/ call'[s].event.old = active)
      BY <1>0, <1>2 DEF Moves
    <3>4. Leads(order', call', published, s)
      BY <1>0, <1>1, <1>5, <3>1, <3>2, <3>3, LeadJoin
    <3> QED
      BY <3>4 DEF Chain
  <2>6. ActiveIsUp' /\ ChosenIsUp' /\ NobodyIsUp' /\ FailsAlone'
    BY <1>0, <2>3 DEF ActiveIsUp, ChosenIsUp, NobodyIsUp, FailsAlone
  <2>7. Alone'
    BY <1>0, <1>1, <1>5, <2>0, <2>1, <2>2, Distinct DEF Ordered, Alone
  <2> QED
    BY <1>0, <2>1, <2>4, <2>5, <2>6, <2>7, ModeFacts DEF Ordered
<1> QED
  BY <1>3, <1>4, <1>5 DEF IInv

(* In ActiveActive it decides while no other promotion is under way. *)
LEMMA UpInActiveKeeps ==
  ASSUME IInv, NEW s \in Services, At(s, "enter"), s \in healthy, Mode = "ActiveActive",
         GoesWith(s, "build", s, nil), Decided(s), UNCHANGED state
  PROVE  IInv'
<1>0. /\ TypeOK /\ CallsOK /\ s \in Callers /\ s \in Changers
      /\ call[s].pc = "enter" /\ panic = {} /\ s # nil
      /\ UNCHANGED <<priority, healthy, active, lastActive, mu, sm, flags, published, panic>>
  BY Distinct DEF IInv, At, state
<1>1. /\ order' \in Seq(Services \cup {zone})
      /\ overtaken' \in {"yes", "no"}
      /\ overlapped' \subseteq Services \cup {zone}
      /\ overtaken' = "no" => /\ overtaken = "no"
                              /\ overlapped' = overlapped
                              /\ order' = Append(order, s)
                              /\ InFlight \ {s} = {}
  BY <1>0, DecidedEffect
<1>2. Moves(s, "build", [new |-> s, old |-> nil])
  BY <1>0, GoesWithMoves DEF AllPcs
<1>3. CallsOK'
  BY <1>0, <1>2, MovesTyped, Distinct, ModeFacts DEF Pcs
<1>4. TypeOK'
  BY <1>0, <1>1, <1>3 DEF TypeOK, CallsOK, AllPcs
<1>5. ASSUME overtaken' = "no"
      PROVE  Ordered'
  <2>0. Ordered
    BY <1>1, <1>5 DEF IInv
  <2>1. /\ Mode' = Mode
        /\ Waiting' = Waiting \cup {s}
        /\ InFlight' = InFlight \cup {s}
        /\ s \notin Waiting
        /\ s \notin InFlight
        /\ \A d \in Callers \ {s} : /\ call'[d] = call[d]
                                    /\ Busy(d)' <=> Busy(d)
                                    /\ Entering(d)' <=> Entering(d)
                                    /\ Chosen(d)' <=> Chosen(d)
    BY <1>0, <1>2, MovesEffect DEF Waiting, InFlight, Decisive, Flying
  <2>2. Busy(s)' /\ Busy(s) /\ ~Entering(s)' /\ Chosen(s)' /\ call'[s].event.new = s
    BY <1>0, <1>2, <2>1 DEF Moves, Busy, Entering, Chosen
  <2>3. InFlight = {} /\ InFlight' = {s}
    BY <1>1, <1>5, <2>1
  <2>4. \A x \in Services \ {s} : ~Chosen(x)'
    BY <2>1, <2>3 DEF Chosen, InFlight
  <2>5. InQueue'
    BY <1>0, <1>1, <1>5, <2>0, <2>1, QueueJoined DEF Ordered
  <2>6. OneAtATime'
    <3>1. published \subseteq {active}
      BY <2>0, <2>3 DEF Ordered, OneAtATime
    <3>2. \A d \in Changers \ {s} : call'[d].pc \notin {"next", "build", "promote", "assign"}
      BY <2>3 DEF InFlight, Changers
    <3> QED
      BY <1>0, <1>2, <2>3, <3>1, <3>2, Distinct DEF OneAtATime, Moves, Changers
  <2>7. ActiveIsUp'
    BY <1>0, <2>0, <2>1, Distinct DEF Ordered, ActiveIsUp
  <2>8. ChosenIsUp'
    BY <1>0, <2>2, <2>4 DEF ChosenIsUp
  <2>9. NobodyIsUp'
    BY <1>0, <2>0, <2>1, <2>2, <2>4, Distinct DEF Ordered, NobodyIsUp, TypeOK
  <2>10. FailsAlone'
    BY <1>0, <1>1, <1>5, <2>0, <2>1, <2>2, Distinct DEF Ordered, FailsAlone
  <2>11. Alone'
    BY <1>0, <1>1, <1>5, <2>0, <2>1, <2>2, Distinct DEF Ordered, Alone
  <2> QED
    BY <1>0, <2>1, <2>5, <2>6, <2>7, <2>8, <2>9, <2>10, <2>11, ModeFacts DEF Ordered
<1> QED
  BY <1>0, <1>3, <1>4, <1>5 DEF IInv

(* The successor of a service that failed, in ActivePassive: whoever fails   *)
(* without an active service was not alone.                                 *)
LEMMA FindsNextPassiveKeeps ==
  ASSUME IInv, NEW s \in Services, At(s, "next"), Mode = "ActivePassive",
         NEW best \in FirstHealthy(TheGroup, healthy, priority), active' = best,
         GoesWith(s, "promote", best, active), Decided(s),
         UNCHANGED <<priority, healthy, lastActive, mu, sm, flags, published, panic>>
  PROVE  IInv'
<1>0. /\ TypeOK /\ CallsOK /\ s \in Callers /\ s \in Changers
      /\ call[s].pc = "next" /\ panic = {} /\ healthy \subseteq Services
      /\ active \in Services \cup {nil} /\ published \in SUBSET Services
  BY Distinct DEF IInv, At, TypeOK
<1>a. best \in healthy \cup {nil} /\ (best = nil => healthy = {}) /\ best \in Services \cup {nil}
  BY <1>0, FirstHealthyFacts
<1>1. /\ order' \in Seq(Services \cup {zone})
      /\ overtaken' \in {"yes", "no"}
      /\ overlapped' \subseteq Services \cup {zone}
      /\ overtaken' = "no" => /\ overtaken = "no"
                              /\ overlapped' = overlapped
                              /\ order' = Append(order, s)
  BY <1>0, DecidedEffect
<1>2. Moves(s, "promote", [new |-> best, old |-> active])
  BY <1>0, <1>a, GoesWithMoves DEF AllPcs
<1>3. CallsOK'
  BY <1>0, <1>2, MovesTyped, Distinct DEF Pcs
<1>4. TypeOK'
  BY <1>0, <1>a, <1>1, <1>3 DEF TypeOK, CallsOK, AllPcs
<1>5. ASSUME overtaken' = "no"
      PROVE  Ordered'
  <2>0. Ordered
    BY <1>1, <1>5 DEF IInv
  <2>1. /\ Mode' = Mode
        /\ Waiting' = Waiting \cup {s}
        /\ s \notin Waiting
        /\ \A d \in Callers \ {s} : /\ call'[d] = call[d]
                                    /\ Busy(d)' <=> Busy(d)
                                    /\ Entering(d)' <=> Entering(d)
                                    /\ Chosen(d)' <=> Chosen(d)
    BY <1>0, <1>2, ModeFacts, MovesEffect DEF Waiting, InFlight, Decisive, Flying
  <2>2. Busy(s)' /\ Busy(s) /\ ~Entering(s)'
    BY <1>0, <1>2 DEF Moves, Busy, Entering
  <2>3. \A x \in Services : ~Chosen(x)'
    BY <2>1, ModeFacts DEF Chosen
  <2>4. InQueue'
    BY <1>0, <1>1, <1>5, <2>0, <2>1, QueueJoined DEF Ordered
  <2>5. Chain'
    <3>1. order \in Seq(Changers) /\ Lists(order, Waiting) /\ Leads(order, call, published, active)
      BY <1>0, <2>0 DEF Ordered, InQueue, Chain, TypeOK, Changers
    <3>2. \A d \in Waiting : call'[d].event = call[d].event
      BY <2>1, Distinct DEF Waiting
    <3>3. call'[s].event.new = best /\ (active = nil \/ call'[s].event.old = active)
      BY <1>2 DEF Moves
    <3>4. Leads(order', call', published, best)
      BY <1>0, <1>1, <1>5, <3>1, <3>2, <3>3, LeadJoin
    <3> QED
      BY <3>4 DEF Chain
  <2>6. ActiveIsUp' /\ ChosenIsUp' /\ NobodyIsUp'
    BY <1>a, <2>3, Distinct DEF ActiveIsUp, ChosenIsUp, NobodyIsUp
  <2>7. Alone'
    BY <1>0, <1>1, <1>5, <2>0, <2>1, <2>2, Distinct DEF Ordered, Alone
  <2>8. FailsAlone'
    BY <1>0, <1>1, <1>5, <2>2, <2>7, Distinct DEF Alone, FailsAlone, Entering, Busy
  <2> QED
    BY <1>0, <2>1, <2>4, <2>5, <2>6, <2>7, <2>8, ModeFacts DEF Ordered
<1> QED
  BY <1>3, <1>4, <1>5 DEF IInv

(* The same in ActiveActive, which does not make it active yet. *)
LEMMA FindsNextActiveKeeps ==
  ASSUME IInv, NEW s \in Services, At(s, "next"), Mode = "ActiveActive",
         NEW best \in FirstHealthy(TheGroup, healthy, priority),
         GoesWith(s, "build", best, nil),
         UNCHANGED <<active, observed>>,
         UNCHANGED <<priority, healthy, lastActive, mu, sm, flags, published, panic>>
  PROVE  IInv'
<1>0. /\ TypeOK /\ CallsOK /\ s \in Callers /\ s \in Changers
      /\ call[s].pc = "next" /\ panic = {} /\ healthy \subseteq Services
      /\ UNCHANGED <<order, overtaken, overlapped>>
  BY Distinct DEF IInv, At, TypeOK, observed
<1>1. best \in healthy \cup {nil} /\ (best = nil => healthy = {}) /\ best \in Services \cup {nil}
  BY <1>0, FirstHealthyFacts
<1>2. Moves(s, "build", [new |-> best, old |-> nil])
  BY <1>0, <1>1, GoesWithMoves DEF AllPcs
<1>3. CallsOK'
  BY <1>0, <1>2, MovesTyped, Distinct, ModeFacts DEF Pcs
<1>4. TypeOK'
  BY <1>0, <1>3 DEF TypeOK, CallsOK, AllPcs
<1>5. ASSUME overtaken = "no"
      PROVE  Ordered'
  <2>0. Ordered
    BY <1>5 DEF IInv
  <2>1. /\ Mode' = Mode
        /\ Waiting' = Waiting
        /\ InFlight' = InFlight
        /\ s \in InFlight
        /\ \A d \in Callers \ {s} : /\ call'[d] = call[d]
                                    /\ Busy(d)' <=> Busy(d)
                                    /\ Entering(d)' <=> Entering(d)
                                    /\ Chosen(d)' <=> Chosen(d)
    BY <1>0, <1>2, MovesEffect DEF Waiting, InFlight, Decisive, Flying
  <2>2. /\ Busy(s)' /\ Busy(s) /\ ~Entering(s) /\ ~Entering(s)' /\ ~Chosen(s) /\ Chosen(s)'
        /\ call'[s].event.new = best
    BY <1>0, <1>2, <2>1 DEF Moves, Busy, Entering, Chosen
  <2>3. InQueue'
    BY <1>0, <2>0, <2>1 DEF Ordered, InQueue
  <2>4. OneAtATime'
    <3>1. (\A c, d \in InFlight : c = d) /\ published \subseteq {active}
      BY <1>0, <2>0 DEF Ordered, OneAtATime
    <3>2. \A d \in Changers \ {s} : call'[d].pc \notin {"next", "build", "promote", "assign"}
      BY <2>1, <3>1 DEF InFlight, Changers
    <3> QED
      BY <1>0, <1>2, <2>1, <3>1, <3>2, Distinct DEF OneAtATime, Moves, Changers
  <2>5. ActiveIsUp'
    BY <1>0, <1>2, <2>0, <2>1, <2>2, Distinct DEF Ordered, ActiveIsUp, Moves
  <2>6. ChosenIsUp'
    BY <1>0, <1>1, <2>0, <2>1, <2>2, Distinct DEF Ordered, ChosenIsUp
  <2>7. NobodyIsUp'
    BY <1>0, <1>1, <2>0, <2>1, <2>2, Distinct DEF Ordered, NobodyIsUp
  <2>8. Alone'
    BY <1>0, <2>0, <2>1, <2>2, Distinct DEF Ordered, Alone
  <2>9. FailsAlone'
    BY <1>0, <2>0, <2>1, <2>2, Distinct DEF Ordered, FailsAlone
  <2> QED
    BY <1>0, <2>1, <2>3, <2>4, <2>5, <2>6, <2>7, <2>8, <2>9, ModeFacts DEF Ordered
<1> QED
  BY <1>0, <1>3, <1>4, <1>5 DEF IInv

(* The active service that ActiveActive reads without the mutex is still    *)
(* the one that is published.                                               *)
LEMMA BuildsEventKeeps ==
  ASSUME IInv, NEW s \in Services, BuildsEvent(s)
  PROVE  IInv'
<1> DEFINE new == call[s].event.new
<1>0. /\ TypeOK /\ CallsOK /\ s \in Callers /\ s \in Changers
      /\ call[s].pc = "build" /\ panic = {} /\ active \in Services \cup {nil}
      /\ UNCHANGED <<priority, healthy, active, lastActive, mu, sm, flags, published, panic>>
      /\ UNCHANGED <<order, overtaken, overlapped>>
      /\ GoesWith(s, "promote", new, active)
  BY Distinct DEF IInv, At, TypeOK, BuildsEvent, state, observed
<1>1. Mode = "ActiveActive" /\ new \in Services \cup {nil}
  BY <1>0, CallFacts, ModeFacts
<1> HIDE DEF new
<1>2. Moves(s, "promote", [new |-> new, old |-> active])
  BY <1>0, <1>1, GoesWithMoves DEF AllPcs
<1>3. CallsOK'
  BY <1>0, <1>1, <1>2, MovesTyped, Distinct, ModeFacts DEF Pcs
<1>4. TypeOK'
  BY <1>0, <1>3 DEF TypeOK, CallsOK, AllPcs
<1>5. ASSUME overtaken = "no"
      PROVE  Ordered'
  <2>0. Ordered
    BY <1>5 DEF IInv
  <2>1. /\ Mode' = Mode
        /\ Waiting' = Waiting
        /\ InFlight' = InFlight
        /\ s \in InFlight
        /\ \A d \in Callers \ {s} : /\ call'[d] = call[d]
                                    /\ Busy(d)' <=> Busy(d)
                                    /\ Entering(d)' <=> Entering(d)
                                    /\ Chosen(d)' <=> Chosen(d)
    BY <1>0, <1>2, <1>1, MovesEffect DEF Waiting, InFlight, Decisive, Flying
  <2>2. /\ Busy(s)' /\ Busy(s) /\ ~Entering(s) /\ ~Entering(s)' /\ Chosen(s) /\ Chosen(s)'
        /\ call'[s].event.new = call[s].event.new
    BY <1>0, <1>1, <1>2, <2>1 DEF Moves, Busy, Entering, Chosen, new
  <2>3. InQueue'
    BY <1>0, <2>0, <2>1 DEF Ordered, InQueue
  <2>4. OneAtATime'
    <3>1. (\A c, d \in InFlight : c = d) /\ published \subseteq {active}
      BY <1>0, <1>1, <2>0 DEF Ordered, OneAtATime
    <3>2. \A d \in Changers \ {s} : call'[d].pc \notin {"next", "build", "promote", "assign"}
      BY <2>1, <3>1 DEF InFlight, Changers
    <3> QED
      BY <1>0, <1>2, <2>1, <3>1, <3>2, Distinct DEF OneAtATime, Moves, Changers
  <2>5. ActiveIsUp'
    BY <1>0, <1>1, <1>2, <2>0, <2>1, <2>2, Distinct DEF Ordered, ActiveIsUp, Moves
  <2>6. ChosenIsUp'
    BY <1>0, <1>1, <2>0, <2>1, <2>2, Distinct DEF Ordered, ChosenIsUp
  <2>7. NobodyIsUp'
    BY <1>0, <1>1, <2>0, <2>1, <2>2, Distinct DEF Ordered, NobodyIsUp, TypeOK
  <2>8. Alone'
    BY <1>0, <2>0, <2>1, <2>2, Distinct DEF Ordered, Alone
  <2>9. FailsAlone'
    BY <1>0, <2>0, <2>1, <2>2, Distinct DEF Ordered, FailsAlone
  <2> QED
    BY <1>0, <1>1, <2>1, <2>3, <2>4, <2>5, <2>6, <2>7, <2>8, <2>9, ModeFacts DEF Ordered
<1> QED
  BY <1>0, <1>3, <1>4, <1>5 DEF IInv

(* ActiveActive makes active whom it has published. *)
LEMMA AssignsKeeps ==
  ASSUME IInv, NEW s \in Services, Assigns(s)
  PROVE  IInv'
<1>0. /\ TypeOK /\ CallsOK /\ s \in Callers /\ s \in Changers
      /\ call[s].pc = "assign" /\ panic = {} /\ {active, lastActive} \subseteq Services \cup {nil}
      /\ active' = call[s].event.new
      /\ lastActive' \in {active, lastActive}
      /\ UNCHANGED <<priority, healthy, mu, sm, flags, published, panic>>
      /\ UNCHANGED <<order, overtaken, overlapped>>
  BY Distinct DEF IInv, At, TypeOK, Assigns, observed
<1>1. Mode = "ActiveActive" /\ active' \in Services \cup {nil}
  BY <1>0, CallFacts, ModeFacts
<1>2. Moves(s, "idle", NoEvent)
  BY <1>0, EndsMoves DEF Assigns
<1>3. CallsOK'
  BY <1>0, <1>2, MovesTyped, Distinct DEF Pcs
<1>4. TypeOK'
  BY <1>0, <1>1, <1>3 DEF TypeOK, CallsOK, AllPcs
<1>5. ASSUME overtaken = "no"
      PROVE  Ordered'
  <2>0. Ordered
    BY <1>5 DEF IInv
  <2>1. /\ Mode' = Mode
        /\ Waiting' = Waiting
        /\ InFlight' = InFlight \ {s}
        /\ s \in InFlight
        /\ \A d \in Callers \ {s} : /\ call'[d] = call[d]
                                    /\ Busy(d)' <=> Busy(d)
                                    /\ Entering(d)' <=> Entering(d)
                                    /\ Chosen(d)' <=> Chosen(d)
    BY <1>0, <1>2, <1>1, MovesEffect DEF Waiting, InFlight, Decisive, Flying
  <2>2. ~Busy(s)' /\ Busy(s) /\ ~Entering(s) /\ ~Entering(s)' /\ Chosen(s) /\ ~Chosen(s)'
    BY <1>0, <1>1, <1>2 DEF Moves, Busy, Entering, Chosen
  <2>3. InQueue'
    BY <1>0, <2>0, <2>1 DEF Ordered, InQueue
  <2>4. (\A c, d \in InFlight : c = d) /\ published \subseteq {active'}
    BY <1>0, <1>1, <2>0 DEF Ordered, OneAtATime
  <2>5. InFlight' = {}
    BY <2>1, <2>4
  <2>6. /\ \A d \in Changers : call'[d].pc \notin {"next", "build", "promote", "assign"}
        /\ \A x \in Services : ~Chosen(x)'
    BY <2>5, Distinct DEF InFlight, Changers, Chosen
  <2>7. OneAtATime'
    BY <1>0, <2>4, <2>5, <2>6, Distinct DEF OneAtATime
  <2>8. ActiveIsUp'
    BY <1>0, <1>1, <2>0, <2>1, <2>2, Distinct DEF Ordered, ActiveIsUp, ChosenIsUp
  <2>9. ChosenIsUp'
    BY <2>6 DEF ChosenIsUp
  <2>10. NobodyIsUp'
    BY <1>0, <2>0, <2>1, <2>2, <2>6, Distinct DEF Ordered, NobodyIsUp, TypeOK
  <2>11. Alone'
    BY <1>0, <2>0, <2>1, <2>2, Distinct DEF Ordered, Alone
  <2>12. FailsAlone'
    BY <1>0, <2>0, <2>1, <2>2, Distinct DEF Ordered, Alone, FailsAlone, Entering, Busy
  <2> QED
    BY <1>0, <1>1, <2>1, <2>3, <2>7, <2>8, <2>9, <2>10, <2>11, <2>12, ModeFacts DEF Ordered
<1> QED
  BY <1>0, <1>3, <1>4, <1>5 DEF IInv

(* What handlePromotion makes of a published service that the event names. *)
LEMMA HandledFacts ==
  ASSUME NEW S \in SUBSET Services, NEW ev \in Event
  PROVE  /\ Handled(S, ev) \in SUBSET Services
         /\ S \subseteq {ev.old} => Handled(S, ev) \subseteq {ev.new}
         /\ \A T \in SUBSET S : Handled(T, ev) \subseteq Handled(S, ev)
BY DEF Handled, Event

(* The promotion that comes first is handled: the rule moves to its         *)
(* service.  Any other one is out of order.                                 *)
LEMMA PromotesKeeps ==
  ASSUME IInv, NEW c \in Changers, Promotes(c)
  PROVE  IInv'
<1> DEFINE ev == call[c].event
<1>0. /\ TypeOK /\ CallsOK /\ c \in Callers /\ c \in Services \cup {zone}
      /\ call[c].pc = "promote" /\ panic = {} /\ flags \subseteq published
      /\ published \in SUBSET Services /\ ev \in Event
      /\ flags' = Handled(flags, ev)
      /\ published' = Handled(published, ev)
      /\ mu' \in {free, lost, zone}
      /\ mu' = lost <=> mu = lost
      /\ UNCHANGED <<priority, healthy, active, lastActive, sm, panic>>
  BY Distinct, CallFacts DEF IInv, At, TypeOK, Promotes, Changers
<1>1. /\ published' \in SUBSET Services
      /\ flags' \subseteq published'
      /\ published \subseteq {ev.old} => published' \subseteq {ev.new}
  BY <1>0, HandledFacts, Zenon
<1> HIDE DEF ev
<1>a. c \in Waiting /\ c \in InFlight
  BY <1>0, ModeFacts DEF Waiting, Decisive, InFlight
<1>b. overtaken = "no" => order \in Seq(Changers) /\ order # <<>>
  <2>1. overtaken = "no" => \E i \in 1 .. Len(order) : order[i] = c
    BY <1>a DEF IInv, Ordered, InQueue, Lists
  <2>2. order \in Seq(Changers)
    BY <1>0 DEF TypeOK, Changers
  <2> QED
    BY <2>1, <2>2
<1>c. /\ order' \in Seq(Services \cup {zone})
      /\ overtaken' \in {"yes", "no"}
      /\ overlapped' \subseteq Services \cup {zone}
      /\ overtaken' = "no" => /\ overtaken = "no"
                              /\ overlapped' = overlapped
                              /\ c = Head(order)
                              /\ order' = Tail(order)
  <2>1. CASE overtaken = "no" /\ Head(order) = c
    <3>1. order' = Tail(order) /\ overtaken' = overtaken /\ overlapped' = overlapped
      BY <2>1 DEF Promotes
    <3>2. order' \in Seq(Changers)
      BY <1>b, <2>1, <3>1, TailFacts
    <3> QED
      BY <1>0, <2>1, <3>1, <3>2 DEF TypeOK, Changers
  <2>2. CASE ~(overtaken = "no" /\ Head(order) = c)
    <3>1. order' = <<>> /\ overtaken' = "yes" /\ overlapped' = {}
      BY <2>2 DEF Promotes, OutOfOrder
    <3> QED
      BY <3>1
  <2> QED
    BY <2>1, <2>2
<1>2. /\ c # zone /\ Mode = "ActiveActive" => Moves(c, "assign", ev)
      /\ c = zone \/ Mode = "ActivePassive" => Moves(c, "idle", NoEvent)
  <2>1. ASSUME c # zone, Mode = "ActiveActive" PROVE Moves(c, "assign", ev)
    BY <1>0, <2>1, GoesMoves DEF Promotes, AllPcs, ev
  <2>2. ASSUME c = zone \/ Mode = "ActivePassive" PROVE Moves(c, "idle", NoEvent)
    BY <1>0, <2>2, EndsMoves, ModeFacts DEF Promotes
  <2> QED
    BY <2>1, <2>2
<1>3. CallsOK'
  <2>1. CASE c # zone /\ Mode = "ActiveActive"
    <3>1. "assign" \in Pcs(c)
      BY <1>0, <2>1, Distinct, ModeFacts DEF Pcs
    <3> QED
      BY <1>0, <1>2, <2>1, <3>1, MovesTyped
  <2>2. CASE c = zone \/ Mode = "ActivePassive"
    <3>1. "idle" \in Pcs(c)
      BY DEF Pcs
    <3> QED
      BY <1>0, <1>2, <2>2, <3>1, MovesTyped
  <2> QED
    BY <2>1, <2>2, ModeFacts
<1>4. TypeOK'
  BY <1>0, <1>1, <1>c, <1>3 DEF TypeOK, CallsOK, AllPcs
<1>5. ASSUME overtaken' = "no"
      PROVE  Ordered'
  <2>0. Ordered /\ c = Head(order) /\ order' = Tail(order) /\ overlapped' = overlapped
        /\ order \in Seq(Changers) /\ order # <<>>
    BY <1>b, <1>c, <1>5 DEF IInv
  <2>1. /\ Mode' = Mode
        /\ Waiting' = Waiting \ {c}
        /\ c # zone /\ Mode = "ActiveActive" => InFlight' = InFlight
        /\ c = zone \/ Mode = "ActivePassive" => InFlight' = InFlight \ {c}
        /\ \A d \in Callers \ {c} : /\ call'[d] = call[d]
                                    /\ Busy(d)' <=> Busy(d)
                                    /\ Entering(d)' <=> Entering(d)
                                    /\ Chosen(d)' <=> Chosen(d)
    <3>1. CASE c # zone /\ Mode = "ActiveActive"
      <4>1. Moves(c, "assign", ev) /\ "assign" \notin Decisive /\ "assign" \in Flying
        BY <1>2, <3>1 DEF Decisive, Flying
      <4> QED
        BY <1>0, <1>a, <3>1, <4>1, MovesEffect, ModeFacts
    <3>2. CASE c = zone \/ Mode = "ActivePassive"
      <4>1. Moves(c, "idle", NoEvent) /\ "idle" \notin Decisive /\ "idle" \notin Flying
        BY <1>2, <3>2 DEF Decisive, Flying
      <4> QED
        BY <1>0, <3>2, <4>1, MovesEffect, ModeFacts
    <3> QED
      BY <3>1, <3>2, ModeFacts
  <2>2. /\ Busy(c) /\ ~Entering(c) /\ ~Entering(c)'
        /\ c # zone => (Chosen(c)' <=> Chosen(c))
        /\ Chosen(c)' => call'[c].event = call[c].event
        /\ c # zone /\ Mode = "ActiveActive" => call'[c].pc = "assign"
    BY <1>0, <1>2, <2>1, ModeFacts DEF Moves, Busy, Entering, Chosen, ev
  <2>3. InQueue'
    <3>1. Lists(order', Waiting \ {Head(order)})
      BY <2>0, ListLeave DEF Ordered, InQueue
    <3> QED
      BY <2>0, <2>1, <3>1 DEF InQueue
  <2>4. ASSUME Mode = "ActivePassive" PROVE Chain'
    <3>1. Lists(order, Waiting) /\ Leads(order, call, published, active)
      BY <2>0, <2>4 DEF Ordered, InQueue, Chain
    <3>2. \A d \in Waiting : d # Head(order) => call'[d].event = call[d].event
      BY <2>0, <2>1, Distinct DEF Waiting
    <3>3. Leads(order', call', Handled(published, call[Head(order)].event), active)
      BY <1>0, <2>0, <3>1, <3>2, LeadLeave
    <3> QED
      BY <1>0, <2>0, <3>3 DEF Chain, ev
  <2>5. ASSUME Mode = "ActiveActive" PROVE OneAtATime'
    <3>1. /\ \A d \in InFlight : d = c
          /\ c # zone => published \subseteq {active} /\ ev.old = active
          /\ c = zone => published \subseteq {ev.old} /\ ev.new = active
      BY <1>0, <1>a, <2>0, <2>5 DEF Ordered, OneAtATime, ev
    <3>2. published' \subseteq {ev.new}
      BY <1>1, <3>1
    <3>3. \A d \in Changers \ {c} : call'[d].pc \notin {"next", "build", "promote", "assign"}
      BY <2>1, <3>1, Distinct DEF InFlight, Changers
    <3>4. CASE c # zone
      <4>1. call'[c].pc = "assign" /\ call'[c].event = ev /\ InFlight' = {c}
        BY <1>a, <1>2, <2>1, <2>5, <3>1, <3>4 DEF Moves
      <4> QED
        BY <1>0, <3>2, <3>3, <3>4, <4>1, Distinct DEF OneAtATime, Changers
    <3>5. CASE c = zone
      <4>1. call'[c].pc = "idle" /\ InFlight' = {}
        BY <1>2, <2>1, <3>1, <3>5 DEF Moves
      <4> QED
        BY <1>0, <3>1, <3>2, <3>3, <3>5, <4>1, Distinct DEF OneAtATime, Changers
    <3> QED
      BY <3>4, <3>5
  <2>6. ActiveIsUp'
    <3>1. CASE active = c
      BY <1>0, <2>0, <2>1, <2>2, <3>1, Distinct, ModeFacts DEF Ordered, ActiveIsUp
    <3>2. CASE active # c
      BY <1>0, <2>0, <2>1, <3>2, Distinct DEF Ordered, ActiveIsUp
    <3> QED
      BY <3>1, <3>2
  <2>7. ChosenIsUp'
    BY <1>0, <2>0, <2>1, <2>2, Distinct DEF Ordered, ChosenIsUp
  <2>8. NobodyIsUp'
    BY <1>0, <2>0, <2>1, <2>2, Distinct DEF Ordered, NobodyIsUp, TypeOK
  <2>9. Alone'
    BY <1>0, <2>0, <2>1, <2>2, Distinct DEF Ordered, Alone
  <2>10. FailsAlone'
    BY <1>0, <2>0, <2>1, <2>2, Distinct DEF Ordered, FailsAlone
  <2> QED
    BY <1>0, <2>1, <2>3, <2>4, <2>5, <2>6, <2>7, <2>8, <2>9, <2>10 DEF Ordered
<1> QED
  BY <1>1, <1>3, <1>4, <1>5 DEF IInv

(* An update begins: it has changed nothing yet. *)
LEMMA UpdateLooksKeeps ==
  ASSUME IInv, UpdateLooks
  PROVE  IInv'
<1>0. /\ TypeOK /\ CallsOK /\ zone \in Callers /\ zone \in Changers
      /\ call[zone].pc = "idle" /\ panic = {} /\ healthy \subseteq Services
      /\ UNCHANGED <<priority, healthy, active, lastActive, mu, sm, flags, published, panic>>
      /\ UNCHANGED <<order, overtaken>>
      /\ Begins(zone)
  BY Distinct DEF IInv, TypeOK, UpdateLooks, At, state
<1>1. PICK best \in FirstHealthy(TheGroup, healthy, priority) : GoesWith(zone, "take", best, nil)
  BY DEF UpdateLooks
<1>2. Moves(zone, "take", [new |-> best, old |-> nil])
  BY <1>0, <1>1, FirstHealthyFacts, GoesWithMoves DEF AllPcs
<1>3. CallsOK'
  BY <1>0, <1>2, MovesTyped, Distinct DEF Pcs
<1>4. TypeOK'
  <2>1. overlapped' \subseteq Services \cup {zone}
    BY <1>0 DEF TypeOK, Begins
  <2> QED
    BY <1>0, <1>3, <2>1 DEF TypeOK, CallsOK, AllPcs
<1>5. ASSUME overtaken = "no"
      PROVE  Ordered'
  <2>0. Ordered
    BY <1>5 DEF IInv
  <2>1. /\ Mode' = Mode
        /\ Waiting' = Waiting
        /\ InFlight' = InFlight
        /\ zone \notin Waiting
        /\ \A d \in Callers \ {zone} : /\ call'[d] = call[d]
                                       /\ Busy(d)' <=> Busy(d)
                                       /\ Entering(d)' <=> Entering(d)
                                       /\ Chosen(d)' <=> Chosen(d)
    BY <1>0, <1>2, MovesEffect DEF Waiting, InFlight, Decisive, Flying
  <2>2. Busy(zone)' /\ ~Busy(zone) /\ call'[zone].pc = "take"
    BY <1>0, <1>2 DEF Moves, Busy
  <2>3. InQueue'
    BY <1>0, <2>0, <2>1 DEF Ordered, InQueue
  <2>4. ASSUME Mode = "ActivePassive" PROVE Chain'
    <3>1. \A c \in Waiting : call'[c].event = call[c].event
      BY <2>1, Distinct DEF Waiting
    <3> QED
      BY <1>0, <2>0, <2>4, <3>1, ChainKept DEF Ordered
  <2>5. ASSUME Mode = "ActiveActive" PROVE OneAtATime'
    BY <1>0, <2>0, <2>1, <2>2, <2>5, Distinct DEF Ordered, OneAtATime
  <2>6. ActiveIsUp'
    BY <1>0, <2>0, <2>1, Distinct DEF Ordered, ActiveIsUp
  <2>7. ChosenIsUp'
    BY <1>0, <2>0, <2>1, Distinct DEF Ordered, ChosenIsUp
  <2>8. NobodyIsUp'
    BY <1>0, <2>0, <2>1, Distinct DEF Ordered, NobodyIsUp
  <2>9. Alone'
    BY <1>0, <1>5, <2>0, <2>1, <2>2, BeginsEffect, Distinct DEF Ordered, Alone
  <2>10. FailsAlone'
    BY <1>0, <1>5, <2>0, <2>1, <2>2, BeginsEffect, Distinct DEF Ordered, FailsAlone
  <2> QED
    BY <1>0, <2>1, <2>3, <2>4, <2>5, <2>6, <2>7, <2>8, <2>9, <2>10 DEF Ordered
<1> QED
  BY <1>0, <1>3, <1>4, <1>5 DEF IInv

(* It takes the mutex and replaces the active service; the service that it  *)
(* found is still the first healthy one, or nothing more is claimed.        *)
LEMMA UpdateTakesKeeps ==
  ASSUME IInv, UpdateTakes
  PROVE  IInv'
<1> DEFINE best == call[zone].event.new
<1>0. /\ TypeOK /\ CallsOK /\ zone \in Callers /\ zone \in Changers
      /\ call[zone].pc = "take" /\ panic = {} /\ healthy \subseteq Services
      /\ {active, lastActive} \subseteq Services \cup {nil} /\ published \in SUBSET Services
      /\ active \in Services \cup {nil}
      /\ best \in Services \cup {nil}
      /\ mu = free /\ mu' = zone
      /\ active' = best
      /\ lastActive' = active
      /\ GoesWith(zone, "promote", best, active)
      /\ UNCHANGED <<priority, healthy, sm, flags, published, panic>>
  BY Distinct, CallFacts DEF IInv, TypeOK, UpdateTakes, At
<1>1. /\ order' \in Seq(Services \cup {zone})
      /\ overtaken' \in {"yes", "no"}
      /\ overlapped' \subseteq Services \cup {zone}
      /\ overtaken' = "no" => /\ overtaken = "no"
                              /\ overlapped' = overlapped
                              /\ order' = Append(order, zone)
                              /\ best \in FirstHealthy(TheGroup, healthy, priority)
                              /\ Mode = "ActiveActive" => InFlight \ {zone} = {}
  <2>1. CASE best \in FirstHealthy(TheGroup, healthy, priority)
    <3>1. Decided(zone)
      BY <2>1 DEF UpdateTakes
    <3> QED
      BY <1>0, <2>1, <3>1, DecidedEffect
  <2>2. CASE best \notin FirstHealthy(TheGroup, healthy, priority)
    <3>1. order' = <<>> /\ overtaken' = "yes" /\ overlapped' = {}
      BY <2>2 DEF UpdateTakes, OutOfOrder
    <3> QED
      BY <3>1
  <2> QED
    BY <2>1, <2>2
<1> HIDE DEF best
<1>2. Moves(zone, "promote", [new |-> best, old |-> active])
  BY <1>0, GoesWithMoves DEF AllPcs
<1>3. CallsOK'
  BY <1>0, <1>2, MovesTyped, Distinct DEF Pcs
<1>4. TypeOK'
  BY <1>0, <1>1, <1>3 DEF TypeOK, CallsOK, AllPcs
<1>5. ASSUME overtaken' = "no"
      PROVE  Ordered'
  <2>0. Ordered
    BY <1>1, <1>5 DEF IInv
  <2>1. /\ Mode' = Mode
        /\ Waiting' = Waiting \cup {zone}
        /\ InFlight' = InFlight \cup {zone}
        /\ zone \notin Waiting
        /\ zone \notin InFlight
        /\ \A d \in Callers \ {zone} : /\ call'[d] = call[d]
                                       /\ Busy(d)' <=> Busy(d)
                                       /\ Entering(d)' <=> Entering(d)
                                       /\ Chosen(d)' <=> Chosen(d)
    BY <1>0, <1>2, ModeFacts, MovesEffect DEF Waiting, InFlight, Decisive, Flying
  <2>2. /\ Busy(zone)' /\ Busy(zone)
        /\ call'[zone].event.new = best /\ call'[zone].event.old = active
    BY <1>0, <1>2 DEF Moves, Busy
  <2>a. best \in healthy \cup {nil} /\ (best = nil => healthy = {})
    BY <1>0, <1>1, <1>5, FirstHealthyFacts
  <2>3. \A x \in Services : ~Chosen(x)'
    BY <1>1, <1>5, <2>1, Distinct DEF Chosen, InFlight
  <2>4. InQueue'
    BY <1>0, <1>1, <1>5, <2>0, <2>1, QueueJoined DEF Ordered
  <2>5. ASSUME Mode = "ActivePassive" PROVE Chain'
    <3>1. order \in Seq(Changers) /\ Lists(order, Waiting) /\ Leads(order, call, published, active)
      BY <1>0, <2>0, <2>5 DEF Ordered, InQueue, Chain, TypeOK, Changers
    <3>2. \A d \in Waiting : call'[d].event = call[d].event
      BY <2>1, Distinct DEF Waiting
    <3>3. call'[zone].event.new = best /\ (active = nil \/ call'[zone].event.old = active)
      BY <2>2
    <3>4. Leads(order', call', published, best)
      BY <1>0, <1>1, <1>5, <3>1, <3>2, <3>3, LeadJoin
    <3> QED
      BY <1>0, <3>4 DEF Chain
  <2>6. ASSUME Mode = "ActiveActive" PROVE OneAtATime'
    <3>1. InFlight = {} /\ InFlight' = {zone}
      BY <1>1, <1>5, <2>1, <2>6
    <3>2. published \subseteq {active}
      BY <2>0, <2>6, <3>1 DEF Ordered, OneAtATime
    <3>3. \A d \in Services : call'[d].pc \notin {"next", "build", "promote", "assign"}
      BY <3>1, Distinct DEF InFlight
    <3> QED
      BY <1>0, <2>2, <3>1, <3>2, <3>3 DEF OneAtATime
  <2>7. ActiveIsUp' /\ ChosenIsUp' /\ NobodyIsUp'
    BY <1>0, <2>a, <2>3, Distinct DEF ActiveIsUp, ChosenIsUp, NobodyIsUp
  <2>8. Alone'
    BY <1>0, <1>1, <1>5, <2>0, <2>1, <2>2, Distinct DEF Ordered, Alone
  <2>9. FailsAlone'
    BY <1>0, <1>1, <1>5, <2>2, <2>8, Distinct DEF Alone, FailsAlone, Entering, Busy
  <2> QED
    BY <1>0, <2>1, <2>4, <2>5, <2>6, <2>7, <2>8, <2>9 DEF Ordered
<1> QED
  BY <1>0, <1>3, <1>4, <1>5 DEF IInv

(* A step of the request changes nothing that the callbacks see but         *)
(* sm.mutex.                                                                *)
LEMMA ReadKeeps ==
  ASSUME IInv, NEW p \in {"idle", "read"}, NEW e, Moves(api, p, e), sm' \in {free, api},
         UNCHANGED <<priority, healthy, active, lastActive, mu, flags, published, panic>>,
         UNCHANGED observed
  PROVE  IInv'
<1>0. /\ TypeOK /\ CallsOK /\ api \in Callers /\ api \notin Changers
      /\ UNCHANGED <<order, overtaken, overlapped>>
  BY Distinct DEF IInv, observed
<1>2. Moves(api, p, e)
  OBVIOUS
<1>3. CallsOK'
  BY <1>0, MovesTyped, Distinct DEF Pcs
<1>4. TypeOK'
  BY <1>0, <1>3 DEF TypeOK, CallsOK, AllPcs
<1>5. ASSUME overtaken = "no"
      PROVE  Ordered'
  <2>0. Ordered
    BY <1>5 DEF IInv
  <2>1. /\ Mode' = Mode
        /\ Waiting' = Waiting
        /\ InFlight' = InFlight
        /\ \A d \in Callers \ {api} : /\ call'[d] = call[d]
                                      /\ Busy(d)' <=> Busy(d)
                                      /\ Entering(d)' <=> Entering(d)
                                      /\ Chosen(d)' <=> Chosen(d)
    <3>1. api \notin Waiting /\ api \notin InFlight
      BY <1>0 DEF Waiting, InFlight, Changers
    <3>2. Waiting' = Waiting \ {api} /\ InFlight' = InFlight \ {api}
      BY <1>0, <1>2, MovesEffect
    <3> QED
      BY <1>0, <1>2, <3>1, <3>2, MovesEffect
  <2>3. InQueue'
    BY <1>0, <2>0, <2>1 DEF Ordered, InQueue
  <2>4. ASSUME Mode = "ActivePassive" PROVE Chain'
    <3>1. \A c \in Waiting : call'[c].event = call[c].event
      BY <1>0, <2>1, Distinct DEF Waiting
    <3> QED
      BY <1>0, <2>0, <2>4, <3>1, ChainKept DEF Ordered
  <2>5. ASSUME Mode = "ActiveActive" PROVE OneAtATime'
    BY <1>0, <2>0, <2>1, <2>5, Distinct DEF Ordered, OneAtATime
  <2>6. ActiveIsUp'
    BY <1>0, <2>0, <2>1, Distinct DEF Ordered, ActiveIsUp
  <2>7. ChosenIsUp'
    BY <1>0, <2>0, <2>1, Distinct DEF Ordered, ChosenIsUp, TypeOK
  <2>8. NobodyIsUp'
    BY <1>0, <2>0, <2>1, Distinct DEF Ordered, NobodyIsUp, TypeOK
  <2>9. Alone'
    BY <1>0, <2>0, <2>1, Distinct DEF Ordered, Alone
  <2>10. FailsAlone'
    BY <1>0, <2>0, <2>1, Distinct DEF Ordered, FailsAlone
  <2> QED
    BY <1>0, <2>0, <2>1, <2>3, <2>4, <2>5, <2>6, <2>7, <2>8, <2>9, <2>10 DEF Ordered
<1> QED
  BY <1>0, <1>3, <1>4, <1>5 DEF IInv

(* A step that changes nothing. *)
LEMMA StutterKeeps ==
  ASSUME IInv, UNCHANGED vars
  PROVE  IInv'
<1>1. /\ UNCHANGED <<priority, healthy, active, lastActive, mu, sm, flags, published, panic>>
      /\ UNCHANGED <<order, overtaken, overlapped>>
      /\ UNCHANGED call
  BY DEF vars, state, observed
<1>2. Mode' = Mode
  BY <1>1, ModeFacts
<1>3. TypeOK' /\ CallsOK'
  BY <1>1, <1>2 DEF IInv, TypeOK, CallsOK, Pcs
<1>4. Waiting' = Waiting /\ InFlight' = InFlight
  BY <1>1, <1>2 DEF Waiting, Decisive, InFlight
<1>5. (InQueue <=> InQueue') /\ (Chain <=> Chain') /\ (OneAtATime <=> OneAtATime')
  BY <1>1, <1>4 DEF InQueue, Chain, OneAtATime
<1>6. /\ ActiveIsUp <=> ActiveIsUp'
      /\ ChosenIsUp <=> ChosenIsUp'
      /\ NobodyIsUp <=> NobodyIsUp'
  BY <1>1, <1>2 DEF ActiveIsUp, ChosenIsUp, NobodyIsUp, Entering, Chosen
<1>7. (Alone <=> Alone') /\ (FailsAlone <=> FailsAlone')
  BY <1>1 DEF Alone, FailsAlone, Busy, Entering
<1> QED
  BY <1>1, <1>2, <1>3, <1>5, <1>6, <1>7 DEF IInv, Ordered

(* OnServiceHealthChange up to the release of sg.mu. *)
LEMMA OnServiceHealthChangeKeeps ==
  ASSUME IInv, NEW s \in Services, OnServiceHealthChange1(s)
  PROVE  IInv'
<1>0. At(s, "enter") /\ mu = free
  BY DEF OnServiceHealthChange1
<1>1. CASE s \notin healthy
  <2>0. Down(s)
    BY <1>1 DEF OnServiceHealthChange1
  <2>1. CASE active = nil /\ panic' = {s}
             /\ UNCHANGED <<priority, healthy, active, lastActive, mu, sm, flags, published, call,
                            observed>>
    BY <1>0, <1>1, <2>1, PanicKeeps DEF observed
  <2>2. CASE /\ active = s
             /\ lastActive' = IF Mode = "ActivePassive" THEN active ELSE lastActive
             /\ Goes(s, "next")
             /\ IF Mode = "ActiveActive" THEN Decided(s) ELSE UNCHANGED observed
             /\ UNCHANGED <<priority, healthy, active, mu, sm, flags, published, panic>>
    <3>1. {lastActive'} \subseteq Services \cup {nil}
      BY <2>2 DEF IInv, TypeOK
    <3> QED
      BY <1>0, <1>1, <2>2, <3>1, DownNextKeeps
  <2>3. CASE Leaks(s)
    BY <1>0, <2>3, LeaksKeeps
  <2> QED
    BY <2>0, <2>1, <2>2, <2>3 DEF Down
<1>2. CASE s \in healthy /\ Mode = "ActivePassive"
  <2>0. UpInPassive(s)
    BY <1>2 DEF OnServiceHealthChange1
  <2>1. CASE TriggerPromotion(TheGroup, s, healthy, priority)
    BY <1>0, <1>2, <2>0, <2>1, UpInPassiveKeeps DEF UpInPassive
  <2>2. CASE ~TriggerPromotion(TheGroup, s, healthy, priority)
    BY <1>0, <2>0, <2>2, LeaksKeeps DEF UpInPassive
  <2> QED
    BY <2>1, <2>2
<1>3. CASE s \in healthy /\ Mode = "ActiveActive"
  <2>0. UpInActive(s)
    BY <1>3, ModeFacts DEF OnServiceHealthChange1
  <2>1. CASE GoesWith(s, "build", s, nil) /\ Decided(s) /\ UNCHANGED state
    BY <1>0, <1>3, <2>1, UpInActiveKeeps
  <2>2. CASE Leaks(s)
    BY <1>0, <2>2, LeaksKeeps
  <2> QED
    BY <2>0, <2>1, <2>2 DEF UpInActive
<1> QED
  BY <1>1, <1>2, <1>3, ModeFacts

(* The successor of a service that failed. *)
LEMMA FindsNextKeeps ==
  ASSUME IInv, NEW s \in Services, FindsNext(s)
  PROVE  IInv'
<1>1. PICK best \in FirstHealthy(TheGroup, healthy, priority) :
        IF Mode = "ActivePassive"
          THEN active' = best /\ GoesWith(s, "promote", best, active) /\ Decided(s)
          ELSE GoesWith(s, "build", best, nil) /\ UNCHANGED <<active, observed>>
  BY DEF FindsNext
<1>2. /\ At(s, "next")
      /\ UNCHANGED <<priority, healthy, lastActive, mu, sm, flags, published, panic>>
  BY DEF FindsNext
<1>3. CASE Mode = "ActivePassive"
  BY <1>1, <1>2, <1>3, FindsNextPassiveKeeps
<1>4. CASE Mode = "ActiveActive"
  <2>1. GoesWith(s, "build", best, nil) /\ UNCHANGED <<active, observed>>
    BY <1>1, <1>4, ModeFacts
  <2> QED
    BY <1>2, <1>4, <2>1, FindsNextActiveKeeps
<1> QED
  BY <1>3, <1>4, ModeFacts

(* Every step keeps the invariant. *)
LEMMA StepKeeps ==
  ASSUME IInv, [Next]_vars
  PROVE  IInv'
<1>1. CASE \E s \in Services : HealthChanges(s)
  BY <1>1, HealthChangesKeeps
<1>2. CASE UpdateLooks
  BY <1>2, UpdateLooksKeeps
<1>3. CASE ReadBegins
  <2>1. Moves(api, "read", call[api].event)
    BY <1>3, GoesMoves, Distinct DEF IInv, ReadBegins, AllPcs
  <2>2. /\ sm' \in {free, api} /\ UNCHANGED observed
        /\ UNCHANGED <<priority, healthy, active, lastActive, mu, flags, published, panic>>
    BY <1>3 DEF ReadBegins
  <2> QED
    BY <2>1, <2>2, ReadKeeps
<1>4. ASSUME NEW c \in Callers, Continues(c)
      PROVE  IInv'
  <2>1. CASE c \in Services /\ StoreHealth(c)
    BY <2>1, StoreHealthKeeps
  <2>2. CASE c \in Services /\ OnServiceHealthChange1(c)
    BY <2>2, OnServiceHealthChangeKeeps
  <2>3. CASE c \in Services /\ FindsNext(c)
    BY <2>3, FindsNextKeeps
  <2>4. CASE c \in Services /\ BuildsEvent(c)
    BY <2>4, BuildsEventKeeps
  <2>5. CASE c \in Services /\ Assigns(c)
    BY <2>5, AssignsKeeps
  <2>6. CASE c \in Services \cup {zone} /\ Promotes(c)
    BY <2>6, PromotesKeeps DEF Changers
  <2>7. CASE c = zone /\ UpdateTakes
    BY <2>7, UpdateTakesKeeps
  <2>8. CASE c = api /\ ReadEnds
    <3>1. Moves(api, "idle", NoEvent)
      BY <2>8, EndsMoves, Distinct DEF IInv, ReadEnds
    <3>2. /\ sm' \in {free, api} /\ UNCHANGED observed
          /\ UNCHANGED <<priority, healthy, active, lastActive, mu, flags, published, panic>>
      BY <2>8 DEF ReadEnds
    <3> QED
      BY <3>1, <3>2, ReadKeeps
  <2> QED
    BY <1>4, <2>1, <2>2, <2>3, <2>4, <2>5, <2>6, <2>7, <2>8 DEF Continues
<1>5. CASE UNCHANGED vars
  BY <1>5, StutterKeeps
<1> QED
  BY <1>1, <1>2, <1>3, <1>4, <1>5 DEF Next

(* It holds before the first call. *)
LEMMA InitKeeps ==
  ASSUME Init
  PROVE  IInv
<1>1. \A c \in Callers : call[c] = [pc |-> "idle", event |-> NoEvent]
  BY DEF Init, Idle
<1>2. NoEvent \in Event
  BY DEF NoEvent, Event
<1>3. TypeOK
  BY <1>1, <1>2 DEF Init, TypeOK
<1>4. CallsOK
  BY <1>1, <1>2 DEF Init, CallsOK, Idle, Pcs, AllPcs
<1>5. \A c \in Changers : call[c].pc = "idle"
  BY <1>1, Distinct
<1>6. Waiting = {} /\ InFlight = {}
  BY <1>5 DEF Waiting, Decisive, InFlight, Changers
<1>7. InQueue
  BY <1>6 DEF Init, InQueue, Lists
<1>8. Chain
  BY DEF Init, Chain, Leads
<1>9. OneAtATime
  BY <1>5, <1>6, Distinct DEF Init, OneAtATime
<1>10. ActiveIsUp /\ ChosenIsUp /\ NobodyIsUp
  BY <1>5, Distinct DEF Init, ActiveIsUp, ChosenIsUp, NobodyIsUp, Chosen, Entering
<1>11. Alone /\ FailsAlone
  BY <1>5, Distinct DEF Init, Alone, FailsAlone, Busy, Entering
<1>12. flags \subseteq published /\ panic \subseteq overlapped
  BY DEF Init
<1> QED
  BY <1>3, <1>4, <1>7, <1>8, <1>9, <1>10, <1>11, <1>12 DEF IInv, Ordered

-----------------------------------------------------------------------------
(* The theorems. *)

(* The invariant holds however the calls on the group interleave. *)
THEOREM Inductive == Spec => []IInv
<1>1. Init => IInv
  BY InitKeeps
<1>2. IInv /\ [Next]_vars => IInv'
  BY StepKeeps
<1> QED
  BY <1>1, <1>2, PTL DEF Spec

(* Once every call has returned, and if the promotions were handled in the  *)
(* order in which they were decided on, the flag and the rule are with the  *)
(* active service alone, and it is healthy unless a callback kept the       *)
(* mutex.                                                                   *)
THEOREM InOrderConsistent == Spec => []InOrderIsConsistent
<1>1. IInv => InOrderIsConsistent
  <2> SUFFICES ASSUME IInv, \A c \in Callers : ~Busy(c), overtaken = "no"
               PROVE  /\ flags \subseteq published
                      /\ published \subseteq {active}
                      /\ mu = free => published \subseteq healthy
    BY DEF IInv, InOrderIsConsistent
  <2>1. Ordered /\ TypeOK /\ flags \subseteq published
    BY DEF IInv
  <2>2. \A c \in Changers : call[c].pc = "idle"
    BY Distinct DEF Busy
  <2>3. published \subseteq {active}
    <3>1. CASE Mode = "ActiveActive"
      <4>1. InFlight = {}
        BY <2>2 DEF InFlight, Changers
      <4> QED
        BY <2>1, <3>1, <4>1 DEF Ordered, OneAtATime
    <3>2. CASE Mode = "ActivePassive"
      <4>1. Waiting = {}
        BY <2>2 DEF Waiting, Decisive
      <4>2. order \in Seq(Changers) /\ \A i \in 1 .. Len(order) : order[i] \in {}
        BY <2>1, <4>1 DEF Ordered, InQueue, Lists, TypeOK, Changers
      <4>3. order = <<>>
        BY <4>2
      <4> QED
        BY <2>1, <3>2, <4>3 DEF Ordered, Chain, Leads
    <3> QED
      BY <3>1, <3>2, ModeFacts
  <2>4. ASSUME mu = free PROVE published \subseteq healthy
    BY <2>1, <2>2, <2>3, <2>4, Distinct DEF Ordered, ActiveIsUp, Entering, TypeOK
  <2> QED
    BY <2>1, <2>3, <2>4
<1> QED
  BY <1>1, Inductive, PTL

(* Whoever dereferences a nil active service has met another call on the    *)
(* group.                                                                   *)
THEOREM PanicOverlaps == Spec => []PanicNeedsOverlap
<1>1. IInv => PanicNeedsOverlap
  BY DEF IInv, Ordered, PanicNeedsOverlap
<1> QED
  BY <1>1, Inductive, PTL

=============================================================================
