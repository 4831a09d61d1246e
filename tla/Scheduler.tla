------------------------------ MODULE Scheduler ------------------------------
(***************************************************************************)
(* One health-check scheduler (internal/manager/scheduler): a queue of     *)
(* services ordered by the time of their next check, and the loop that     *)
(* sleeps until the first of them is due.  The manager schedules and       *)
(* removes services while the loop is between any two of its steps.        *)
(*                                                                         *)
(* Times are abstracted to their order: the queue is a sequence of entries *)
(* by nextCheckTime, of which the first `due' ones have come.  The random  *)
(* jitter and the offsets let a new entry land anywhere after those.       *)
(***************************************************************************)
EXTENDS Naturals, Sequences, FiniteSets, SequencesExt

CONSTANTS
  Services,    \* services that share the interval
  Entries,     \* identities of ScheduledService objects (bounds the queue)
  none         \* no entry

ASSUME SchedulerAssumption == none \notin Entries

VARIABLES
  heap,      \* the queue, a sequence of entries; its first is the top
  due,       \* how many entries at its front have reached their time
  svcOf,     \* ScheduledService.service of each entry
  live,      \* the entries with shouldReSchedule set
  pc,        \* the loop; "off" is isRunning = false
  next,      \* the entry the loop has peeked at
  stopped,   \* the stop channel is closed
  wanted,    \* observation: services the manager has scheduled and not removed
  missed     \* observation: a service was scheduled while the loop was returning

vars == <<heap, due, svcOf, live, pc, next, stopped, wanted, missed>>

Init ==
  /\ heap = <<>>
  /\ due = 0
  /\ svcOf \in [Entries -> Services]
  /\ live = {}
  /\ pc = "off"
  /\ next = none
  /\ stopped = FALSE
  /\ wanted = {}
  /\ missed = FALSE

Queued == ToSet(heap)

LiveOf(s) == {e \in Queued \cap live : svcOf[e] = s}

(* heap.Push of an entry whose time lies in the future. *)
Push(h, d, e) == {InsertAt(h, i, e) : i \in d + 1 .. Len(h) + 1}

-----------------------------------------------------------------------------
(* Mutant: the loop is started for the second service. *)
StartLoopLate(h) == IF Len(h) > 1 /\ pc = "off" THEN "check" ELSE pc

(* ScheduleService starts the loop if the queue was empty and none runs. *)
StartLoop(h) == IF Len(h) = 1 /\ pc = "off" THEN "check" ELSE pc

ScheduleService(s, e) ==
  /\ ~stopped
  /\ s \notin wanted
  /\ e \notin Queued \cup {next}
  /\ svcOf' = [svcOf EXCEPT ![e] = s]
  /\ live' = live \cup {e}
  /\ heap' \in Push(heap, due, e)
  /\ pc' = StartLoop(heap')
  /\ wanted' = wanted \cup {s}
  /\ missed' = (missed \/ pc = "exiting")
  /\ UNCHANGED <<due, next, stopped>>

(* cleanupInterval: the manager closes a scheduler it believes to be empty. *)
Cleanup(last) == stopped' \in (IF last THEN {FALSE, TRUE} ELSE {FALSE})

(* RemoveService of a service that is not on the queue. *)
RemoveAbsent(s) ==
  /\ \A e \in Queued : svcOf[e] # s
  /\ Cleanup(Len(heap) = 0)
  /\ UNCHANGED <<heap, due, live>>

(* Mutant: the only entry is taken for the last one before it is matched. *)
RemoveTopAlways(s) ==
  /\ heap # <<>>
  /\ svcOf[Head(heap)] = s
  /\ heap' = Tail(heap)
  /\ due' = IF due > 0 THEN due - 1 ELSE 0
  /\ Cleanup(Len(heap) = 1)
  /\ UNCHANGED live

(* The top is only marked: the loop may be waiting for it. *)
RemoveTop(s) ==
  /\ heap # <<>>
  /\ svcOf[Head(heap)] = s
  /\ live' = live \ {Head(heap)}
  /\ Cleanup(Len(heap) = 1)
  /\ UNCHANGED <<heap, due>>

(* Any other entry is taken out; with two of one service, either. *)
RemoveInner(s) ==
  /\ heap # <<>>
  /\ svcOf[Head(heap)] # s
  /\ \E i \in 2 .. Len(heap) :
       /\ svcOf[heap[i]] = s
       /\ heap' = RemoveAt(heap, i)
       /\ due' = IF i <= due THEN due - 1 ELSE due
       /\ live' = live \ {heap[i]}
  /\ Cleanup(Len(heap') = 0)

RemoveService(s) ==
  /\ ~stopped
  /\ RemoveAbsent(s) \/ RemoveTop(s) \/ RemoveInner(s)
  /\ wanted' = wanted \ {s}
  /\ UNCHANGED <<svcOf, pc, next, missed>>

(* ServicesManager.Stop closes every scheduler. *)
Stop ==
  /\ ~stopped
  /\ stopped' = TRUE
  /\ wanted' = {}
  /\ UNCHANGED <<heap, due, svcOf, live, pc, next, missed>>

-----------------------------------------------------------------------------
(* The loop. *)

LoopExits ==
  /\ pc' = "exiting"
  /\ next' = none
  /\ UNCHANGED <<heap, due, svcOf, live, stopped, wanted, missed>>

(* Mutant: the loop goes on as long as there is something on the queue. *)
LoopCheckQueueOnly ==
  /\ pc = "check"
  /\ IF heap = <<>>
       THEN LoopExits
       ELSE /\ next' = Head(heap)
            /\ pc' = "wait"
            /\ UNCHANGED <<heap, due, svcOf, live, stopped, wanted, missed>>

(* Stop, and an empty queue, are looked at before the top is peeked. *)
LoopCheck ==
  /\ pc = "check"
  /\ IF stopped \/ heap = <<>>
       THEN LoopExits
       ELSE /\ next' = Head(heap)
            /\ pc' = "wait"
            /\ UNCHANGED <<heap, due, svcOf, live, stopped, wanted, missed>>

(* The time of the peeked entry has come.  One that was removed meanwhile   *)
(* was not on top any more, so that its time is not before that of the top. *)
TimeReached ==
  /\ due > 0
  /\ \A i \in 1 .. Len(heap) : heap[i] = next => i <= due

LoopTick ==
  /\ pc = "wait"
  /\ TimeReached
  /\ pc' = "ticked"                     \* OnTick(next.service)
  /\ UNCHANGED <<heap, due, svcOf, live, next, stopped, wanted, missed>>

LoopStops ==
  /\ pc \in {"wait", "ticked"}
  /\ stopped
  /\ LoopExits

(* Mutant: a top is dropped without a look at its mark. *)
ReScheduleDrops ==
  /\ pc = "ticked"
  /\ due' = IF due > 0 THEN due - 1 ELSE 0
  /\ heap' = Tail(heap)
  /\ pc' = "check"
  /\ next' = none
  /\ UNCHANGED <<svcOf, live, stopped, wanted, missed>>

(* reSchedule pops whatever is on top by now.  A Stop may have come after   *)
(* the loop's last look at the channel.                                     *)
ReSchedule ==
  /\ pc = "ticked"
  /\ due' = IF due > 0 THEN due - 1 ELSE 0
  /\ IF Head(heap) \in live
       THEN heap' \in Push(Tail(heap), due', Head(heap))
       ELSE heap' = Tail(heap)
  /\ pc' = "check"
  /\ next' = none
  /\ UNCHANGED <<svcOf, live, stopped, wanted, missed>>

(* The deferred function of the loop, after its return. *)
LoopOff ==
  /\ pc = "exiting"
  /\ pc' = "off"
  /\ UNCHANGED <<heap, due, svcOf, live, next, stopped, wanted, missed>>

TimePasses ==
  /\ due < Len(heap)
  /\ due' = due + 1
  /\ UNCHANGED <<heap, svcOf, live, pc, next, stopped, wanted, missed>>

Loop == LoopCheck \/ LoopTick \/ LoopStops \/ ReSchedule \/ LoopOff

Next ==
  \/ \E s \in Services, e \in Entries : ScheduleService(s, e)
  \/ \E s \in Services : RemoveService(s)
  \/ Stop
  \/ Loop
  \/ TimePasses

(* The loop is a goroutine of its own and time goes on; the manager owes    *)
(* nothing.                                                                 *)
Fairness == WF_vars(Loop) /\ WF_vars(TimePasses)

Spec == Init /\ [][Next]_vars /\ Fairness

-----------------------------------------------------------------------------
(* The types of the variables; checked as a part of PopFindsEntry. *)
TypeOK ==
  /\ heap \in Seq(Entries) /\ IsInjective(heap)
  /\ due \in 0 .. Len(heap)
  /\ svcOf \in [Entries -> Services]
  /\ live \subseteq Entries
  /\ pc \in {"off", "check", "wait", "ticked", "exiting"}
  /\ next \in Entries \cup {none}
  /\ stopped \in BOOLEAN
  /\ wanted \subseteq Services
  /\ missed \in BOOLEAN

(* heap.Pop in reSchedule never meets an empty queue, however many services *)
(* are removed between the peek and the pop (scheduler.go:102-109 leaves    *)
(* the top alone for that).                                                 *)
PopFindsEntry == TypeOK /\ (pc \in {"wait", "ticked"} => heap # <<>>)

(* A service the manager has scheduled and not removed has a live entry on  *)
(* a scheduler that is open: neither removals of other services nor the     *)
(* re-scheduling of an entry other than the one that ticked lose it, and    *)
(* RemoveService says "last" only if nobody is left, so that                *)
(* cleanupInterval never closes a scheduler that somebody depends on.       *)
WantedIsQueued == \A s \in wanted : LiveOf(s) # {} /\ ~stopped

(* A queue is without a loop only if a service was scheduled in the moment  *)
(* in which the loop had found the queue empty and had not yet cleared      *)
(* isRunning (scheduler.go:144-160): no other order of peeks, pops, marks,  *)
(* removals and returns leaves services unserved ("restart the loop when we *)
(* have scheduled services in the heap", scheduler.go:91).                  *)
UnservedIsMissed == heap # <<>> /\ ~stopped /\ pc = "off" => missed

(* A scheduler that is closed, by cleanupInterval or by Stop, ends its      *)
(* loop, on which ServicesManager.Stop waits.                               *)
StopEnds == stopped ~> pc = "off"

=============================================================================
