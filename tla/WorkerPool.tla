----------------------------- MODULE WorkerPool -----------------------------
(***************************************************************************)
(* The worker pool that runs the health checks (pkg/pool).  The schedulers *)
(* put jobs from goroutines of their own; workers take them, and come and  *)
(* go with the load; ScaleTo changes the minimum; Stop closes the pool.    *)
(* Jobs and workers are counted, not named.                                *)
(***************************************************************************)
EXTENDS Integers, FiniteSets

CONSTANTS
  Putters,     \* goroutines that call Put
  Capacity,    \* nonBlockingBufferSize
  Targets,     \* values of minRunningWorkers
  MaxWorkers   \* bound on the workers of an instance

(* What the code ensures of the constants. *)
ConstantsOK ==
  /\ Capacity \in Nat \ {0}
  /\ Targets \subseteq Nat \ {0}
  /\ MaxWorkers \in Nat

VARIABLES
  closed,    \* the atomic flag Put looks at: "yes" or "no"
  min,       \* minRunningWorkers
  num,       \* numRunningWorkers
  idle,      \* workers in their select
  busy,      \* workers in a job
  jobs,      \* jobs in the buffer of the channel
  spawning,  \* workers a running Start or ScaleTo has still to start
  put,       \* where each putter is
  stop,      \* how far ServicesManager.Stop and the pool's Stop have come
  late       \* observation: putters started after the schedulers were waited for

vars == <<closed, min, num, idle, busy, jobs, spawning, put, stop, late>>

Init ==
  /\ closed = "yes"
  /\ min \in Targets
  /\ num = 0
  /\ idle = 0
  /\ busy = 0
  /\ jobs = 0
  /\ spawning = 0
  /\ put = [p \in Putters |-> "ready"]
  /\ stop = "no"
  /\ late = {}

(* Mutant: the quit channel is closed after the wait for the workers. *)
QuittingLate == stop = "closed"

(* The quit channel is closed. *)
Quitting == stop \in {"waiting", "closed"}

(* newWorker, under the lock of the pool. *)
NewWorker ==
  /\ num' = num + 1
  /\ idle' = idle + 1

(* The bound of an instance, looked at before a Put or a ScaleTo begins so   *)
(* that it never holds up one that has: the workers there are, and the ones *)
(* that may be on their way.  The code has no such bound.                   *)
Committed ==
  idle + busy + spawning + Cardinality({p \in Putters : put[p] \in {"scale", "grow"}})

(* Start opens the pool before its first worker runs. *)
Start ==
  /\ closed = "yes"
  /\ stop = "no"
  /\ closed' = "no"
  /\ spawning' = min
  /\ UNCHANGED <<min, num, idle, busy, jobs, put, stop, late>>

(* The next turn of the loop over newWorker, in Start and in ScaleTo. *)
Spawn ==
  /\ spawning > 0
  /\ NewWorker
  /\ spawning' = spawning - 1
  /\ UNCHANGED <<closed, min, busy, jobs, put, stop, late>>

-----------------------------------------------------------------------------
(* Put *)

At(p, from, to) ==
  /\ put[p] = from
  /\ put' = [put EXCEPT ![p] = to]

(* The pool was open when Put looked.  On a closed one it returns           *)
(* ErrPutOnClosedPool and changes nothing.                                  *)
PutCheck(p) ==
  /\ closed = "no"
  /\ Committed < MaxWorkers
  /\ At(p, "ready", "scale")
  /\ UNCHANGED <<closed, min, num, idle, busy, jobs, spawning, stop, late>>

(* scale: is the buffer full?  The lock is released before newWorker. *)
PutScale(p) ==
  /\ At(p, "scale", IF jobs = Capacity THEN "grow" ELSE "send")
  /\ UNCHANGED <<closed, min, num, idle, busy, jobs, spawning, stop, late>>

PutGrow(p) ==
  /\ At(p, "grow", "send")
  /\ NewWorker
  /\ UNCHANGED <<closed, min, busy, jobs, spawning, stop, late>>

PutSend(p) ==
  /\ stop # "closed"
  /\ jobs < Capacity
  /\ At(p, "send", "ready")
  /\ jobs' = jobs + 1
  /\ UNCHANGED <<closed, min, num, idle, busy, spawning, stop, late>>

(* A send on the closed channel. *)
PutPanics(p) ==
  /\ stop = "closed"
  /\ At(p, "send", "panic")
  /\ UNCHANGED <<closed, min, num, idle, busy, jobs, spawning, stop, late>>

(* The scheduler behind the putter has ended. *)
Retire(p) ==
  /\ At(p, "ready", "gone")
  /\ UNCHANGED <<closed, min, num, idle, busy, jobs, spawning, stop, late>>

(* startLoop: a scheduler is started, by the zone handler, which has ended   *)
(* before the manager is stopped, or out of a job: the callback of a check   *)
(* whose promotion moves a service to another interval.                      *)
StartLoop(p) ==
  /\ stop = "no" \/ busy > 0
  /\ At(p, "gone", "ready")
  /\ late' = IF stop = "no" THEN late ELSE late \cup {p}
  /\ UNCHANGED <<closed, min, num, idle, busy, jobs, spawning, stop>>

-----------------------------------------------------------------------------
(* Workers *)

Take ==
  /\ idle > 0
  /\ jobs > 0
  /\ idle' = idle - 1
  /\ busy' = busy + 1
  /\ jobs' = jobs - 1
  /\ UNCHANGED <<closed, min, num, spawning, put, stop, late>>

Finish ==
  /\ busy > 0
  /\ busy' = busy - 1
  /\ idle' = idle + 1
  /\ UNCHANGED <<closed, min, num, jobs, spawning, put, stop, late>>

(* Mutant: the worker is taken off the count twice. *)
QuitTwice ==
  /\ Quitting
  /\ idle > 0
  /\ idle' = idle - 1
  /\ num' = num - 2
  /\ UNCHANGED <<closed, min, busy, jobs, spawning, put, stop, late>>

Quit ==
  /\ Quitting
  /\ idle > 0
  /\ idle' = idle - 1
  /\ num' = num - 1
  /\ UNCHANGED <<closed, min, busy, jobs, spawning, put, stop, late>>

(* A worker that finds the channel closed and drained just returns. *)
LeaveClosed ==
  /\ stop = "closed"
  /\ jobs = 0
  /\ idle > 0
  /\ idle' = idle - 1
  /\ UNCHANGED <<closed, min, num, busy, jobs, spawning, put, stop, late>>

(* Mutant: the comparison with the minimum is not strict. *)
IdleStopEager ==
  /\ idle > 0
  /\ num >= min
  /\ idle' = idle - 1
  /\ num' = num - 1
  /\ UNCHANGED <<closed, min, busy, jobs, spawning, put, stop, late>>

(* A worker that has been idle for IDLESTOP and is not needed. *)
IdleStop ==
  /\ idle > 0
  /\ num > min
  /\ idle' = idle - 1
  /\ num' = num - 1
  /\ UNCHANGED <<closed, min, busy, jobs, spawning, put, stop, late>>

-----------------------------------------------------------------------------
(* ScaleTo, called by one goroutine at a time, and not while the manager     *)
(* stops; nothing in the operator calls it.                                  *)

Missing(t) == IF num >= t THEN 0 ELSE t - num

ScaleTo(t) ==
  /\ closed = "no"
  /\ stop = "no"
  /\ spawning = 0
  /\ Committed + Missing(t) <= MaxWorkers
  /\ min' = t
  /\ spawning' = Missing(t)
  /\ UNCHANGED <<closed, num, idle, busy, jobs, put, stop, late>>

-----------------------------------------------------------------------------
(* Stop *)

(* Mutant: the pool is stopped before the schedulers have been waited for. *)
SchedulersMaybe == spawning = 0

(* What sm.wg.Wait() waits for; Start has long returned. *)
SchedulersGone == spawning = 0 /\ \A p \in Putters : put[p] = "gone"

(* ServicesManager.Stop: sm.wg.Wait() has returned. *)
SchedulersWaited ==
  /\ closed = "no"
  /\ stop = "no"
  /\ SchedulersGone
  /\ stop' = "waited"
  /\ UNCHANGED <<closed, min, num, idle, busy, jobs, spawning, put, late>>

(* It calls the pool's Stop. *)
StopMark ==
  /\ stop = "waited"
  /\ closed' = "yes"
  /\ stop' = "marked"
  /\ UNCHANGED <<min, num, idle, busy, jobs, spawning, put, late>>

StopQuit ==
  /\ stop = "marked"
  /\ stop' = "waiting"
  /\ UNCHANGED <<closed, min, num, idle, busy, jobs, spawning, put, late>>

(* poolWg.Wait has returned: no worker is left. *)
StopClose ==
  /\ stop = "waiting"
  /\ idle + busy = 0
  /\ stop' = "closed"
  /\ UNCHANGED <<closed, min, num, idle, busy, jobs, spawning, put, late>>

-----------------------------------------------------------------------------
Next ==
  \/ Start
  \/ Spawn
  \/ \E p \in Putters :
       \/ PutCheck(p) \/ PutScale(p) \/ PutGrow(p) \/ PutSend(p) \/ PutPanics(p)
       \/ Retire(p) \/ StartLoop(p)
  \/ Take \/ Finish \/ Quit \/ LeaveClosed \/ IdleStop
  \/ \E t \in Targets : ScaleTo(t)
  \/ SchedulersWaited \/ StopMark \/ StopQuit \/ StopClose

(* Jobs end, since every check has a timeout and its callback is taken to   *)
(* return, and goroutines go on running.  The senders that wait on a        *)
(* channel are served in their order, hence the strong fairness of PutSend. *)
Fairness ==
  /\ WF_vars(Spawn)
  /\ WF_vars(Take) /\ WF_vars(Finish) /\ WF_vars(Quit)
  /\ WF_vars(StopQuit) /\ WF_vars(StopClose)
  /\ \A p \in Putters :
       WF_vars(PutScale(p)) /\ WF_vars(PutGrow(p)) /\ SF_vars(PutSend(p))

Spec == Init /\ [][Next]_vars /\ Fairness

-----------------------------------------------------------------------------
TypeOK ==
  /\ closed \in {"yes", "no"}
  /\ min \in Targets
  /\ num \in Nat /\ idle \in Nat /\ busy \in Nat
  /\ jobs \in 0 .. Capacity
  /\ spawning \in Nat
  /\ put \in [Putters -> {"ready", "scale", "grow", "send", "panic", "gone"}]
  /\ stop \in {"no", "waited", "marked", "waiting", "closed"}
  /\ late \subseteq Putters

(* numRunningWorkers counts the worker goroutines, so that the unsigned     *)
(* counter is never decremented below zero and NumWorkers tells the truth;  *)
(* a worker that a late scheduler has had started may leave uncounted.      *)
CountsWorkers == num >= idle + busy /\ (late = {} => num = idle + busy)

(* "ensure that there are ATLEAST a minimum amount of workers running"      *)
(* (pool.go:93): from Start to Stop, idle workers that leave, workers that  *)
(* a ScaleTo has still to start and a rising minimum included.              *)
AtLeastMin == closed = "no" => num + spawning >= min

(* ServicesManager.Stop waits for the schedulers before it stops the pool,   *)
(* and the pool for its workers before it closes the channel (manager.go:88, *)
(* pool.go:67): a send on the closed channel, and a worker that outlives the *)
(* closing, take a scheduler that the callback of a job has started between  *)
(* the wait and the end of that job.                                         *)
ClosedIsDeserted ==
  /\ \A p \in Putters : put[p] = "panic" => p \in late
  /\ stop = "closed" /\ late = {} =>
       /\ idle + busy + spawning = 0
       /\ \A p \in Putters : put[p] = "gone"

(* A Put that found the pool open gets its job into the queue: the buffer   *)
(* cannot stay full, since at least one worker keeps taking jobs.  Only the *)
(* Put of a late scheduler may be left waiting or panic.                    *)
PutReturns == \A p \in Putters : put[p] = "scale" ~> put[p] = "ready" \/ p \in late

(* Stop comes back: every worker sees the quit channel in the end, those in *)
(* a job and those started late included, for late schedulers, too.         *)
StopReturns == stop = "marked" ~> stop = "closed"

=============================================================================
