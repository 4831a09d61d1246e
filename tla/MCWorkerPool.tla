---------------------------- MODULE MCWorkerPool ----------------------------
(* WorkerPool as the ServicesManager uses it, for TLC and for the proofs:   *)
(* one name for each question asked of the pool.                            *)

CONSTANTS Putters, Capacity, Targets, MaxWorkers

VARIABLES closed, min, num, idle, busy, jobs, spawning, put, stop, late

W == INSTANCE WorkerPool

ASSUME PoolAssumption == W!ConstantsOK

PoolSpec == W!Spec

(* The types of the pool's variables; in particular the unsigned            *)
(* numRunningWorkers is never decremented below zero.                       *)
PoolTypeOK == W!TypeOK

(* From Start to Stop at least the minimum of workers is running or about   *)
(* to be started, while idle workers leave and ScaleTo moves the minimum.   *)
AtLeastMin == W!AtLeastMin

(* A send on the closed channel, and a worker that outlives its closing,    *)
(* take a scheduler started by a job's callback after the manager has       *)
(* waited for the schedulers.                                               *)
ClosedIsDeserted == W!ClosedIsDeserted

(* A Put that found the pool open gets its job into the queue, if it is not *)
(* that of such a scheduler.                                                *)
PutReturns == W!PutReturns

(* Stop comes back: every worker sees the quit channel in the end.          *)
StopReturns == W!StopReturns

=============================================================================
