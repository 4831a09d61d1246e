------------------------------- MODULE Service -------------------------------
(***************************************************************************)
(* The health state of one service (internal/service/service.go) together  *)
(* with the copies of it that the service repository keeps: the entry in   *)
(* the cache of the file store and the one in the file, from which a       *)
(* restarted operator rebuilds it (BuildServiceOptions in manager.go).     *)
(* Thresholds is the set of values failureThreshold takes in the zone over *)
(* time; the CRD requires at least 1.                                      *)
(***************************************************************************)
EXTENDS Integers

CONSTANTS
  Thresholds,         \* values of failureThreshold a GSLB config may carry
  InitialThreshold,   \* the one the service is first registered with
  MaxStreak           \* cap on the observed length of a run of results

ASSUME ServiceAssumption ==
  /\ Thresholds \subseteq Nat \ {0}
  /\ InitialThreshold \in Thresholds
  /\ MaxStreak \in Nat \ {0}

VARIABLES
  health,             \* Service.isHealthy: "up" or "down"
  failureCount,       \* Service.failureCount
  FailureThreshold,   \* Service.FailureThreshold
  pending,            \* healthChangeCallback has been called and has not stored yet
  cached,             \* IsHealthy and FailureCount of its entry in the store's cache
  stored,             \* and in the file, or Gone
  streak,             \* observation: the kind and number of the last equal results
  lost                \* observation: a write to the file has failed and no write of
                      \* this service has succeeded since

vars == <<health, failureCount, FailureThreshold, pending, cached, stored, streak, lost>>

Health == {"up", "down"}

(* The health part of what GSLBService() copies. *)
GSLBService(h, c) == [health |-> h, failureCount |-> c]

(* WriteFile truncates first: the file may hold no entry of the service. *)
Gone == [health |-> "gone", failureCount |-> 0]

NoResult == [kind |-> "none", n |-> 0]

Seen(kind) ==
  [kind |-> kind,
   n |-> IF streak.kind # kind THEN 1
         ELSE IF streak.n < MaxStreak THEN streak.n + 1 ELSE streak.n]

(* Mutant: the "not set" value that WithFailureCount filters is kept. *)
UnsetCount == -1

(* First registration: not found in the repository, the count is maxed out. *)
InitialCount == InitialThreshold

Init ==
  /\ health = "down"
  /\ failureCount = InitialCount
  /\ FailureThreshold = InitialThreshold
  /\ pending = FALSE
  /\ cached = GSLBService("down", InitialCount)
  /\ stored = GSLBService("down", InitialCount)
  /\ streak = NoResult
  /\ lost = FALSE

(* svcRepo.Update with the current state: done, or failed before or after   *)
(* the cached entry was changed, the file being left as it was or empty.    *)
Store ==
  \/ /\ cached' = GSLBService(health, failureCount)
     /\ stored' = GSLBService(health, failureCount)
     /\ lost' = FALSE
  \/ /\ cached' \in {cached, GSLBService(health, failureCount)}
     /\ stored' \in {stored, Gone}
     /\ lost' = TRUE

(* Mutant: a service that goes down is not written to the repository. *)
HealthChangeUpOnly ==
  /\ pending
  /\ pending' = FALSE
  /\ IF health = "up" THEN Store ELSE UNCHANGED <<cached, stored, lost>>
  /\ UNCHANGED <<health, failureCount, FailureThreshold, streak>>

(* healthChangeCallback: the first thing it does is to store the new state; *)
(* a failure to do so is logged.                                            *)
HealthChange ==
  /\ pending
  /\ pending' = FALSE
  /\ Store
  /\ UNCHANGED <<health, failureCount, FailureThreshold, streak>>

(* Mutant: a success leaves the count of a healthy service alone. *)
CountKept(c) == c

(* The count of a healthy service after a successful check. *)
CountReset(c) == 0

OnSuccess ==
  /\ ~pending
  /\ streak' = Seen("success")
  /\ \/ /\ health = "up"
        /\ failureCount' = CountReset(failureCount)
        /\ UNCHANGED <<health, pending>>
     \/ /\ health = "down"
        /\ failureCount' = IF failureCount > 0 THEN failureCount - 1 ELSE 0
        /\ health' = IF failureCount' = 0 THEN "up" ELSE "down"
        /\ pending' = (health' = "up")
  /\ UNCHANGED <<FailureThreshold, cached, stored, lost>>

(* Mutant: the comparison is strict, and the capped count never gets there. *)
ThresholdExceeded(c) == c > FailureThreshold

ThresholdReached(c) == c = FailureThreshold

OnFailure ==
  /\ ~pending
  /\ streak' = Seen("failure")
  /\ \/ /\ health = "down"
        /\ failureCount' = FailureThreshold
        /\ UNCHANGED <<health, pending>>
     \/ /\ health = "up"
        /\ failureCount' = IF failureCount < FailureThreshold
                             THEN failureCount + 1 ELSE failureCount
        /\ health' = IF ThresholdReached(failureCount') THEN "down" ELSE "up"
        /\ pending' = (health' = "down")
  /\ UNCHANGED <<FailureThreshold, cached, stored, lost>>

(* updateService on a changed config: only the threshold matters here.  The *)
(* entry in the repository is rewritten with the current health state.      *)
Assign(t) ==
  /\ FailureThreshold' = t
  /\ Store
  /\ UNCHANGED <<health, failureCount, pending, streak>>

(* The entries of the service's group are saved on behalf of another one;   *)
(* the store writes all that it has cached of the group.                    *)
OtherSave ==
  /\ \/ /\ stored' = cached
        /\ UNCHANGED lost
     \/ /\ stored' = Gone
        /\ lost' = TRUE
  /\ UNCHANGED <<health, failureCount, FailureThreshold, pending, cached, streak>>

(* LoadAll replaces what is cached by what the file has. *)
LoadAll ==
  /\ stored # Gone
  /\ cached' = stored
  /\ UNCHANGED <<health, failureCount, FailureThreshold, pending, stored, streak, lost>>

(* What a new process may find: OnShutdown, which runs when the checks have *)
(* ended, has saved the current state; or it has not, or there was a crash, *)
(* and the file has what was written last, or was just being written.       *)
Survives(t) ==
  LET fresh == GSLBService("down", t) IN
  {IF stored = Gone THEN fresh ELSE stored, fresh}
    \cup IF pending THEN {} ELSE {GSLBService(health, failureCount)}

(* The operator restarts and registers the service from its entry. *)
Restart(t, entry) ==
  /\ health' = entry.health
  /\ failureCount' = entry.failureCount
  /\ FailureThreshold' = t
  /\ pending' = FALSE
  /\ cached' = entry
  /\ stored' = entry
  /\ streak' = NoResult
  /\ lost' = FALSE

Next ==
  \/ OnSuccess
  \/ OnFailure
  \/ HealthChange
  \/ \E t \in Thresholds : Assign(t)
  \/ OtherSave
  \/ LoadAll
  \/ \E t \in Thresholds : \E entry \in Survives(t) : Restart(t, entry)

Spec == Init /\ [][Next]_vars

(* The same service while its failureThreshold is never edited. *)
SteadyNext == Next /\ FailureThreshold' = FailureThreshold

SteadySpec == Init /\ [][SteadyNext]_vars

-----------------------------------------------------------------------------
(* The counter seen as the window of HealthWindow: upwards it counts the    *)
(* failures of a healthy service, downwards the successes of an unhealthy   *)
(* one.                                                                     *)
Run(h, c) == IF h = "up" THEN c ELSE InitialThreshold - c

Copy(entry) ==
  IF entry = Gone THEN <<"down", 0>>
                  ELSE <<entry.health, Run(entry.health, entry.failureCount)>>

HW == INSTANCE HealthWindow WITH
        Threshold <- InitialThreshold,
        state <- health,
        run <- Run(health, failureCount),
        copies <- {Copy(cached), Copy(stored)}

(* While the threshold is not edited, OnSuccess and OnFailure change the    *)
(* health state exactly at the FailureThreshold-th consecutive contrary     *)
(* check, counted since the last agreeing one or, after a restart, since    *)
(* what some copy of the entry had counted.                                 *)
Window == HW!Spec

TypeOK ==
  /\ health \in Health
  /\ failureCount \in Nat
  /\ FailureThreshold \in Thresholds
  /\ pending \in BOOLEAN
  /\ cached \in [health : Health, failureCount : Nat]
  /\ stored \in [health : Health, failureCount : Nat] \cup {Gone}
  /\ streak \in [kind : {"none", "success", "failure"}, n : 0 .. MaxStreak]
  /\ lost \in BOOLEAN

(* An unhealthy service, in memory and in the repository, still owes at     *)
(* least one successful check: neither a threshold edit nor a restart from  *)
(* a stored count ever leaves a service that is unhealthy with nothing left *)
(* to prove.                                                                *)
UnhealthyOwesSuccess ==
  /\ health = "down" => failureCount > 0
  /\ cached.health = "down" => cached.failureCount > 0
  /\ stored.health = "down" => stored.failureCount > 0

(* Outside of a health-change callback that has not got to its write        *)
(* (manager.go:158), and as long as no write has failed, a crash finds the  *)
(* current health flag in the file: whatever reloads, writes on behalf of   *)
(* other services and edits came in between, none brings an older flag      *)
(* back, and a dead service does not come back as healthy or the reverse.   *)
HealthPersisted == ~pending /\ ~lost => stored.health = health

(* The inductive form: the cached flag is the current one then, too. *)
CopiesAreCurrent ==
  ~pending /\ ~lost => stored.health = health /\ cached.health = health

(* The number of failed checks since the last success. *)
Fails == IF streak.kind = "failure" THEN streak.n ELSE 0

(* "Number of consecutive failures before marking unhealthy" (crd.yaml:66): *)
(* a failed check that completes a run of FailureThreshold failures leaves  *)
(* the service down.                                                        *)
DownAtThreshold ==
  [][Fails' > Fails /\ Fails' >= FailureThreshold => health' = "down"]_vars

(* The count that a health state allows, in memory and in a copy. *)
InWindow(h, c) == c \in IF h = "up" THEN 0 .. InitialThreshold - 1
                                    ELSE 1 .. InitialThreshold

(* The inductive invariant of SteadySpec behind Window. *)
CountInWindow ==
  /\ FailureThreshold = InitialThreshold
  /\ InWindow(health, failureCount)
  /\ InWindow(cached.health, cached.failureCount)
  /\ stored # Gone => InWindow(stored.health, stored.failureCount)
  /\ health = "up" => Fails <= failureCount
=============================================================================
