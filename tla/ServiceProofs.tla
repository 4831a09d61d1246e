---------------------------- MODULE ServiceProofs ----------------------------
(***************************************************************************)
(* Proofs about Service for every set of thresholds.                       *)
(***************************************************************************)
EXTENDS Service, TLAPS

(* What a store, failed or not, leaves in cache and file. *)
LEMMA StoreCases ==
  ASSUME Store
  PROVE  /\ cached' \in {cached, GSLBService(health, failureCount)}
         /\ stored' \in {stored, Gone, GSLBService(health, failureCount)}
         /\ lost' \in BOOLEAN
         /\ ~lost' => /\ cached' = GSLBService(health, failureCount)
                      /\ stored' = GSLBService(health, failureCount)
BY DEF Store

(* What a new process may find. *)
LEMMA SurvivesCases ==
  ASSUME NEW t, NEW entry \in Survives(t)
  PROVE  \/ entry = stored /\ stored # Gone
         \/ entry = GSLBService("down", t)
         \/ entry = GSLBService(health, failureCount)
BY DEF Survives

(* The next result is a result and its number is bounded. *)
LEMMA SeenType ==
  ASSUME MaxStreak \in Nat \ {0},
         streak \in [kind : {"none", "success", "failure"}, n : 0 .. MaxStreak],
         NEW kind \in {"success", "failure"}
  PROVE  Seen(kind) \in [kind : {"none", "success", "failure"}, n : 0 .. MaxStreak]
BY DEF Seen

(* The health states of Service are well typed under checks, threshold     *)
(* edits, failing writes and restarts.                                     *)
THEOREM TypeCorrect == Spec => []TypeOK
<1>1. Init => TypeOK
  <2> SUFFICES ASSUME Init PROVE TypeOK
    OBVIOUS
  <2> USE ServiceAssumption DEF Init
  <2>1. InitialCount \in Nat /\ FailureThreshold \in Thresholds
    BY DEF InitialCount
  <2>2. /\ health \in Health
        /\ failureCount \in Nat
        /\ cached \in [health : Health, failureCount : Nat]
        /\ stored \in [health : Health, failureCount : Nat]
    BY <2>1 DEF Health, GSLBService
  <2>3. streak \in [kind : {"none", "success", "failure"}, n : 0 .. MaxStreak]
    BY DEF NoResult
  <2> QED
    BY <2>1, <2>2, <2>3, Zenon DEF TypeOK
<1>2. TypeOK /\ [Next]_vars => TypeOK'
  <2> SUFFICES ASSUME TypeOK, [Next]_vars PROVE TypeOK'
    OBVIOUS
  <2> USE ServiceAssumption
  <2>0. GSLBService(health, failureCount) \in [health : Health, failureCount : Nat]
    BY DEF TypeOK, GSLBService
  <2>1. CASE OnSuccess
    <3>1. health' \in Health /\ failureCount' \in Nat
      BY <2>1 DEF TypeOK, OnSuccess, Health, CountReset
    <3>2. pending' \in BOOLEAN
      BY <2>1, Zenon DEF TypeOK, OnSuccess
    <3>3. streak' \in [kind : {"none", "success", "failure"}, n : 0 .. MaxStreak]
      BY <2>1, SeenType DEF TypeOK, OnSuccess
    <3> QED
      BY <2>1, <3>1, <3>2, <3>3 DEF TypeOK, OnSuccess
  <2>2. CASE OnFailure
    <3>1. health' \in Health /\ failureCount' \in Nat
      BY <2>2 DEF TypeOK, OnFailure, Health
    <3>2. pending' \in BOOLEAN
      BY <2>2, Zenon DEF TypeOK, OnFailure
    <3>3. streak' \in [kind : {"none", "success", "failure"}, n : 0 .. MaxStreak]
      BY <2>2, SeenType DEF TypeOK, OnFailure
    <3> QED
      BY <2>2, <3>1, <3>2, <3>3 DEF TypeOK, OnFailure
  <2>3. CASE HealthChange
    BY <2>0, <2>3, StoreCases DEF TypeOK, HealthChange
  <2>4. ASSUME NEW t \in Thresholds, Assign(t) PROVE TypeOK'
    BY <2>0, <2>4, StoreCases DEF TypeOK, Assign
  <2>5. CASE OtherSave
    BY <2>5 DEF TypeOK, OtherSave
  <2>6. CASE LoadAll
    BY <2>6 DEF TypeOK, LoadAll
  <2>7. ASSUME NEW t \in Thresholds, NEW entry \in Survives(t), Restart(t, entry)
        PROVE  TypeOK'
    <3>1. entry \in [health : Health, failureCount : Nat]
      <4>1. GSLBService("down", t) \in [health : Health, failureCount : Nat]
        BY DEF GSLBService, Health
      <4> QED
        BY <4>1, <2>0, SurvivesCases DEF TypeOK
    <3>2. NoResult \in [kind : {"none", "success", "failure"}, n : 0 .. MaxStreak]
      BY DEF NoResult
    <3> QED
      BY <2>7, <3>1, <3>2 DEF TypeOK, Restart
  <2>8. CASE UNCHANGED vars
    BY <2>8 DEF TypeOK, vars
  <2> QED
    BY <2>1, <2>2, <2>3, <2>4, <2>5, <2>6, <2>7, <2>8 DEF Next
<1> QED
  BY <1>1, <1>2, PTL DEF Spec

(* An unhealthy service always owes a successful check.  A failed check     *)
(* sets the count to the threshold, which is positive; the last success     *)
(* that clears it also makes the service healthy.                           *)
THEOREM OwesSuccess == Spec => []UnhealthyOwesSuccess
<1>1. Init => UnhealthyOwesSuccess
  BY ServiceAssumption DEF Init, UnhealthyOwesSuccess, GSLBService, InitialCount
<1>2. TypeOK /\ UnhealthyOwesSuccess /\ [Next]_vars => UnhealthyOwesSuccess'
  <2> SUFFICES ASSUME TypeOK, UnhealthyOwesSuccess, [Next]_vars
               PROVE  UnhealthyOwesSuccess'
    OBVIOUS
  <2> USE ServiceAssumption DEF UnhealthyOwesSuccess, TypeOK, Health
  <2>1. CASE OnSuccess
    BY <2>1 DEF OnSuccess
  <2>2. CASE OnFailure
    BY <2>2 DEF OnFailure, ThresholdReached
  <2>3. CASE HealthChange
    BY <2>3, StoreCases DEF HealthChange, GSLBService, Gone
  <2>4. ASSUME NEW t \in Thresholds, Assign(t) PROVE UnhealthyOwesSuccess'
    BY <2>4, StoreCases DEF Assign, GSLBService, Gone
  <2>5. CASE OtherSave
    BY <2>5 DEF OtherSave, Gone
  <2>6. CASE LoadAll
    BY <2>6 DEF LoadAll
  <2>7. ASSUME NEW t \in Thresholds, NEW entry \in Survives(t), Restart(t, entry)
        PROVE  UnhealthyOwesSuccess'
    <3>1. t > 0
      OBVIOUS
    <3>2. entry.health = "down" => entry.failureCount > 0
      BY <3>1, SurvivesCases DEF GSLBService
    <3> QED
      BY <2>7, <3>2 DEF Restart
  <2>8. CASE UNCHANGED vars
    BY <2>8 DEF vars
  <2> QED
    BY <2>1, <2>2, <2>3, <2>4, <2>5, <2>6, <2>7, <2>8 DEF Next
<1> QED
  BY <1>1, <1>2, TypeCorrect, PTL DEF Spec

(* Whatever the threshold edits, reloads, writes for other services and     *)
(* restarts, a crash after the callback's write finds the current health    *)
(* flag in the file unless a write has failed.  The cached flag is current  *)
(* as well, so that neither a reload nor a write for another service does   *)
(* any harm.                                                                *)
THEOREM Persisted == Spec => []HealthPersisted
<1>1. Init => CopiesAreCurrent
  BY DEF Init, CopiesAreCurrent, GSLBService
<1>2. TypeOK /\ CopiesAreCurrent /\ [Next]_vars => CopiesAreCurrent'
  <2> SUFFICES ASSUME TypeOK, CopiesAreCurrent, [Next]_vars PROVE CopiesAreCurrent'
    OBVIOUS
  <2> USE DEF CopiesAreCurrent, TypeOK, Health
  <2>1. CASE OnSuccess
    BY <2>1 DEF OnSuccess
  <2>2. CASE OnFailure
    BY <2>2 DEF OnFailure, ThresholdReached
  <2>3. CASE HealthChange
    BY <2>3, StoreCases DEF HealthChange, GSLBService
  <2>4. ASSUME NEW t \in Thresholds, Assign(t) PROVE CopiesAreCurrent'
    BY <2>4, StoreCases DEF Assign, GSLBService
  <2>5. CASE OtherSave
    BY <2>5 DEF OtherSave
  <2>6. CASE LoadAll
    BY <2>6 DEF LoadAll
  <2>7. ASSUME NEW t \in Thresholds, NEW entry \in Survives(t), Restart(t, entry)
        PROVE  CopiesAreCurrent'
    BY <2>7 DEF Restart
  <2>8. CASE UNCHANGED vars
    BY <2>8 DEF vars
  <2> QED
    BY <2>1, <2>2, <2>3, <2>4, <2>5, <2>6, <2>7, <2>8 DEF Next
<1>3. CopiesAreCurrent => HealthPersisted
  BY DEF CopiesAreCurrent, HealthPersisted
<1> QED
  BY <1>1, <1>2, <1>3, TypeCorrect, PTL DEF Spec

-----------------------------------------------------------------------------
(* The same service without threshold edits. *)

(* A service whose threshold nobody edits is a service. *)
LEMMA SteadyImpliesSpec == SteadySpec => []TypeOK
<1>1. [SteadyNext]_vars => [Next]_vars
  BY DEF SteadyNext
<1> QED
  BY <1>1, TypeCorrect, PTL DEF SteadySpec, Spec

(* The count stays inside the window its health state allows, and a healthy *)
(* service has counted every failure of the current run.                    *)
THEOREM SteadyCount == SteadySpec => []CountInWindow
<1>1. Init => CountInWindow
  BY ServiceAssumption
  DEF Init, CountInWindow, InWindow, Fails, GSLBService, InitialCount, NoResult
<1>2. TypeOK /\ CountInWindow /\ [SteadyNext]_vars => CountInWindow'
  <2> SUFFICES ASSUME TypeOK, CountInWindow, [SteadyNext]_vars PROVE CountInWindow'
    OBVIOUS
  <2> USE ServiceAssumption DEF CountInWindow, TypeOK, Health
  <2>1. CASE SteadyNext /\ OnSuccess
    BY <2>1 DEF OnSuccess, SteadyNext, CountReset, InWindow, Seen, Fails
  <2>2. CASE SteadyNext /\ OnFailure
    BY <2>2 DEF OnFailure, ThresholdReached, SteadyNext, InWindow, Seen, Fails
  <2>3. CASE SteadyNext /\ HealthChange
    BY <2>3, StoreCases DEF HealthChange, GSLBService, SteadyNext, Fails
  <2>4. ASSUME SteadyNext, NEW t \in Thresholds, Assign(t) PROVE CountInWindow'
    BY <2>4, StoreCases DEF Assign, GSLBService, SteadyNext, Fails
  <2>5. CASE SteadyNext /\ OtherSave
    BY <2>5 DEF OtherSave, SteadyNext, Fails
  <2>6. CASE SteadyNext /\ LoadAll
    BY <2>6 DEF LoadAll, SteadyNext, Fails
  <2>7. ASSUME SteadyNext, NEW t \in Thresholds, NEW entry \in Survives(t),
               Restart(t, entry)
        PROVE  CountInWindow'
    <3>1. t = InitialThreshold
      BY <2>7 DEF Restart, SteadyNext
    <3>2. InWindow(entry.health, entry.failureCount)
      BY <3>1, SurvivesCases DEF GSLBService, InWindow
    <3>3. Fails' = 0
      BY <2>7 DEF Restart, Fails, NoResult
    <3>4. entry.health = "up" => 0 <= entry.failureCount
      BY <3>2 DEF InWindow
    <3> QED
      BY <2>7, <3>1, <3>2, <3>3, <3>4 DEF Restart
  <2>8. CASE UNCHANGED vars
    BY <2>8 DEF vars, Fails
  <2> QED
    BY <2>1, <2>2, <2>3, <2>4, <2>5, <2>6, <2>7, <2>8 DEF SteadyNext, Next
<1> QED
  BY <1>1, <1>2, SteadyImpliesSpec, PTL DEF SteadySpec

(* With an unedited threshold the failure that completes a run of           *)
(* FailureThreshold failures takes the service down (service.go:210-225).   *)
THEOREM SteadyDownAtThreshold == SteadySpec => DownAtThreshold
<1>1. TypeOK /\ CountInWindow /\ [SteadyNext]_vars =>
        [Fails' > Fails /\ Fails' >= FailureThreshold => health' = "down"]_vars
  <2> SUFFICES ASSUME TypeOK, CountInWindow, SteadyNext,
                      Fails' > Fails, Fails' >= FailureThreshold
               PROVE  health' = "down"
    OBVIOUS
  <2> USE ServiceAssumption DEF CountInWindow, TypeOK, Health
  <2>1. CASE OnSuccess
    BY <2>1 DEF OnSuccess, Seen, Fails
  <2>2. CASE OnFailure
    BY <2>2 DEF OnFailure, ThresholdReached, InWindow, Seen, Fails
  <2>3. CASE UNCHANGED streak
    BY <2>3 DEF Fails
  <2>4. ASSUME NEW t \in Thresholds, NEW entry \in Survives(t), Restart(t, entry)
        PROVE  health' = "down"
    BY <2>4 DEF Restart, Fails, NoResult
  <2> QED
    BY <2>1, <2>2, <2>3, <2>4 DEF SteadyNext, Next, HealthChange, Assign, OtherSave, LoadAll
<1> QED
  BY <1>1, SteadyCount, SteadyImpliesSpec, PTL DEF SteadySpec, DownAtThreshold

(* The counter implements the window: OnSuccess and OnFailure are Agree or  *)
(* Contradict depending on the health state, a write or a reload is Save, a *)
(* restart is Resume.                                                       *)
THEOREM SteadyRefinesWindow == SteadySpec => Window
<1>1. Init => HW!Init
  BY ServiceAssumption
  DEF Init, HW!Init, InitialCount, Run, Copy, Gone, GSLBService, HW!Fresh, HW!NoResult, NoResult
<1>2. TypeOK /\ CountInWindow /\ [SteadyNext]_vars => [HW!Next]_(HW!vars)
  <2> SUFFICES ASSUME TypeOK, CountInWindow, [SteadyNext]_vars
               PROVE  [HW!Next]_(HW!vars)
    OBVIOUS
  <2> USE ServiceAssumption DEF CountInWindow, TypeOK, Health
  <2> DEFINE Copies == {Copy(cached), Copy(stored)}
             Now == <<health, Run(health, failureCount)>>
  <2>0. /\ Copy(GSLBService(health, failureCount)) = Now
        /\ Copy(Gone) = HW!Fresh
    BY DEF Copy, GSLBService, Gone, HW!Fresh
  <2>1. CASE OnSuccess
    <3>0. UNCHANGED Copies
      BY <2>1 DEF OnSuccess
    <3>1. CASE health = "up"
      BY <2>1, <3>0, <3>1
      DEF OnSuccess, CountReset, Run, Seen, HW!Next, HW!Agree, HW!Result
    <3>2. CASE health = "down"
      BY <2>1, <3>0, <3>2
      DEF OnSuccess, InWindow, Run, Seen, HW!Next, HW!Contradict, HW!Other, HW!Result
    <3> QED
      BY <3>1, <3>2
  <2>2. CASE OnFailure
    <3>0. UNCHANGED Copies
      BY <2>2 DEF OnFailure
    <3>1. CASE health = "up"
      BY <2>2, <3>0, <3>1
      DEF OnFailure, ThresholdReached, InWindow, Run, Seen,
          HW!Next, HW!Contradict, HW!Other, HW!Result
    <3>2. CASE health = "down"
      BY <2>2, <3>0, <3>2
      DEF OnFailure, InWindow, Run, Seen, HW!Next, HW!Agree, HW!Result
    <3> QED
      BY <3>1, <3>2
  <2>3. ASSUME UNCHANGED <<health, failureCount, streak>>,
               Copies' \subseteq Copies \cup {Now, HW!Fresh}
        PROVE  HW!Next
    BY <2>3 DEF HW!Next, HW!Save, Run
  <2>4. ASSUME Store, UNCHANGED <<health, failureCount, streak>> PROVE HW!Next
    <3>1. Copy(cached)' \in {Copy(cached), Now}
      BY <2>0, <2>4, StoreCases DEF Copy
    <3>2. Copy(stored)' \in {Copy(stored), HW!Fresh, Now}
      BY <2>0, <2>4, StoreCases DEF Copy
    <3> QED
      BY <2>3, <2>4, <3>1, <3>2
  <2>5. CASE HealthChange
    BY <2>4, <2>5 DEF HealthChange
  <2>6. ASSUME NEW t \in Thresholds, Assign(t) PROVE HW!Next
    BY <2>4, <2>6 DEF Assign
  <2>7. CASE OtherSave
    <3>1. Copy(stored)' \in {Copy(cached), HW!Fresh} /\ Copy(cached)' = Copy(cached)
      BY <2>0, <2>7 DEF OtherSave, Copy
    <3> QED
      BY <2>3, <2>7, <3>1 DEF OtherSave
  <2>8. CASE LoadAll
    BY <2>3, <2>8 DEF LoadAll
  <2>9. ASSUME SteadyNext, NEW t \in Thresholds, NEW entry \in Survives(t),
               Restart(t, entry)
        PROVE  HW!Next
    <3>1. t = InitialThreshold
      BY <2>9 DEF Restart, SteadyNext
    <3>2. Copy(entry) \in Copies \cup {Now, HW!Fresh}
      <4>1. Copy(GSLBService("down", t)) = HW!Fresh
        BY <3>1 DEF Copy, Gone, GSLBService, Run, HW!Fresh
      <4> QED
        BY <2>0, <4>1, SurvivesCases
    <3>3. entry # Gone
      <4>1. GSLBService("down", t) # Gone /\ GSLBService(health, failureCount) # Gone
        BY DEF Gone, GSLBService
      <4> QED
        BY <4>1, SurvivesCases
    <3>4. Copies' = {Copy(entry)}
      BY <2>9 DEF Restart, Copy
    <3>5. health' = Copy(entry)[1] /\ Run(health, failureCount)' = Copy(entry)[2]
      BY <2>9, <3>3 DEF Restart, Copy, Run
    <3>6. streak' = HW!NoResult
      BY <2>9 DEF Restart, NoResult, HW!NoResult
    <3>7. HW!Resume
      BY <3>2, <3>4, <3>5, <3>6 DEF HW!Resume
    <3> QED
      BY <3>7 DEF HW!Next
  <2>10. CASE UNCHANGED vars
    BY <2>10 DEF vars, HW!vars, Run, Copy
  <2> QED
    BY <2>1, <2>2, <2>5, <2>6, <2>7, <2>8, <2>9, <2>10 DEF SteadyNext, Next
<1> QED
  BY <1>1, <1>2, SteadyCount, SteadyImpliesSpec, PTL DEF SteadySpec, Window, HW!Spec
=============================================================================
