---------------------------- MODULE HealthWindow ----------------------------
(***************************************************************************)
(* What the health state of one service promises, stated without the       *)
(* counter that implements it: a service changes between up and down after *)
(* Threshold consecutive results that contradict its current state, and    *)
(* any result that agrees with that state restarts the count.  The results *)
(* themselves are visible in streak, and copies of state and count, saved  *)
(* at some time, are what a restarted service resumes from.                *)
(***************************************************************************)
EXTENDS Naturals

CONSTANTS
  Threshold,   \* a positive number of checks
  MaxStreak    \* cap on the length of a streak

VARIABLES
  state,    \* "up" or "down"
  run,      \* consecutive results against the state seen so far
  copies,   \* saved pairs of state and run
  streak    \* the last equal results: their kind and number

Other(s) == IF s = "up" THEN "down" ELSE "up"

vars == <<state, run, copies, streak>>

NoResult == [kind |-> "none", n |-> 0]

Fresh == <<"down", 0>>

(* A new service is down until Threshold checks in a row have succeeded. *)
Init ==
  /\ state = "down"
  /\ run = 0
  /\ copies = {Fresh}
  /\ streak = NoResult

(* A check result is one more of the streak or begins a new one. *)
Result(kind) ==
  streak' = [kind |-> kind,
             n |-> IF streak.kind # kind THEN 1
                   ELSE IF streak.n < MaxStreak THEN streak.n + 1 ELSE streak.n]

(* A result that agrees with the current state. *)
Agree ==
  /\ Result(IF state = "up" THEN "success" ELSE "failure")
  /\ run' = 0
  /\ UNCHANGED <<state, copies>>

(* A contrary result: the Threshold-th one in a row changes the state. *)
Contradict ==
  /\ Result(IF state = "up" THEN "failure" ELSE "success")
  /\ \/ /\ run + 1 < Threshold
        /\ run' = run + 1
        /\ UNCHANGED state
     \/ /\ run + 1 = Threshold
        /\ run' = 0
        /\ state' = Other(state)
  /\ UNCHANGED copies

(* State and count are copied, or copies are lost. *)
Save ==
  /\ copies' \in SUBSET (copies \cup {<<state, run>>, Fresh})
  /\ UNCHANGED <<state, run, streak>>

(* A restart, from a copy made now or earlier, or as a new service. *)
Resume ==
  \E c \in copies \cup {<<state, run>>, Fresh} :
    /\ state' = c[1]
    /\ run' = c[2]
    /\ copies' = {c}
    /\ streak' = NoResult

Next == Agree \/ Contradict \/ Save \/ Resume

Spec == Init /\ [][Next]_vars
=============================================================================
