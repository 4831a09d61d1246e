---------------------------- MODULE DnsdistSync ----------------------------
(***************************************************************************)
(* How the spoofs in the repository get onto the dnsdist servers           *)
(* (internal/dns/update/dnsdist.go): the manager's calls on promotions,    *)
(* one server after the other, and once a minute a synchronisation, one    *)
(* goroutine per server, that compares and repairs.  Both work on what     *)
(* they have read before, while the store and the servers go on changing,  *)
(* and every command may fail, with or without having had its effect.      *)
(*                                                                         *)
(* A spoof rule is the pair of its name (MemberOf:Datacenter) and its IP.  *)
(***************************************************************************)
EXTENDS Naturals, Sequences, FiniteSets

CONSTANTS
  Servers,   \* the configured dnsdist servers
  Untracked, \* servers modelled only by what they do to the promotions of the
             \* others: a command to them may fail at any time (a bound)
  Names,     \* names of rules
  Hidden,    \* the names that the pattern of ParseRuleSet does not match
  IPs,
  none       \* the spoof of a name none of whose entries is active

(* What holds of every configuration. *)
ConstantsOK ==
  /\ Untracked \subseteq Servers
  /\ Hidden \subseteq Names
  /\ none \notin IPs

VARIABLES
  flagged,   \* the IP of the active entry of each name in the repository
  rules,     \* the spoof rules of each server
  down,      \* servers that do not answer
  calls,     \* DNSUpdate calls the manager has still to finish, in order
  todo,      \* servers the first of these calls has still to contact
  job,       \* the goroutine of each server in synchronizeServers
  quiet,     \* observation: nothing changes and nothing breaks any more
  round      \* observation: servers that answered when a synchronisation
             \* began that nothing disturbs

vars == <<flagged, rules, down, calls, todo, job, quiet, round>>

Rule == Names \X IPs

NamesOf(R) == {r[1] : r \in R}

(* SpoofRepo.ReadAll *)
ReadAll(f) == {<<n, f[n]>> : n \in {m \in Names : f[m] # none}}

Call(up, n, ip) == [up |-> up, name |-> n, ip |-> ip]

(* seen is first the set of spoofs desiredHash stands for, and then the     *)
(* parsed rules of the server.                                              *)
Idle == [pc |-> "done", seen |-> {}, rm |-> {}, add |-> {}]

Init ==
  /\ flagged = [n \in Names |-> none]
  /\ rules = [v \in Servers |-> {}]
  /\ down = {}
  /\ calls = <<>>
  /\ todo = {}
  /\ job = [v \in Servers |-> Idle]
  /\ quiet = FALSE
  /\ round = {}

-----------------------------------------------------------------------------
(* One command to one server.  A server that does not answer may have       *)
(* carried it out before the connection broke (client.command gives up      *)
(* after its retries).                                                      *)

Without(R, n) == {r \in R : r[1] # n}

Having(v, R) == [rules EXCEPT ![v] = IF v \in Untracked THEN {} ELSE R]

Answers(v, R) ==
  /\ v \notin down
  /\ rules' = Having(v, R)

Fails(v, R) ==
  /\ v \in down \cup Untracked
  /\ rules' \in {rules, Having(v, R)}

-----------------------------------------------------------------------------
(* The manager: a promotion writes the store and then calls DNSUpdate for   *)
(* the old and the new service, all of it under sm.mutex.                   *)

Promise(cs) ==
  /\ calls' = cs
  /\ todo' = Servers

Promote(old, new, ip) ==
  /\ ~quiet
  /\ calls = <<>>
  /\ flagged' = [flagged EXCEPT ![old] = none, ![new] = ip]
  /\ Promise(<<Call(FALSE, old, none), Call(TRUE, new, ip)>>)
  /\ UNCHANGED <<rules, down, job, quiet, round>>

FirstUp(n, ip) ==
  /\ ~quiet
  /\ calls = <<>>
  /\ flagged' = [flagged EXCEPT ![n] = ip]
  /\ Promise(<<Call(TRUE, n, ip)>>)
  /\ UNCHANGED <<rules, down, job, quiet, round>>

AllDown(n) ==
  /\ ~quiet
  /\ calls = <<>>
  /\ flagged' = [flagged EXCEPT ![n] = none]
  /\ Promise(<<Call(FALSE, n, none)>>)
  /\ UNCHANGED <<rules, down, job, quiet, round>>

(* Writes to the store that come without a DNSUpdate: the health-change     *)
(* callback and updateService clear IsActive, an override changes the IP.   *)
Rewrite(n, ip) ==
  /\ ~quiet
  /\ flagged[n] \notin {none, ip}
  /\ flagged' = [flagged EXCEPT ![n] = ip]
  /\ UNCHANGED <<rules, down, calls, todo, job, quiet, round>>

(* OnServiceUp and OnServiceDown on the next server of the map. *)
Effect(c, v) == IF c.up THEN rules[v] \cup {<<c.name, c.ip>>} ELSE Without(rules[v], c.name)

NextCall ==
  /\ calls' = Tail(calls)
  /\ todo' = IF Len(calls) = 1 THEN {} ELSE Servers

DNSUpdate(v) ==
  /\ calls # <<>>
  /\ v \in todo
  /\ \/ /\ Answers(v, Effect(Head(calls), v))
        /\ IF todo = {v} THEN NextCall
                         ELSE todo' = todo \ {v} /\ UNCHANGED calls
     \/ /\ Fails(v, Effect(Head(calls), v))    \* the other servers are left out
        /\ NextCall
  /\ UNCHANGED <<flagged, down, job, quiet, round>>

-----------------------------------------------------------------------------
(* synchronizeServers *)

Start(f) == [Idle EXCEPT !.pc = "show", !.seen = ReadAll(f)]

SyncStart ==
  /\ \A v \in Servers : job[v].pc = "done"
  /\ job' = [v \in Servers |-> IF v \in Untracked THEN Idle ELSE Start(flagged)]
  /\ round' = IF quiet /\ calls = <<>> THEN Servers \ (down \cup Untracked) ELSE {}
  /\ UNCHANGED <<flagged, rules, down, calls, todo, quiet>>

(* ParseRuleSet *)
Parsed(R) == {r \in R : r[1] \notin Hidden}

(* Mutant: a server counts as synchronised if it has every desired rule. *)
HasDesired(R, desired) == desired \subseteq R

(* The hashes of the parsed rules and of the repository are the same. *)
SameHash(R, desired) == R = desired

ShowRules(v) ==
  /\ job[v].pc = "show"
  /\ job' = [job EXCEPT ![v] =
               IF v \in down \/ SameHash(Parsed(rules[v]), @.seen)
                 THEN Idle
                 ELSE [@ EXCEPT !.pc = "read", !.seen = Parsed(rules[v])]]
  /\ UNCHANGED <<flagged, rules, down, calls, todo, quiet, round>>

Superfluous(seen, want) == NamesOf(seen) \ NamesOf(want)

(* Mutant: only a server without rules gets the missing ones. *)
MissingOnEmpty(seen, want) == IF seen = {} THEN want ELSE {}

Missing(seen, want) == {r \in want : r[1] \notin NamesOf(seen)}

(* reconcileServer reads the repository again, and compares names. *)
Reconcile(v) ==
  LET want == ReadAll(flagged)
      seen == job[v].seen
  IN  /\ job[v].pc = "read"
      /\ job' = [job EXCEPT ![v] = [pc |-> "apply", seen |-> {},
                                     rm  |-> Superfluous(seen, want),
                                     add |-> Missing(seen, want)]]
      /\ UNCHANGED <<flagged, rules, down, calls, todo, quiet, round>>

RmRule(v) ==
  /\ job[v].pc = "apply"
  /\ \E n \in job[v].rm :
       \/ /\ Answers(v, Without(rules[v], n))
          /\ job' = [job EXCEPT ![v].rm = @ \ {n}]
       \/ /\ Fails(v, Without(rules[v], n))
          /\ job' = [job EXCEPT ![v] = Idle]
  /\ UNCHANGED <<flagged, down, calls, todo, quiet, round>>

AddRule(v) ==
  /\ job[v].pc = "apply"
  /\ job[v].rm = {}
  /\ \E r \in job[v].add :
       \/ /\ Answers(v, rules[v] \cup {r})
          /\ job' = [job EXCEPT ![v].add = @ \ {r}]
       \/ /\ Fails(v, rules[v] \cup {r})
          /\ job' = [job EXCEPT ![v] = Idle]
  /\ UNCHANGED <<flagged, down, calls, todo, quiet, round>>

Reconciled(v) ==
  /\ job[v].pc = "apply"
  /\ job[v].rm = {} /\ job[v].add = {}
  /\ job' = [job EXCEPT ![v] = Idle]
  /\ UNCHANGED <<flagged, rules, down, calls, todo, quiet, round>>

-----------------------------------------------------------------------------
(* The servers.  One that has crashed comes back without rules. *)

ServerDown(v) ==
  /\ ~quiet
  /\ v \notin down \cup Untracked
  /\ down' = down \cup {v}
  /\ rules' \in {rules, [rules EXCEPT ![v] = {}]}
  /\ UNCHANGED <<flagged, calls, todo, job, quiet, round>>

ServerUp(v) ==
  /\ v \in down
  /\ down' = down \ {v}
  /\ UNCHANGED <<flagged, rules, calls, todo, job, quiet, round>>

(* The operator restarts in the middle of whatever it is doing. *)
Restart ==
  /\ ~quiet
  /\ calls' = <<>>
  /\ todo' = {}
  /\ job' = [v \in Servers |-> Idle]
  /\ UNCHANGED <<flagged, rules, down, quiet, round>>

(* From now on the store stays as it is and no further server fails. *)
Settle ==
  /\ ~quiet
  /\ quiet' = TRUE
  /\ UNCHANGED <<flagged, rules, down, calls, todo, job, round>>

-----------------------------------------------------------------------------
Manager ==
  \/ \E old, new \in Names, ip \in IPs : Promote(old, new, ip)
  \/ \E n \in Names, ip \in IPs : FirstUp(n, ip) \/ Rewrite(n, ip)
  \/ \E n \in Names : AllDown(n) \/ Rewrite(n, none)

Synchronize(v) == ShowRules(v) \/ Reconcile(v) \/ RmRule(v) \/ AddRule(v) \/ Reconciled(v)

Next ==
  \/ Manager
  \/ \E v \in Servers : DNSUpdate(v)
  \/ SyncStart
  \/ \E v \in Servers : Synchronize(v)
  \/ \E v \in Servers : ServerDown(v) \/ ServerUp(v)
  \/ Restart
  \/ Settle

(* The ticker of Synchronize keeps ticking, and every command ends: a       *)
(* server that is up answers, and the connection to one that is down breaks *)
(* (the client sets no deadline on a read, so that one that just hangs is   *)
(* outside of this assumption).  A server that is down may stay down.       *)
Fairness ==
  /\ WF_vars(SyncStart)
  /\ WF_vars(\E v \in Servers : DNSUpdate(v))
  /\ \A v \in Servers : WF_vars(Synchronize(v))

Spec == Init /\ [][Next]_vars /\ Fairness

-----------------------------------------------------------------------------
(* The types of the variables; checked as a part of RoundRepairs. *)
TypeOK ==
  /\ flagged \in [Names -> IPs \cup {none}]
  /\ rules \in [Servers -> SUBSET Rule]
  /\ down \subseteq Servers
  /\ calls \in Seq([up : BOOLEAN, name : Names, ip : IPs \cup {none}]) /\ Len(calls) <= 2
  /\ todo \subseteq Servers
  /\ job \in [Servers -> [pc : {"show", "read", "apply", "done"}, seen : SUBSET Rule,
                          rm : SUBSET Names, add : SUBSET Rule]]
  /\ quiet \in BOOLEAN
  /\ round \subseteq Servers

FlaggedNames == NamesOf(ReadAll(flagged))

NamesAgree(v) ==
  /\ FlaggedNames \subseteq NamesOf(rules[v])
  /\ NamesOf(Parsed(rules[v])) \subseteq FlaggedNames

(* One synchronisation is enough: whatever rules a server has been left with *)
(* by promotions cut short, crashes and stale repairs, the first round that  *)
(* runs undisturbed leaves it with the names flagged in the repository and,  *)
(* among those ParseRuleSet can read, no others (one command per difference, *)
(* decided before the first of them is sent).                                *)
RoundRepairs == TypeOK /\ \A v \in round : job[v].pc = "done" => NamesAgree(v)

(* Once the store and the servers are left in peace, every server that      *)
(* answers comes to publish the names flagged in the repository and, among  *)
(* those ParseRuleSet can read, no others: whatever promotions were cut     *)
(* short by a failing server or a restart, whatever stale repair was under  *)
(* way, and whatever other servers never come back.                         *)
NamesConverge == \A v \in Servers \ Untracked : quiet ~> [](v \in down \/ NamesAgree(v))

=============================================================================
