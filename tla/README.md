# gslb-operator: TLA+ specifications

The operator reads service definitions from a DNS zone, checks the health of
the services at intervals, keeps one service of each group in the active role,
and publishes that service's address as a spoof rule on dnsdist servers. This
directory holds TLA+ models of these parts, TLC configurations that check them
on small instances, and TLAPS proofs about all of them.
Paths below are relative to the repository.

## 1. The system and its parts

| Part | State it keeps | Operations | Interacts with |
|---|---|---|---|
| Service health (`internal/service/service.go`) | `isHealthy`, `failureCount`, `FailureThreshold`, priority, group | `OnSuccess`, `OnFailure`, `Assign` | called by checks running on the worker pool; calls back into manager and group |
| Service group (`internal/manager/servicegroup.go`) | members, mode, `active`, `lastActive`, a mutex | `RegisterService`, `RemoveService`, `Update`, `SetGroupMode`, `OnServiceHealthChange`, `GetActive` | calls the manager's `handlePromotion` with every promotion event |
| Services manager (`internal/manager/manager.go`) | groups, registered services, schedulers, a mutex | `RegisterService`, `RemoveService`, `updateService`, `memberOfChanged`, `handlePromotion`, `OnShutdown`, `Stop` | everything |
| Scheduler (`internal/manager/scheduler`) | a heap of entries by next check time, `isRunning`, a stop channel | `ScheduleService`, `RemoveService`, the loop | the manager schedules; ticks put a check on the pool |
| Worker pool (`pkg/pool`) | worker count, minimum, job channel | `Start`, `Put`, `ScaleTo`, `Stop`, the workers | schedulers put, workers run checks |
| Service and spoof repositories (`internal/repositories`) | one list of entries per group, with `IsActive`, `IsHealthy`, `IP`, `HasOverride` | `Create`, `Update`, `UpdateOverride`, `RemoveOverrideFlag`, `Delete`, `GetActive`, `ReadAll`, `Hash` | manager and API write, the updater reads |
| Override API (`internal/api/handlers/spoofs/overrides.go`) | nothing of its own | POST, PUT and DELETE of an override | repository; manager for the active service |
| dnsdist updater (`internal/dns/update/dnsdist.go`) | the clients of the servers | `OnServiceUp`, `OnServiceDown`, `Synchronize` | repository, servers |
| dnsdist console client (`pkg/dnsdist`) | a connection and its nonces | `command` with retries and reconnection | a server |
| Zone fetcher and DNS handler (`internal/dns`) | a channel of one batch, `knownServices` | AXFR polling, `handleZoneUpdates`, `Stop` | name server; manager |
| File store (`pkg/persistence/store/file`) | a cache and a JSON file | `Save`, `Load`, `LoadAll`, `Delete` | repositories |
| Memory store (`pkg/persistence/store/memory`) | a map | the same | tests only |
| Checks, Lua, REST updater, HTTP API and middleware, tokens, configuration, metrics | little or none | I/O | |

What is hard about it:

* Concurrency. The zone handler, the scheduler loops, the checks on the pool,
  the API handlers and the synchronisation all run at once, share the manager,
  the groups, the repository and the slices it has cached, and take the
  manager's and the groups' mutexes in different orders.
* State read and used later: the entry a loop has peeked at, the entry an API
  handler has read, the rules and spoofs a synchronisation compares.
* Failure: servers that fail in the middle of a promotion, connections that
  break in the middle of a handshake, commands whose answers are lost, transfers
  that break off, writes that leave half a file, crashes and restarts that bring
  back what the store holds.
* Two records of the same fact. The active service of a group is a field of the
  group, a flag in the repository and a rule on every server, and each is
  written by several routines.

What makes each part correct: the health state follows the last
`FailureThreshold` results; the active role is with the best healthy member and
its moves are announced; the repository flags only that member and only while
healthy; every registered service is on one queue and no service is lost by the
loop; the pool keeps its minimum and lets nobody wait for ever; servers converge
to the flagged names; a command that is reported as done was done, and a client
finds its way back to a server; what a repository call has saved is in the file;
an override is not undone from aside; the registered services converge to the
zone.

## 2. Modules

| Module | Models | Built on |
|---|---|---|
| `HealthWindow` | what a service's health promises, without a counter (abstract) | |
| `Service` | health state and its copies in cache and file, with failing writes and restarts | refines `HealthWindow` |
| `GroupOps` | the methods of a group as operators from a group to the set of outcomes | |
| `ServiceGroup` | one group under every sequence of calls | `GroupOps` |
| `Manager` | groups, repository, queues and rules under the manager's calls, synchronisation, shutdowns and crashes | `GroupOps` |
| `Callbacks` | the calls on one group in their parts, overlapping, with both mutexes | `GroupOps` |
| `Scheduler` | one scheduler loop, step by step, against the manager | |
| `WorkerPool` | the pool, step by step | |
| `DnsdistSync` | promotions and synchronisation command by command, with failing servers | |
| `ConsoleClient` | one client and the console it talks to, with failing connections | |
| `Slices` | what a deletion leaves of a list of entries | |
| `RepoStore` | repository calls in their parts over the file store | `Slices` |
| `Overrides` | the entries of one group under API requests, the manager, `OnShutdown` and restarts | `Slices` |
| `ZoneSync` | zone, fetcher, channel and handler | |
| `MCManager`, `MCCallbacks`, `MCRepoStore` | constants, symmetry and view for TLC | the module they are named after |
| `MCWorkerPool`, `MCDnsdistSync`, `MCOverrides` | an instance of the module, what is assumed of its constants, and a name for each property, which the run and the proofs share | the module they are named after |
| `ServiceProofs`, `ServiceGroupProofs`, `ManagerProofs`, `CallbacksProofs`, `ZoneSyncProofs` | theorems | the module they are named after |
| `SchedulerProofs` | theorems | `Scheduler`, `MCWorkerPool` |
| `ConsoleClientProofs` | theorems | `ConsoleClient`, `MCDnsdistSync` |
| `RepositoryProofs` | theorems | `RepoStore`, `MCOverrides` |

Definitions carry the names of the Go functions where there is one;
`PROJECT.json` gives the lines each definition stands for. A definition that a
comment calls a mutant is a plausible bug in the definition that follows it. It
is used by no specification, and serves to show that a property can fail: with
the mutant in place of the original TLC finds the property violated. Where a
module's `TypeOK` is not listed in its cfg, it is a conjunct of one of the
invariants that are.

### Service

One service and the health part of its repository entry, once in the cache of the
file store and once in the file. `OnSuccess` and `OnFailure` are the two methods;
they set the flag and call the callback, whose write (`manager.go:158`) is a step
of its own, `HealthChange`. A write may fail, which the callback only logs, before
or after the cached entry was changed, and may leave the file as it was or without
the entry (`Store`). `OtherSave` is a save of the group on behalf of another
service, which writes what is cached of this one; `LoadAll` reads the file into the
cache. `Assign` is an edit of the threshold in the zone, `Restart` a new process,
from what a shutdown saved, what the file has, or nothing. `streak` only observes
the last equal results, capped at `MaxStreak`, and `lost` that a write has failed.
Checks of one service do not overlap. `SteadySpec` is the same without edits of the
threshold. `HealthWindow` sees the results in `streak` and counts the contrary ones
in a row; what it resumes from after a restart is a copy that was made, or nothing.

### GroupOps and ServiceGroup

A group is a record of the fields of the Go struct. `Members` is a set: the code
sorts it on every update, and members of one priority are ordered by measured
roundtrip times, so "the first healthy member" is any healthy member of the best
priority. `mu` tells how a call has left the mutex: `OnServiceHealthChange`
returns with it locked whenever the change needs no promotion (falling out of the
switch at line 138, line 164, and out of the `if` at line 192), which is `Leak`.
`nil` dereferences are `Panic`. Health changes on a group whose mutex is kept are
`HealthChangeBlocks`.

### Manager

The whole of `manager.go` with the repository (without overrides), the queues of
the schedulers and the rules on the servers as sets. A call of the zone handler or
of a callback is one step, `handlePromotion` included, with its early returns when
an entry is missing (`Swap`, `FirstUp`, `AllDown`); shutdowns and crashes come
between the calls. A call that waits for a mutex which nobody will release is
recorded in `stuck`: "manager" for `RegisterService`, which then holds `sm.mutex`
for ever, "zone" for the handler, "panic" for a callback into a group that was
deleted. Of the store's failing writes the module has the two of `memberOfChanged`,
which returns with `sm.mutex` locked (`ChangeGroupFails`, `manager.go:294`). The
others are logged, and end the call or not (`manager.go:158`, `:262`, `:375-387`,
`:413`, `:430`); section 5 says what they leave. `Configs` gives the groups and
priorities that the zone may assign to each service. Intervals are named by the
priority they belong to.

A removed service may stay on a queue and go on calling back: a promotion that its
removal raises puts it back, and `Scheduler.RemoveService` may have found an older,
marked entry and left the live one (`Remove` chooses). `RegisterService` looks in
`scheduledServices` alone, and so the ID can be registered again next to the object
that is still checked, or still the `active` or `lastActive` of a group. The model
takes that step and records it in `twins`. From there on the manager's lookups by
ID mix up two objects; the model has one state per ID, does not follow, and claims
nothing about those states (section 5).

### Scheduler

Times are abstracted to their order: the heap is a sequence, the first `due` of
its entries have come. The loop's steps are those between two acquisitions of the
lock or two looks at a channel. `exiting` is the loop between its return and the
deferred function that clears `isRunning`. `wanted` observes what the manager has
asked for, `missed` whether a service was scheduled in that moment.

### Callbacks

One group whose members do not change, and the calls on it that may overlap: a
callback per member, an `Update` by the zone handler, a `GetActiveForMemberOf` by
the API. A callback is cut where the code releases `sg.mu`, waits for a mutex or
reads `sg.active` without one: the health change itself, the store
(`manager.go:158`), the part of `OnServiceHealthChange` under the mutex, the search
for a successor, the reading of `sg.active` for the event (ActiveActive only), the
promotion and the assignment of `sg.active`. `mu` and `sm` are the holders of the
two mutexes between steps, `lost` a mutex that a callback has kept. `order` observes
the promotions decided and not yet handled, `overtaken` that one was handled out of
turn, `overlapped` whose calls met another one's. A manager that waits for its own
mutex (`manager.go:183`, `:294`) is a matter of `Manager`: registrations and moves
are no calls of this module, and `CallbackEnds` assumes that there is none.

### WorkerPool

Workers and jobs are counted. `Put` is check, scale, grow and send, `ScaleTo` and
`Start` compute a number of workers and start them one by one. The pool is stopped
the way `ServicesManager.Stop` stops it: `SchedulersWaited` is the return of
`wg.Wait`, then come the steps of the pool's `Stop`. Workers run on in between, and
the callback of a job may start a scheduler (`StartLoop`); a putter that is started
after the wait is in `late`.

### DnsdistSync

`flagged` is what the repository says, `rules` what each server has. `DNSUpdate`
works through the manager's calls server by server and gives up at the first that
fails; `SyncStart`, `ShowRules`, `Reconcile`, `RmRule`, `AddRule` are the
goroutines of `synchronizeServers`, which read the hash, the rules and the
repository at three moments. A command to a server that is down may have had its
effect. `Settle` ends edits, failures and restarts; a server that is down then
may stay down or come back. A server in `Untracked` has no rules of its own in the
model: commands to it succeed or fail at any time, and a promotion cut short by it
leaves out the others. `round` observes the servers that were up when a
synchronisation began after `Settle`.

### ConsoleClient

`stack` holds the invocations of `command` that have not returned: the updater's
own, and on top of it the handshake test of the connection it waits for, which
when it fails reconnects in turn. Nonces are random at each exchange, so that two
connections share none: a nonce is the number of messages since the exchange, and
`keys` tells whether the client's belong to the connection it holds (a failed
exchange leaves a new connection with old nonces, `ExchangeFails`). The server is
that of `mock_server.go`: it executes a command that decrypts and ends the
connection at one that does not. `hits` and `done` observe the failures and the
executions of the call in progress.

### RepoStore

The repository's `Create`, `Update` and `Delete` on one group, each as a read, a
search, a change in place and a save, over the file store. A slice is an array and
a length; `Load` hands out the cached one, so that callers share arrays. The lock
of the store covers a single `Load` or `Save`; inside it, `WriteFile` is a
truncation and a write, between which the process may crash and after the first of
which it may fail. The manager serialises its own calls; callbacks and API requests
(`Updaters`) do not. `expected` observes what was last written of each service, and
`mixed` whether calls have overlapped in a way that the code does not survive: a
change of the group's length, or a reload, inside another call.

### Overrides

The slice of entries of one group with the repository's rules for overrides: what
`Create`, `Update` and `Delete` skip or carry over. The API reads in one step and
writes in another. The group is abstracted to its members and to the holder of the
active role; services are registered, come from another group (`Join`, which may
raise a promotion), go to another one (`Leave`) and are removed. `Shutdown` and
`SaveMember` are `OnShutdown`, which writes the members one by one, with the API
still being served; `Restart` is a new process on what is stored, after it or after
a crash at any moment. A callback that waits for a mutex after its write is
`HealthChangeBlocks`. `calm` observes that nothing has happened which the flags do
not survive: a step of the manager inside a request (`Overtakes`), a departure or
the end of the operator while an override is in force (`UnderOverride`), a request
while the entry of an unregistered service is flagged (`StaleFlag`). `Slices` has
`slices.DeleteFunc`, as `RepoStore` has it, too.

### ZoneSync

`Fragile` services may have a record that does not parse or register. `snap` is
the zone as the name server transfers it, `got` what has arrived; a batch carries
both, the second being all the code has. `knownServices` doubles as the set the
removal loop has still to visit. `CallHangs` is a call into the manager that never
returns, as `Manager` and `Callbacks` show it to happen.

## 3. Runs

Checked with deadlock detection, except where the system really stops
(`Scheduler`, `WorkerPool` and `ZoneSync` after their `Stop`, `Callbacks` after a
panic or when everybody waits for a mutex).

| Run | Instance | Shows |
|---|---|---|
| `Service` | threshold 6, runs of failures up to 7 | `Window`: the counter implements `HealthWindow`, of consecutive results; `DownAtThreshold`; `HealthPersisted`: outside of a callback and of failed writes the file has the current health |
| `ServiceGroup` | 3 services, one without a datacenter, 2 priorities | the active role is with a best healthy member while the mutex works, no nil active is dereferenced, events are true, moves are announced |
| `ServiceGroupOutage` | 2 services | violation: the failure of the active service is announced to nobody once the mutex was kept |
| `Manager` | 3 services, 2 groups, 2 priorities; one service moves between the groups | `FlaggedIsActive`, `FlaggedIsHealthy`, `FlaggedIsPublished`, `RegisteredIsChecked`, with moves, shutdowns and crashes between the calls, and failing writes of `memberOfChanged` |
| `Callbacks` | 2 services, both modes, one update, one read | `InOrderIsConsistent`: promotions handled in order leave the flag and the rule with the active service alone; `PanicNeedsOverlap`; `CallbackEnds` |
| `Scheduler` | 3 services, 3 entries | the pop finds an entry, no wanted service is lost, a closed scheduler serves nobody and ends, `UnservedIsMissed` |
| `WorkerPool` | 2 putters, buffer of 2, minimum 1 to 3, at most 5 workers | minimum; `ClosedIsDeserted`, `PutReturns`: only a scheduler started after the wait meets the closed channel or waits for ever; `StopReturns` |
| `DnsdistSync` | 2 servers, one of them untracked, 2 names of which one cannot be parsed, 2 addresses | `RoundRepairs`: one undisturbed round is enough; `NamesConverge`, also when a server never comes back |
| `ConsoleClient` | 2 commands, 3 retries, nonces modulo 4, 6 failures | nothing is sent on a nil connection, answers belong to their commands, repetitions and nesting are bounded by the failures, `Recovers` |
| `RepoStore` | 2 services, 2 values, the manager and an updater | `CacheIsFile`, `SavedIsDurable` |
| `Overrides` | 3 services, 2 addresses | `OthersLeaveOverride` always; `OneActive`, with a true override flag, while calm and running |
| `ZoneSync` | 2 services, one of them fragile | `KnowsRegistered`, `RemovesOnlyAbsent`, and `ZoneConverges` if the manager's calls return |

Why the bounds are enough. A group needs three members for a removal to raise a
promotion (a group of one takes its active service without one) and two
priorities for both modes; a third priority adds no comparison that two members
do not already make. A move needs two groups; the service that moves meets, in one
group, a member of its priority and one below it and, in the other, nobody, so that
both a group that empties and one that does not are left, and it changes its
priority, and with it its interval, on the way. Priorities that change within a
group are left to `ServiceGroup` and to the proofs, which have every `Configs`: with
them this run does not end in a few minutes. Two callbacks, an update and a read
make every pair of calls that share a mutex, in each of the two modes. The
scheduler needs two entries of one service and one of another, to have a marked
top, a live duplicate and a bystander. The pool needs a full buffer with one putter
waiting and another scaling, and a minimum that rises and falls. Servers do not
know of each other and meet only in the loop of a promotion: one that is tracked
and one that fails at will are enough for a promotion to be cut short before, at
and after it; two names give a promotion from one rule to another. Six failures
let the client fail in the updater's command, in its test, and in the reconnection
of each, with a wrong nonce left by the first; nonces modulo 4 wrap within a call.
In `RepoStore` an update needs a second entry to be shifted by a deletion, and
three arrays let the cache and two callers each have one of their own, with a
fourth to be allocated; arrays have no identity, so that states which differ in
their numbers only are one state (`View`). Threshold 6 lets a count be anywhere
between its ends when a crash brings an older one back.

Fairness, in the runs with liveness properties:

* `Scheduler`: weak fairness of the loop, a goroutine of its own, and of time.
  The manager owes nothing.
* `WorkerPool`: weak fairness of workers, `Stop` and the steps of `Put`; strong
  fairness of the send, since Go serves senders that wait on a channel in their
  order. Jobs end because every check has a timeout and if its callback returns; a
  callback that waits for a group's lost mutex does not (see `Callbacks`), and `Stop`
  then waits for its worker for ever.
* `Callbacks`: strong fairness of each member's callback, since Go hands a mutex
  to the waiter that has starved, weak fairness of update and read. Nobody owes
  another health change, update or request.
* `DnsdistSync`: weak fairness of the ticker, of the calls and of each server's
  goroutine. That every command ends is an assumption about the servers, which
  answer or lose the connection: the client sets no deadline (`client.go:232`).
  Servers owe nothing else.
* `ConsoleClient`: weak fairness of the updater, which sends commands for ever, of
  the client's steps, and of the server's answers on a connection that works.
  A server that is down may stay down.
* `ZoneSync`: weak fairness of fetcher and handler. The fetcher's waits have
  timeouts or end with the handler's next `select`. The handler's calls of
  `RegisterService` and `RemoveService` have none: that they return is an
  assumption, which the code does not keep always (`manager.go:183`, `:294`,
  `servicegroup.go:164`). `CallHangs` is the case in which one does not, and
  `ZoneConverges` excuses it.

## 4. Proofs

Checked by TLAPS, for all values of the constants that satisfy the named
assumptions.

* `ServiceProofs` (from `ServiceAssumption`: thresholds are positive). `TypeOK`,
  `UnhealthyOwesSuccess` and `HealthPersisted` hold under `Spec`, edits of the
  threshold included. `TypeOK` is inductive; `UnhealthyOwesSuccess` is so relative to
  it. `HealthPersisted` needs the cache as well, from which `OtherSave` writes
  (`CopiesAreCurrent`). `SteadyCount` proves `CountInWindow` for `SteadySpec`, the
  inductive invariant from which `SteadyDownAtThreshold` and the refinement
  `SteadyRefinesWindow` follow: a healthy service has a count below the threshold, an
  unhealthy one a count above zero, in memory and in both copies, and the failures in
  a row of a healthy service are never more than its count.
* `ServiceGroupProofs` (from `GroupAssumption` and `PrioritiesAssumption`). The
  invariant `IInv` conjoins `TypeOK`, `ActiveIsBest`, `ModeFitsPriorities`,
  `NoNilDereference` and `PromotionIsTrue`. They need each other: a nil active is
  not dereferenced because the active role is filled whenever a member is
  healthy, and a health change keeps the role with the best because the mode fits
  the priorities. `UpdateSettles` says that `Update` settles any group, whatever
  state it was in; `HealthChangeSettles` that `OnServiceHealthChange` settles a
  group that was settled before, or keeps its mutex. `GroupMovesAreAnnounced` is
  an action property from the same invariant.
* `ZoneSyncProofs` (from `ZoneAssumption`). `IInv` adds to `TypeOK` that batches are
  whole (`BatchesAreWhole`: what a failed transfer has delivered is never
  published), that within a batch the registered services are those known before
  and those seen in it (`SeenOrKnown`), and that a usable record of the batch's zone
  is either still to be handled or its service seen (`RecordsAreHandled`).
  `KnowsRegistered` follows from the second; `RemovesOnlyAbsent` from the third,
  since only `RemoveService` shrinks the registered services.
* `ManagerProofs` (from `GroupAssumption` and `ManagerAssumption`; any services,
  groups and priorities, and any configurations in the zone). The invariant `IInv`
  holds of the states with `twins` as well, since nothing but a synchronisation
  follows them, but the properties claim nothing there. `FlaggedIsHealthy` and
  `FlaggedIsPublished` need only each other and the types. `RegisteredIsChecked` is
  inductive as it stands (`OnItsQueue`): other queues may have anything. `FlaggedIsActive` needs
  that a group which can still promote has no unhealthy active member
  (`ActiveIsUp`), so that the event names the predecessor whose flag is to be
  cleared; that the members of the groups are those the registrations give them,
  while nobody waits for a mutex (`MembersFit`); that a flagged service is up
  (`FlaggedUp`), so that a member that recovers is not flagged already; and that a
  group which can still promote holds a service of another name only while that
  service has not joined the other group (`Home`). `PromotionEffect` and
  `PromotionHolder` say what `handlePromotion` does to flags, rules and queues,
  each early return included; there is one lemma per call.
* `SchedulerProofs` (from `SchedulerAssumption`; any services, any number of
  entries). `PopFindsEntry` and `WantedIsQueued` are inductive; `UnservedIsMissed`
  becomes so when it is claimed of a loop on its way out as well
  (`LeavesIfEmpty`). The lemmas say which entries `heap.Push`, `heap.Remove` and
  `heap.Pop` leave, and where.
  The same module has the worker pool (from `PoolAssumption`; any number of putters,
  any capacity and minimum). `PoolInv` adds to `TypeOK`, `CountsWorkers` and
  `AtLeastMin` two facts about the order of stopping: once the schedulers have been
  waited for, every putter is gone or late and no worker is on its way
  (`PoolStopped`), and when the channel is closed and nobody was late, no worker is
  left (`PoolEmpty`). Without them `ClosedIsDeserted` is not inductive.
* `ConsoleClientProofs` (from `ClientAssumption`; any commands, retries, nonces
  and number of failures). `IInv` describes the stack (`Nested`: everything inside
  the updater's call is a handshake test, and whoever is not innermost is
  connecting), the connection (`Connected`) and what is on it (`InStep`: nothing, or
  the request or the answer of the command that waits, with the counters of both
  ends one apart at most). `Executions` strengthens `RepeatedOnlyAfterFault`: unless
  its answer is on the way, every execution so far has cost a failure. `Depth`
  does the same for `DepthBoundedByFaults`: a test that is not certain to succeed
  has been hit.
  The same module has the synchronisation (any servers, names and addresses; the
  proof uses no assumption). `SyncInv` says of every server of an undisturbed round
  where its goroutine is (`RoundJob`): the spoofs it holds are still those of the
  repository, the rules it has read are still those of the server, and when it sends
  commands, what is missing or too much is among those still to come and none of
  them undoes another's work (`Repairing`). `SyncRoundRepairs` is its end.
* `CallbacksProofs` (from `GroupAssumption` and `CallbacksAssumption`: the
  identities of callers and mutex states differ; any number of members, any
  priorities). While no promotion was out of order, `order` lists those whose
  promotion is decided and not handled, each once (`InQueue`). In ActivePassive their
  events form a chain from the published service to the active one (`Chain`, the
  lemmas `LeadJoin` and `LeadLeave`); in ActiveActive there is one at a time, and the
  active service that it reads without the mutex is the published one (`OneAtATime`).
  `ActiveIsUp` and `ChosenIsUp` say that an active service that is down, or one that
  went down after it was chosen, still has its callback to come. `PanicNeedsOverlap`
  rests on `NobodyIsUp` (without an active service, healthy members have still to
  take the role), `Alone` and `FailsAlone`. This invariant was checked by TLC for two
  members, and for three as long as the order holds.
* `RepositoryProofs`, first `RepoStore` (from `RepoAssumption`: finitely many
  callers; `none` and `torn`, which stand for Go's nil and for bytes that do not
  parse, differ from everything that is stored). The argument has three layers.
  `StoreTypes`: no slice is longer than its array, a call has what its next step
  needs, the store's lock is with the call that writes. `Clean`: when no call has a
  change to save, what is cached is what is in the file or on its way there, from
  which `StoreCacheIsFile` follows. `Kempt`, while `mixed` is "no": a call that
  changes the length of the group is alone, all others share the cached slice and
  hold the right index into it, and what was last written of a service is in the
  slice that will be saved and, once nothing is left to save, in the file, which is
  `StoreSavedIsDurable`.
  Then `Overrides` (from `OverridesAssumption`). `OverridesInv` adds to the types
  that a POST or PUT is about to write an active entry and, while `calm`, to one that
  is still the first active entry and not overridden (`Answerable`); that, while
  `calm`, every entry that says it is overridden has an address of a request
  (`Foreign`), and no active entry says so unless the first one does (`Plain`), also
  while the operator is stopping; and that, when it runs, of the members' entries
  only the holder's is active and, under an override, no other entry at all (`Only`,
  with `Foreign` called `Sound`). The last part is what lets a stale flag of an
  earlier process be harmless: it belongs to nobody registered, or it is cleared by
  `Create` when that service is registered again. It gives `OverridesOneActive`, and
  `OverridesLeftByOthers`, an action property that needs only the types: it holds
  when `calm` does not, too.
  What the lemmas say of every sequence (the first position of an entry, the first
  active entry, the entries a deletion keeps and their order) is proved from least
  counterexamples, since induction is not at hand.

Each inductive invariant was checked by TLC, on the instance of the module's run,
before it was proved.

Every invariant and every action property that a run checks is proved, and so is
the refinement of `HealthWindow`. Only model-checked: the liveness properties
(`StopEnds`, `PutReturns`, `StopReturns`, `NamesConverge`, `Recovers`, `CallbackEnds`,
`ZoneConverges`), which are out of the prover's reach. Only proved:
`UnhealthyOwesSuccess`, `CopiesAreCurrent`, `CountInWindow`, `ModeFitsPriorities` and
`CountsWorkers`, which are parts of the inductive invariants, or follow from what the runs check.

## 5. Disagreements between code and comments

One is shown by a run and listed in `PROJECT.json`: the mutex that
`OnServiceHealthChange` keeps (`servicegroup.go:138`, run `ServiceGroupOutage`).
The following were met while the models were written. Those about state that a
module keeps were confirmed on it with a formula of their own; those that come from
reading alone, and have no model, are `service.go:259`, `client.go:197`, `:202` and
`:232`, `manager.go:375`, and what follows the registration at `manager.go:138`:

* `service.go:221`: the count is compared with `==` and capped, so that a
  threshold lowered below the current count is never reached again, and the
  service stays up until a check has succeeded (`crd.yaml:66`: "Number of consecutive
  failures before marking unhealthy"). `DownAtThreshold` and `Window` hold for
  `SteadySpec` only.
* `manager.go:158`: the flag is set before the callback stores it, and a write that
  fails is logged and not repeated. A crash in between, or after such a failure,
  brings the old health back: a service that was down is restored as healthy, and
  the reverse.
* `servicegroup.go:294`: an only member takes the active role without a promotion
  event (`servicegroup.go:34`: an event "occurs when there is a new Active
  service").
* `servicegroup.go:137` and `:159`: `sg.mu` is released before `OnPromotion`, and two promotions
  may be handled in the other order than they were decided on. The flag and the
  rule then stay with a service that has failed (`overtaken` in `Callbacks`).
* `servicegroup.go:395`: `Update` looks for the best member and takes the mutex
  afterwards; the member it then makes active may have failed meanwhile.
* `servicegroup.go:120` and `:168`: when two members fail at the same time, or one
  during an update, the first call may leave no active service and the second
  dereferences it. The pool's workers do not recover, so that the operator ends.
* `servicegroup.go:408`: `Update` holds `sg.mu` and waits for `sm.mutex` in
  `handlePromotion`; `GetActiveForMemberOf` holds `sm.mutex` and waits for `sg.mu`.
  Neither goes on (`LockOrderInverted`).
* `manager.go:294`: `memberOfChanged` returns with `sm.mutex` locked when the store
  fails.
* `manager.go:316`: a service that moves to a group whose mutex was kept waits in
  `RegisterService`, while its `MemberOf` already names that group and it is still a
  member of the old one. If the old group then promotes it, `handlePromotion` flags
  and publishes it under the new name, next to the active service of that group.
  `FlaggedIsActive` therefore speaks of services that are members of the group they
  name. It takes four services: on an instance with four, of which the mover is one,
  TLC finds two flagged services of one group, and `FlaggedIsActive` as it stands
  holds.
* `service.go:259`: `ConfigChanged` does not compare `MemberOf`, so that a record
  which changes nothing but its group is taken for unchanged.
* `manager.go:183`: `RegisterService` holds `sm.mutex` while the group updates; a
  service restored as healthy raises a promotion, and `handlePromotion` waits for
  `sm.mutex`.
* `manager.go:204`: `RemoveService` takes the service off its queue
  (`manager.go:189`: "removes the service from its healthcheck queue") and then lets
  the group promote a successor; the promotion moves the old active service to
  another interval and so puts it on a queue again. It is checked on, and its
  callbacks go to a group that it is no member of, or that was deleted.
* `manager.go:138`: `RegisterService` looks for the ID in `scheduledServices`, where
  such a service is no more. When it is registered again there are two objects of one
  ID (`twins` in `Manager`), each with its own health and interval. Both write the
  one entry, and `Scheduler.RemoveService`, which finds an entry by its ID, may take
  the wrong object off a queue, so that the registered one is checked no more. If
  the old object is made active, `OnShutdown`, which compares IDs
  (`manager.go:111`), flags the entry of the new one, healthy or not. `Manager`
  reaches the registration and stops there; the rest comes from reading.
* `manager.go:375`: when a write of `handlePromotion` fails, it returns: the old flag
  may be cleared and the new one not set, or both in the cache and neither in the
  file, and nothing is published or moved. When the callback's own write fails (`manager.go:158`), it goes on, and a
  service that goes down stays flagged as active and healthy until its group's
  promotion clears the flag; if that write fails, too, it stays published. When
  `updateService`'s fails (`manager.go:262`), the entry keeps its old flags. No
  model has these.
* `manager.go:88`: `wg.Wait` waits for the schedulers, not for the callbacks of the
  jobs that still run. One of them may move a service to an interval that has no
  scheduler and start one (`manager.go:501`), which nobody stops: its `Put` may send
  on the closed channel (`PutPanics` in `WorkerPool`), or start a worker after the
  pool's `Stop` has waited for them. A loop whose `Put` waits for workers that all
  wait for a lost mutex keeps `wg.Wait` from returning.
* `manager.go:116`: `OnShutdown` writes the override flag of the group to every
  member. After a restart, a member that takes the role before the overridden one
  is registered again has an active entry that says it is overridden and has its own
  address; further overrides, creations and deletions are turned away. With one more
  change of the role two entries are active. (`UnderOverride` in `Overrides`; with
  `Ending` not breaking `calm`, TLC finds both.)
* `manager.go:100`: a service that is removed from the zone while the operator is
  down keeps its entry, flagged as it was left, and is published: nobody removes it.
  An override that is requested then is one of its entry (`StaleFlag`).
* `manager.go:262`: `updateService` ends by storing an entry with `IsActive`
  false, so that any update of the active service withdraws its record at the
  next synchronisation.
* `manager.go:348`: in ActivePassive mode the first service to come up after an
  outage is announced with `lastActive` as its predecessor; if that is the same
  service, `handlePromotion` skips the event and nothing is published.
* `scheduler.go:144`: a service scheduled after the loop has found its queue empty
  and before it has cleared `isRunning` is served by no loop, nor are those that
  follow, since only a queue of one starts the loop (`scheduler.go:91`: "restart the loop when we have scheduled
  services in the heap"). `UnservedIsMissed` says that nothing else has this effect.
* `scheduler.go:194`: the loop ticks the entry it has peeked at and re-schedules
  whatever is on top by then; an entry that was put in front is put off unchecked.
* `scheduler.go:99`: a service removed and scheduled again before the loop drops
  its marked entry has two; the next removal finds only one of them.
* `dnsdist.go:223`: names are compared and addresses are not, so that a changed
  address of a published name never reaches a server.
* `dnsdist.go:173`: a rule that the pattern does not match is never removed, and
  is added again by every synchronisation.
* `dnsdist.go:215`: a repair works through a list made earlier, and may remove a
  rule which a promotion has just added; the next synchronisation adds it again.
* `client.go:197`: the goroutines of a synchronisation and the promotions use one
  client per server without a mutex.
* `client.go:202`: a test that fails reconnects, and the new connection runs a test:
  with a wrong key, which fails every test, the nesting never ends.
* `client.go:232`: reads and writes have no deadline, so that a server which neither
  answers nor closes the connection holds its goroutine for ever.
* `client.go:200`: a broken connection is replaced only by a retry; without retries
  (`WithNumRetriesOnCommandFailure(0)`) the client never recovers.
* `internal/repositories/service/service.go:163`: `slices.DeleteFunc` moves the
  entries of the cached array; an update that has found its index before writes
  over another entry, and one that holds a longer slice saves the zeroed rest.
* `file.go:112`: a reload replaces the cached slice while a caller changes the old
  one; the caller's save then undoes what was saved in between.
* `file.go:55`: `WriteFile` truncates first. After a crash or an error in between the
  file is empty, and the next `Save` writes its own group only, or it cannot be
  parsed, and every `Save` refuses it: nothing is stored until somebody repairs it.
* `overrides.go:198`: after the deletion of an override no entry is active.
* `overrides.go:140`: between the read and the write of a request the manager may
  have moved the role; the request then makes the entry active that was so before,
  next to the holder's, or its override is lost (`Overtakes` in `Overrides`).
* `overrides.go:154`: an update of an override is refused if there is one, and
  otherwise writes an address without setting the flag.
* `internal/repositories/service/service.go:159`: under an override `Delete` does nothing;
  the entry of a removed service stays active next to its successor's.

## 6. Plan

Done: the health state, the group, the manager with repository and queues, the
scheduler, the pool, the synchronisation, the overrides, the zone, the overlapping
calls on a group, the console client and the file store, with proofs for all of them.

Next, in this order:

1. Services as objects instead of IDs in `Manager`, to follow two of one ID.
2. Failing writes inside `handlePromotion` and the callback, in `Manager`.
3. Two checks of one service at the same time (`service.go:217`), which race on the
   count.
4. Two callers on one console client (`client.go:197`).

## 7. Not modelled

* The memory store, a map under a mutex that only tests use.
* Health checks: network I/O; the models let a check have either result at any
  time. The roundtrip times they measure only order members of one priority.
* The Lua sandbox, tokens, configuration, metrics and logging: third-party work,
  state read once at start, or no influence on the behaviour.
* The REST updater, which `cmd/main.go` does not use, and the failover handler,
  which reaches a stub that only logs (`servicegroup.go:350`).
* Formatting and parsing of records, requests and console commands, except for
  the one outcome that matters: whether a record is usable and whether a rule is
  recognised.
