----------------------------- MODULE Overrides -----------------------------
(***************************************************************************)
(* The repository entries of one service group under overrides: the API    *)
(* handlers of internal/api/handlers/spoofs/overrides.go next to the       *)
(* manager, both writing through internal/repositories/service.            *)
(*                                                                         *)
(* The group itself (GroupOps) is abstracted to its members and to the     *)
(* holder of the active role, which moves the way any health, priority or  *)
(* membership change may move it.  Calls that wait for a mutex for ever    *)
(* (see Manager and Callbacks) have written what they write before that,   *)
(* and what the rest of the operator does next is among the steps of one   *)
(* in which nobody waits.  The store is the one that callers see; what of  *)
(* it is in the file after a crash is the subject of RepoStore.            *)
(***************************************************************************)
EXTENDS Slices

CONSTANTS
  IPs,       \* addresses given in override requests
  nil

(* nil is no service, and "own" stands for no address of a request. *)
ConstantsOK == nil \notin Services /\ "own" \notin IPs

VARIABLES
  store,     \* the entries of the group, in the order of the slice
  members,   \* the registered services
  holder,    \* the member with the active role
  req,       \* the override request between its read and its write
  stage,     \* "running", or "stopping" while OnShutdown writes the members
  last,      \* the service that OnShutdown has found active
  left,      \* the members it has still to write
  calm       \* observation: nothing has happened that flags do not survive, see below

managerVars == <<members, holder>>
shutdownVars == <<stage, last, left>>
vars == <<store, managerVars, req, shutdownVars, calm>>

(* "own" is the address of the service itself. *)
Entry == [id : Services, active : BOOLEAN, ip : IPs \cup {"own"}, over : BOOLEAN]

(* GSLBService(), with the IsActive that the caller sets. *)
Own(s, isActive) == [id |-> s, active |-> isActive, ip |-> "own", over |-> FALSE]

NoRequest == [op |-> "none"]

Request == {NoRequest, [op |-> "delete"]} \cup [op : {"new", "update"}, entry : Entry]

Init ==
  /\ store = <<>>
  /\ members = {}
  /\ holder = nil
  /\ req = NoRequest
  /\ stage = "running"
  /\ last = nil
  /\ left = {}
  /\ calm = TRUE

-----------------------------------------------------------------------------
(* ServiceRepo *)

Ids(st) == {st[i].id : i \in DOMAIN st}

Actives(st) == {i \in DOMAIN st : st[i].active}

(* GetActive returns the first active entry, and an error if there is none. *)
HasActive(st) == Actives(st) # {}

GetActive(st) == st[CHOOSE i \in Actives(st) : \A j \in Actives(st) : i <= j]

HasOverride(st) == HasActive(st) /\ GetActive(st).over

Replace(st, e) == [i \in DOMAIN st |-> IF st[i].id = e.id THEN e ELSE st[i]]

(* What Update keeps of the entry it replaces. *)
Keep(st, old, e) ==
  IF old.active /\ HasOverride(st)
    THEN [e EXCEPT !.ip = old.ip, !.over = TRUE] ELSE e

(* An entry that is not there is an error, and nothing is written. *)
Update(st, e) ==
  [i \in DOMAIN st |-> IF st[i].id = e.id THEN Keep(st, st[i], e) ELSE st[i]]

(* Mutant: an override does not keep entries from being rewritten. *)
CreateAnyway(st, e) == IF e.id \in Ids(st) THEN Update(st, e) ELSE Append(st, e)

Create(st, e) ==
  IF HasOverride(st) THEN st
  ELSE IF e.id \in Ids(st) THEN Update(st, e) ELSE Append(st, e)

Delete(st, s) == IF HasOverride(st) THEN st ELSE Kept(st, s)

RemoveOverrideFlag(st) == [i \in DOMAIN st |-> [st[i] EXCEPT !.over = FALSE]]

-----------------------------------------------------------------------------
(* The manager: handlePromotion gives up at the first entry it misses. *)

(* Mutant: the flag of the old service is left to the next synchronisation. *)
PromotionKeepsOld(st, old, new) ==
  IF old = new \/ new = nil THEN st ELSE Update(st, Own(new, TRUE))

Promotion(st, old, new) ==
  LET cleared == IF old = nil THEN st ELSE Update(st, Own(old, FALSE))
  IN  IF old = new \/ (old # nil /\ old \notin Ids(st)) THEN st
      ELSE IF new = nil THEN cleared ELSE Update(cleared, Own(new, TRUE))

(* A first member that is restored as healthy takes the role by itself.  If *)
(* the group would announce a promotion, the call never returns.            *)
RegisterService(s) ==
  /\ s \notin members
  /\ members' = members \cup {s}
  /\ holder' \in IF members = {} /\ s \in Ids(store) THEN {nil, s} ELSE {holder}
  /\ store' = Create(store, Own(s, FALSE))

(* Update of a group of one sets the role without a promotion. *)
Announced(st, S, old, new) == IF Cardinality(S) > 1 THEN Promotion(st, old, new) ELSE st

(* Whom Update of a group gives the role: members of one priority change    *)
(* places with their roundtrip times.                                       *)
NextHolder(S) == IF holder = nil THEN {nil} ELSE S

RemoveService(s) ==
  LET rest == members \ {s}
  IN  /\ s \in members
      /\ members' = rest
      /\ holder' \in NextHolder(rest) \cup IF holder = s THEN {nil} ELSE {}
      /\ store' = Delete(Announced(store, rest, holder, holder'), s)

(* updateService: the group may promote another member, and then the entry  *)
(* of s is rewritten.                                                       *)
Reconfigure(s) ==
  /\ s \in members
  /\ holder' \in NextHolder(members)
  /\ store' = Update(Promotion(store, holder, holder'), Own(s, FALSE))
  /\ UNCHANGED members

(* memberOfChanged: a service comes from another group, healthy or not, and *)
(* updateService rewrites its entry at the end.                             *)
Join(s) ==
  LET joined == members \cup {s}
  IN  /\ s \notin members
      /\ members' = joined
      /\ holder' \in NextHolder(joined) \cup IF holder = nil THEN {s} ELSE {}
      /\ store' = Update(Announced(Create(store, Own(s, FALSE)), joined, holder, holder'),
                         Own(s, FALSE))

(* memberOfChanged: a service goes to another group; its entry is deleted   *)
(* before the group promotes a successor.                                   *)
Leave(s) ==
  LET rest == members \ {s}
  IN  /\ s \in members
      /\ members' = rest
      /\ holder' \in NextHolder(rest) \cup IF holder = s THEN {nil} ELSE {}
      /\ store' = Announced(Delete(store, s), rest, holder, holder')

(* A callback that has stored the new health waits for a mutex for ever. *)
HealthChangeBlocks(s) ==
  /\ s \in members
  /\ store' = Update(store, Own(s, FALSE))
  /\ UNCHANGED <<members, holder>>

(* A service comes up, and takes the role or leaves it where it is.  When   *)
(* nobody has it, the event may name whoever had it before.                 *)
HealthyChange(s) ==
  LET stored == Update(store, Own(s, FALSE))
  IN  /\ s \in members
      /\ s # holder
      /\ \/ /\ holder' = s
            /\ \E old \in IF holder = nil THEN Services \cup {nil} ELSE {holder} :
                 store' = Promotion(stored, old, s)
         \/ /\ holder # nil
            /\ store' = stored
            /\ UNCHANGED holder
      /\ UNCHANGED members

UnhealthyChange(s) ==
  LET stored == Update(store, Own(s, FALSE))
  IN  /\ s \in members
      /\ holder # nil
      /\ holder' \in IF holder = s THEN (members \ {s}) \cup {nil} ELSE {holder}
      /\ store' = Promotion(stored, holder, holder')
      /\ UNCHANGED members

-----------------------------------------------------------------------------
(* GetActive of the group, which is a best healthy member in ActiveActive    *)
(* mode and not always the holder.                                           *)
ActiveOfGroup == members \cup IF holder = nil THEN {nil} ELSE {}

(* OnShutdown, when checks and the zone handler have ended. *)
Shutdown ==
  /\ stage = "running"
  /\ stage' = "stopping"
  /\ last' \in ActiveOfGroup
  /\ left' = members
  /\ UNCHANGED <<store, managerVars, req>>

(* Every member is written with the role and with the override of the group; *)
(* a member without an entry ends it.                                        *)
SaveMember(s) ==
  /\ s \in left
  /\ IF s \in Ids(store)
       THEN /\ store' = Update(store, [Own(s, s = last) EXCEPT !.over = HasOverride(store)])
            /\ left' = left \ {s}
       ELSE /\ left' = {}
            /\ UNCHANGED store
  /\ UNCHANGED <<managerVars, req, stage, last>>

(* A new process, after OnShutdown or a crash; it finds what was stored. *)
Restart ==
  /\ members' = {}
  /\ holder' = nil
  /\ req' = NoRequest
  /\ stage' = "running"
  /\ last' = nil
  /\ left' = {}
  /\ UNCHANGED store

-----------------------------------------------------------------------------
(* The API, which is served until after OnShutdown.  A handler reads the    *)
(* active entry, and writes what it has made of it.                         *)

Read(over, request) ==
  /\ req = NoRequest
  /\ HasActive(store)
  /\ GetActive(store).over = over
  /\ req' = request
  /\ UNCHANGED <<managerVars, shutdownVars>>

(* POST: newOverride. *)
ReadForNew(ip) ==
  /\ Read(FALSE, [op |-> "new", entry |-> [GetActive(store) EXCEPT !.ip = ip, !.over = TRUE]])
  /\ UNCHANGED store

(* PUT: updateOverride turns away a service that has an override. *)
ReadForUpdate(ip) ==
  /\ Read(FALSE, [op |-> "update", entry |-> [GetActive(store) EXCEPT !.ip = ip]])
  /\ UNCHANGED store

(* DELETE: deleteOverride clears the flags first. *)
ReadForDelete ==
  /\ Read(TRUE, [op |-> "delete"])
  /\ store' = RemoveOverrideFlag(store)

(* Restoring nobody fails on a nil entry, and the request with it. *)
Restore(active) == IF active = nil THEN store ELSE Update(store, Own(active, FALSE))

(* DELETE asks the manager for the active service, under the mutex that      *)
(* OnShutdown holds.                                                         *)
Write ==
  /\ \/ req.op = "new" /\ store' = Update(store, req.entry)
     \/ req.op = "update" /\ store' = Replace(store, req.entry)
     \/ /\ req.op = "delete"
        /\ stage = "running"
        /\ \E active \in ActiveOfGroup : store' = Restore(active)
  /\ req' = NoRequest
  /\ UNCHANGED <<managerVars, shutdownVars>>

-----------------------------------------------------------------------------
(* What the flags of the entries do not survive: a step of the manager       *)
(* between the read and the write of a request,                              *)
Overtakes == req # NoRequest

(* a departure or the end of the operator under an override, which keeps     *)
(* the entries from being deleted and, later, from being rewritten,          *)
UnderOverride == HasOverride(store)

(* and a request while the entry of an unregistered service is flagged.      *)
StaleFlag == \E i \in Actives(store) : store[i].id \notin members

Checking ==
  /\ stage = "running"
  /\ \E s \in Services :
       \/ RegisterService(s) \/ Join(s) \/ Reconfigure(s)
       \/ HealthyChange(s) \/ UnhealthyChange(s) \/ HealthChangeBlocks(s)
  /\ calm' = (calm /\ ~ Overtakes)
  /\ UNCHANGED <<req, shutdownVars>>

Removal ==
  /\ stage = "running"
  /\ \E s \in Services : RemoveService(s) \/ Leave(s)
  /\ calm' = (calm /\ ~ Overtakes /\ ~ UnderOverride)
  /\ UNCHANGED <<req, shutdownVars>>

Ending ==
  /\ Shutdown \/ (\E s \in Services : SaveMember(s)) \/ Restart
  /\ calm' = (calm /\ ~ Overtakes /\ ~ UnderOverride)

Api ==
  /\ \/ \E ip \in IPs : ReadForNew(ip) \/ ReadForUpdate(ip)
     \/ ReadForDelete
     \/ Write
  /\ calm' = (calm /\ ~ StaleFlag)

Next == Checking \/ Removal \/ Ending \/ Api

Spec == Init /\ [][Next]_vars

-----------------------------------------------------------------------------
(* The types of the variables; checked as a part of OneActive. *)
TypeOK ==
  /\ store \in Seq(Entry)
  /\ \A i, j \in DOMAIN store : store[i].id = store[j].id => i = j
  /\ members \subseteq Services
  /\ holder \in members \cup {nil}
  /\ req \in Request
  /\ stage \in {"running", "stopping"}
  /\ last \in Services \cup {nil}
  /\ left \subseteq members
  /\ calm \in BOOLEAN

(* An override is not disturbed from aside: as long as the active role      *)
(* stays where it is, registrations, removals and departures, also of the   *)
(* overridden service itself, and health changes, updates and arrivals of   *)
(* other services leave the overridden entry in force as the API has        *)
(* written it.                                                              *)
OthersLeaveOverride ==
  [][ \A s \in Services :
        /\ HasOverride(store)
        /\ holder' = holder
        /\ stage = "running"
        /\ \/ RegisterService(s) \/ RemoveService(s) \/ Leave(s)
           \/ /\ s # GetActive(store).id
              /\ \/ Join(s) \/ Reconfigure(s)
                 \/ HealthyChange(s) \/ UnhealthyChange(s) \/ HealthChangeBlocks(s)
        => HasActive(store') /\ GetActive(store') = GetActive(store) ]_vars

(* "single DNS record" (servicegroup.go:142): while the operator runs, of   *)
(* the entries of its registered services only the holder's is active,      *)
(* through arrivals, departures, promotions, restarts that find stale flags *)
(* and overrides of whatever entry is active by then; and if the active     *)
(* entry says that it is overridden, which turns away further overrides,    *)
(* creations and deletions, it does carry an override's address.  It takes  *)
(* that no override is in force when somebody leaves or the operator ends,  *)
(* none is requested while an unregistered service is flagged, and the      *)
(* manager does nothing inside a request: each of these loses it.           *)
OneActive ==
  /\ TypeOK
  /\ calm /\ stage = "running" =>
       /\ \A i \in Actives(store) : store[i].id \in members => store[i].id = holder
       /\ HasOverride(store) => GetActive(store).ip # "own"
=============================================================================
