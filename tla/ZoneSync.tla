------------------------------ MODULE ZoneSync ------------------------------
(***************************************************************************)
(* From the GSLB config zone to the manager (internal/dns): the fetcher    *)
(* transfers the zone on every tick and publishes whole batches on a       *)
(* channel of capacity 1; the handler registers the records of a batch and *)
(* removes the services it knows from the batch before and misses in this. *)
(* The zone is edited, transfers fail half-way, batches are dropped when   *)
(* the handler is slow, and the operator is stopped, all at any time.      *)
(*                                                                         *)
(* A record is valid or broken, broken standing for one that handleRecord  *)
(* cannot parse or the manager cannot register.                            *)
(***************************************************************************)
EXTENDS Naturals, Sequences

CONSTANTS
  Services,
  Fragile    \* those whose record may be broken

ASSUME ZoneAssumption == Fragile \subseteq Services

VARIABLES
  zone,         \* the record of each service in the zone
  fetch,        \* where the fetcher is
  snap,         \* the zone as the name server transfers it
  got,          \* the records that have arrived
  buffer,       \* the zone channel
  hpc,          \* where handleZoneUpdates is
  batch,        \* records of its batch that are still to be handled
  whole,        \* observation: the zone that its batch was transferred from
  inBatch,      \* servicesInBatch
  known,        \* knownServices
  registered,   \* the services the manager has
  cancelled,    \* the context is cancelled and h.stop closed
  quiet         \* observation: no more edits, no more failures

zoneVars == <<zone, quiet>>
fetchVars == <<fetch, snap, got>>
handlerVars == <<hpc, batch, whole, inBatch, known, registered>>
vars == <<zoneVars, fetchVars, buffer, handlerVars, cancelled>>

Record == (Services \X {"valid"}) \cup (Fragile \X {"broken"})

Zones ==
  {z \in [Services -> {"valid", "broken", "absent"}] :
     \A s \in Services : z[s] = "broken" => s \in Fragile}

RecordsOf(z) == {<<s, z[s]>> : s \in {t \in Services : z[t] # "absent"}}

Valid(z) == {s \in Services : z[s] = "valid"}

Init ==
  /\ zone \in Zones
  /\ fetch = "idle"
  /\ snap = {} /\ got = {}
  /\ buffer = <<>>
  /\ hpc = "select"
  /\ batch = {} /\ whole = {} /\ inBatch = {}
  /\ known = {} /\ registered = {}
  /\ cancelled = FALSE
  /\ quiet = FALSE

-----------------------------------------------------------------------------
Edit(s, v) ==
  /\ ~quiet
  /\ zone' = [zone EXCEPT ![s] = v]
  /\ zone' \in Zones \ {zone}
  /\ UNCHANGED <<quiet, fetchVars, buffer, handlerVars, cancelled>>

Settle ==
  /\ ~quiet
  /\ quiet' = TRUE
  /\ UNCHANGED <<zone, fetchVars, buffer, handlerVars, cancelled>>

(* Handler.Stop *)
Cancel ==
  /\ ~cancelled
  /\ cancelled' = TRUE
  /\ UNCHANGED <<zoneVars, fetchVars, buffer, handlerVars>>

-----------------------------------------------------------------------------
(* The fetcher: StartAutoPoll and AXFRTransfer. *)

FetchOnly == UNCHANGED <<zoneVars, buffer, handlerVars, cancelled>>

Over(pc) == fetch' = pc /\ snap' = {} /\ got' = {}

TransferIn ==
  /\ fetch = "idle"
  /\ ~cancelled
  /\ fetch' = "receiving"
  /\ snap' = RecordsOf(zone)
  /\ got' = {}
  /\ FetchOnly

TransferRefused ==
  /\ fetch = "idle"
  /\ ~cancelled /\ ~quiet
  /\ Over("error")
  /\ FetchOnly

ReceiveRecord ==
  /\ fetch = "receiving"
  /\ \E r \in snap \ got : got' = got \cup {r}
  /\ UNCHANGED <<fetch, snap>>
  /\ FetchOnly

(* Mutant: what has arrived before the error is published. *)
ReceiveErrorPublishes ==
  /\ fetch = "receiving"
  /\ ~quiet
  /\ fetch' = "publish"
  /\ UNCHANGED <<snap, got>>
  /\ FetchOnly

ReceiveError ==
  /\ fetch = "receiving"
  /\ ~quiet
  /\ Over("error")
  /\ FetchOnly

ReceiveTimeout ==
  /\ fetch = "receiving"
  /\ ~quiet
  /\ Over("idle")
  /\ FetchOnly

ReceiveEnd ==
  /\ fetch = "receiving"
  /\ got = snap
  /\ fetch' = "publish"
  /\ UNCHANGED <<snap, got>>
  /\ FetchOnly

Publish ==
  /\ fetch = "publish"
  /\ buffer = <<>>
  /\ buffer' = <<[records |-> got, whole |-> snap]>>
  /\ Over("idle")
  /\ UNCHANGED <<zoneVars, handlerVars, cancelled>>

PublishTimeout ==
  /\ fetch = "publish"
  /\ buffer # <<>>
  /\ Over("idle")
  /\ FetchOnly

(* The context is looked at everywhere but in a send on pollErrors. *)
FetchCancelled ==
  /\ cancelled
  /\ fetch \in {"idle", "receiving", "publish"}
  /\ Over("closed")
  /\ FetchOnly

-----------------------------------------------------------------------------
(* The handler: handleZoneUpdates. *)

TakeBatch ==
  /\ hpc = "select"
  /\ buffer # <<>>
  /\ hpc' = "register"
  /\ batch' = Head(buffer).records
  /\ whole' = Head(buffer).whole
  /\ inBatch' = {}
  /\ buffer' = Tail(buffer)
  /\ UNCHANGED <<zoneVars, fetchVars, known, registered, cancelled>>

HandleRecord(r) ==
  /\ hpc = "register"
  /\ r \in batch
  /\ batch' = batch \ {r}
  /\ IF r[2] = "valid"
       THEN /\ registered' = registered \cup {r[1]}
            /\ inBatch' = inBatch \cup {r[1]}
       ELSE UNCHANGED <<registered, inBatch>>
  /\ UNCHANGED <<zoneVars, fetchVars, buffer, hpc, whole, known, cancelled>>

RegisteredAll ==
  /\ hpc = "register"
  /\ batch = {}
  /\ hpc' = "remove"
  /\ UNCHANGED <<zoneVars, fetchVars, buffer, batch, whole, inBatch, known, registered, cancelled>>

(* The services of the map that are not in the batch, in any order.  known   *)
(* is also what the loop has still to visit: the code replaces the map when  *)
(* the loop is over and reads it nowhere else.                               *)
RemoveService(s) ==
  /\ hpc = "remove"
  /\ s \in known \ inBatch
  /\ known' = known \ {s}
  /\ registered' = registered \ {s}
  /\ UNCHANGED <<zoneVars, fetchVars, buffer, hpc, batch, whole, inBatch, cancelled>>

(* Mutant: services that were new in this batch are not remembered. *)
RemovedAllKeepsKnown ==
  /\ hpc = "remove"
  /\ known \subseteq inBatch
  /\ hpc' = "select"
  /\ whole' = {} /\ inBatch' = {}
  /\ known' = IF known = {} THEN inBatch ELSE known
  /\ UNCHANGED <<zoneVars, fetchVars, buffer, batch, registered, cancelled>>

RemovedAll ==
  /\ hpc = "remove"
  /\ known \subseteq inBatch
  /\ hpc' = "select"
  /\ known' = inBatch
  /\ whole' = {} /\ inBatch' = {}
  /\ UNCHANGED <<zoneVars, fetchVars, buffer, batch, registered, cancelled>>

(* A call into the manager that never returns: RegisterService or           *)
(* RemoveService waits for sm.mutex or for a group's mutex which nobody      *)
(* will release (Manager and Callbacks show how that comes about).  A        *)
(* registration has put the service into scheduledServices by then or not;   *)
(* a removal takes it out at its end only.                                   *)
CallHangs ==
  /\ \/ /\ hpc = "register"
        /\ \E s \in Services :
             /\ <<s, "valid">> \in batch
             /\ registered' \in {registered, registered \cup {s}}
     \/ /\ hpc = "remove"
        /\ known \ inBatch # {}
        /\ UNCHANGED registered
  /\ hpc' = "hung"
  /\ UNCHANGED <<zoneVars, fetchVars, buffer, batch, whole, inBatch, known, cancelled>>

(* The fetcher's send on pollErrors meets the handler's receive. *)
TakeError ==
  /\ hpc = "select"
  /\ fetch = "error"
  /\ Over("idle")
  /\ UNCHANGED <<zoneVars, buffer, handlerVars, cancelled>>

StopHandling ==
  /\ hpc = "select"
  /\ cancelled
  /\ hpc' = "stopped"
  /\ UNCHANGED <<zoneVars, fetchVars, buffer, batch, whole, inBatch, known, registered, cancelled>>

-----------------------------------------------------------------------------
Fetcher ==
  \/ TransferIn \/ TransferRefused
  \/ ReceiveRecord \/ ReceiveError \/ ReceiveTimeout \/ ReceiveEnd
  \/ Publish \/ PublishTimeout
  \/ FetchCancelled

Handler ==
  \/ TakeBatch
  \/ \E r \in Record : HandleRecord(r)
  \/ RegisteredAll
  \/ \E s \in Services : RemoveService(s)
  \/ RemovedAll
  \/ TakeError
  \/ StopHandling

Next ==
  \/ \E s \in Services, v \in {"valid", "broken", "absent"} : Edit(s, v)
  \/ Settle
  \/ Cancel
  \/ Fetcher
  \/ Handler
  \/ CallHangs

(* Both are goroutines of their own, the ticker keeps ticking, and every    *)
(* wait of the fetcher has a timeout or ends with the handler's next select. *)
(* The handler waits without a timeout for the manager: its next step is    *)
(* fair in so far as that call returns, and CallHangs is the case in which  *)
(* it does not.                                                             *)
Fairness == WF_vars(Fetcher) /\ WF_vars(Handler)

Spec == Init /\ [][Next]_vars /\ Fairness

-----------------------------------------------------------------------------
(* The types of the variables; checked as a part of KnowsRegistered. *)
TypeOK ==
  /\ zone \in Zones
  /\ fetch \in {"idle", "receiving", "error", "publish", "closed"}
  /\ snap \subseteq Record /\ got \subseteq snap
  /\ Len(buffer) <= 1
  /\ hpc \in {"select", "register", "remove", "stopped", "hung"}
  /\ batch \subseteq Record /\ whole \subseteq Record
  /\ inBatch \subseteq registered
  /\ known \subseteq registered /\ registered \subseteq Services

(* Between two batches the handler knows every service the manager has: a   *)
(* service it loses sight of would be checked, and published, until the     *)
(* operator is restarted, whatever becomes of its record.                   *)
KnowsRegistered == TypeOK /\ (hpc \in {"select", "stopped"} => known = registered)

(* A service is removed only if the zone that was transferred to its end    *)
(* has no usable record of it: not because a transfer failed, was cut off   *)
(* by a timeout or cancelled, or because its batch was dropped.             *)
RemovesOnlyAbsent ==
  [][ \A s \in registered \ registered' : <<s, "valid">> \notin whole ]_vars

(* When the zone is no longer edited and transfers work, the manager comes  *)
(* to have exactly the services with a usable record, whatever stale batch  *)
(* was still on its way and whatever was dropped before; unless a call into *)
(* the manager never returns, which leaves the registered services as they  *)
(* are until the operator is restarted.                                     *)
ZoneConverges == quiet ~> [](cancelled \/ hpc = "hung" \/ registered = Valid(zone))
=============================================================================
