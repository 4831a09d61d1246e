-------------------------- MODULE ZoneSyncProofs ---------------------------
(***************************************************************************)
(* Theorems about ZoneSync, for any set of services and any choice of the  *)
(* fragile ones.                                                           *)
(***************************************************************************)
EXTENDS ZoneSync, TLAPS

(* The channel holds at most one batch, and a batch is the whole of what    *)
(* was transferred; so is what the fetcher is about to publish.             *)
BatchesAreWhole ==
  /\ buffer = <<>> \/ \E R \in SUBSET Record : buffer = <<[records |-> R, whole |-> R]>>
  /\ fetch = "publish" => got = snap

(* Nothing is known or seen that is not registered, and within a batch the  *)
(* registered services are those known from before and those seen in it.    *)
SeenOrKnown ==
  hpc # "hung" =>
    known \cup (IF hpc \in {"register", "remove"} THEN inBatch ELSE {}) = registered

(* A usable record of the batch's zone is still to be handled, or its       *)
(* service has been seen.                                                   *)
RecordsAreHandled ==
  \A s \in Services :
    <<s, "valid">> \in whole =>
      \/ hpc = "register" /\ (<<s, "valid">> \in batch \/ s \in inBatch)
      \/ hpc = "remove" /\ s \in inBatch
      \/ hpc = "hung"

(* The inductive invariant of the handler and the fetcher. *)
IInv == TypeOK /\ BatchesAreWhole /\ SeenOrKnown /\ RecordsAreHandled

(* The records of a zone are records. *)
LEMMA RecordsOfZone ==
  ASSUME NEW z \in Zones
  PROVE  RecordsOf(z) \subseteq Record
BY DEF Zones, RecordsOf, Record

(* A channel of one batch. *)
LEMMA OneBatch ==
  ASSUME NEW b
  PROVE  Len(<<b>>) = 1 /\ Head(<<b>>) = b /\ Tail(<<b>>) = <<>>
OBVIOUS

(* The operator starts with nothing known, registered or on its way. *)
LEMMA InitIInv == Init => IInv
BY DEF Init, IInv, TypeOK, BatchesAreWhole, SeenOrKnown, RecordsAreHandled

(* No step of the fetcher disturbs the invariant: what it publishes has     *)
(* been transferred to the end.                                             *)
LEMMA FetcherIInv ==
  ASSUME IInv, Fetcher
  PROVE  IInv'
<1> USE DEF IInv, TypeOK, BatchesAreWhole, SeenOrKnown, RecordsAreHandled,
            FetchOnly, Over, zoneVars, fetchVars, handlerVars
<1>1. CASE TransferIn
  BY <1>1, RecordsOfZone DEF TransferIn
<1>2. CASE TransferRefused \/ ReceiveError \/ ReceiveTimeout \/ PublishTimeout \/ FetchCancelled
  BY <1>2 DEF TransferRefused, ReceiveError, ReceiveTimeout, PublishTimeout, FetchCancelled
<1>3. CASE ReceiveRecord
  BY <1>3 DEF ReceiveRecord
<1>4. CASE ReceiveEnd
  BY <1>4 DEF ReceiveEnd
<1>5. CASE Publish
  <2>1. got \in SUBSET Record /\ buffer' = <<[records |-> got, whole |-> got]>>
    BY <1>5 DEF Publish
  <2>2. BatchesAreWhole'
    BY <1>5, <2>1, Zenon DEF Publish
  <2>3. Len(buffer') <= 1
    BY <2>1, OneBatch
  <2> QED
    BY <1>5, <2>2, <2>3 DEF Publish
<1> QED
  BY <1>1, <1>2, <1>3, <1>4, <1>5 DEF Fetcher

(* No step of the handler disturbs it: a service leaves the known ones only *)
(* together with the registered ones, and only if the batch lacks it.       *)
LEMMA HandlerIInv ==
  ASSUME IInv, Handler
  PROVE  IInv'
<1> USE DEF IInv, TypeOK, BatchesAreWhole, SeenOrKnown, RecordsAreHandled,
            Over, zoneVars, fetchVars, handlerVars
<1>1. CASE TakeBatch
  <2>1. PICK R \in SUBSET Record : buffer = <<[records |-> R, whole |-> R]>>
    BY <1>1 DEF TakeBatch
  <2>2. Head(buffer) = [records |-> R, whole |-> R] /\ Tail(buffer) = <<>>
    BY <2>1, OneBatch, Zenon
  <2>3. batch' = R /\ whole' = R /\ buffer' = <<>>
    BY <1>1, <2>2 DEF TakeBatch
  <2>4. hpc = "select" /\ hpc' = "register" /\ inBatch' = {}
    BY <1>1 DEF TakeBatch
  <2>5. UNCHANGED <<zone, fetch, snap, got, known, registered>>
    BY <1>1 DEF TakeBatch
  <2>6. Len(buffer') <= 1
    BY <2>3
  <2>7. TypeOK' /\ BatchesAreWhole'
    BY <2>3, <2>4, <2>5, <2>6
  <2>8. SeenOrKnown'
    BY <2>4, <2>5
  <2>9. RecordsAreHandled'
    BY <2>3, <2>4
  <2> QED
    BY <2>7, <2>8, <2>9
<1>2. ASSUME NEW r \in Record, HandleRecord(r) PROVE IInv'
  <2>1. r[1] \in Services
    BY ZoneAssumption DEF Record
  <2>2. \A s \in Services : r = <<s, "valid">> => r[1] = s /\ r[2] = "valid"
    OBVIOUS
  <2> QED
    BY <1>2, <2>1, <2>2 DEF HandleRecord
<1>3. CASE RegisteredAll
  BY <1>3 DEF RegisteredAll
<1>4. ASSUME NEW s \in Services, RemoveService(s) PROVE IInv'
  BY <1>4 DEF RemoveService
<1>5. CASE RemovedAll
  BY <1>5 DEF RemovedAll
<1>6. CASE TakeError
  BY <1>6 DEF TakeError
<1>7. CASE StopHandling
  BY <1>7 DEF StopHandling
<1> QED
  BY <1>1, <1>2, <1>3, <1>4, <1>5, <1>6, <1>7 DEF Handler

(* Every step preserves the invariant. *)
LEMMA NextIInv == IInv /\ [Next]_vars => IInv'
<1> SUFFICES ASSUME IInv, [Next]_vars
             PROVE  IInv'
  OBVIOUS
<1>1. ASSUME NEW s \in Services, NEW v \in {"valid", "broken", "absent"}, Edit(s, v)
      PROVE  IInv'
  BY <1>1 DEF Edit, IInv, TypeOK, BatchesAreWhole, SeenOrKnown, RecordsAreHandled,
              fetchVars, handlerVars
<1>2. CASE Settle \/ Cancel \/ UNCHANGED vars
  BY <1>2 DEF Settle, Cancel, vars, IInv, TypeOK, BatchesAreWhole, SeenOrKnown,
              RecordsAreHandled, zoneVars, fetchVars, handlerVars
<1>3. CASE Fetcher
  BY <1>3, FetcherIInv
<1>4. CASE Handler
  BY <1>4, HandlerIInv
<1>5. CASE CallHangs
  BY <1>5 DEF CallHangs, IInv, TypeOK, BatchesAreWhole, SeenOrKnown,
              RecordsAreHandled, zoneVars, fetchVars, handlerVars
<1> QED
  BY <1>1, <1>2, <1>3, <1>4, <1>5 DEF Next

(* The inductive invariant holds in every behaviour. *)
THEOREM ZoneInvariant == Spec => []IInv
BY InitIInv, NextIInv, PTL DEF Spec

(* Between two batches the handler's knownServices are exactly the          *)
(* services of the manager (handler.go:120).                                *)
THEOREM ZoneKnowsRegistered == Spec => []KnowsRegistered
<1>1. IInv => KnowsRegistered
  BY DEF IInv, SeenOrKnown, KnowsRegistered
<1> QED
  BY <1>1, ZoneInvariant, PTL

(* handleZoneUpdates removes a service only if the zone, transferred to its *)
(* end, has no usable record of it.                                         *)
THEOREM ZoneRemovesOnlyAbsent == Spec => RemovesOnlyAbsent
<1> DEFINE Step == \A s \in registered \ registered' : <<s, "valid">> \notin whole
<1>1. ASSUME IInv, [Next]_vars
      PROVE  Step \/ UNCHANGED vars
  <2> SUFFICES ASSUME NEW t \in registered \ registered'
               PROVE  <<t, "valid">> \notin whole
    OBVIOUS
  <2>1. PICK s \in Services : RemoveService(s)
    BY <1>1 DEF Next, Edit, Settle, Cancel, Fetcher, Handler, TransferIn, TransferRefused,
                ReceiveRecord, ReceiveError, ReceiveTimeout, ReceiveEnd, Publish,
                PublishTimeout, FetchCancelled, FetchOnly, TakeBatch, HandleRecord,
                RegisteredAll, RemovedAll, CallHangs, TakeError, StopHandling, vars, handlerVars
  <2>2. t = s /\ t \notin inBatch /\ hpc = "remove"
    BY <2>1 DEF RemoveService
  <2> QED
    BY <1>1, <2>2 DEF IInv, RecordsAreHandled, TypeOK
<1> QED
  BY <1>1, ZoneInvariant, PTL DEF Spec, RemovesOnlyAbsent

=============================================================================
