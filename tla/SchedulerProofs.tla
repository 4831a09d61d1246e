-------------------------- MODULE SchedulerProofs --------------------------
(***************************************************************************)
(* Proofs about Scheduler for any services and any number of entries.  The *)
(* manager's calls fall between any two steps of the loop; what makes the  *)
(* queue safe is that a removal never takes the top away, so that a loop   *)
(* that has peeked finds something to pop, and that an entry the loop      *)
(* drops is one whose service was removed.  At the end the pool that the   *)
(* loop puts its checks on: WorkerPool, as the manager starts and stops it.*)
(***************************************************************************)
EXTENDS Scheduler, MCWorkerPool, SequenceTheorems, TLAPS

-----------------------------------------------------------------------------
(* The queue as a sequence without repetitions. *)

(* Where heap.Push leaves the entries. *)
LEMMA InsertAtPositions ==
  ASSUME NEW S, NEW h \in Seq(S), NEW e \in S, NEW i \in 1 .. Len(h) + 1
  PROVE  /\ InsertAt(h, i, e) \in Seq(S)
         /\ Len(InsertAt(h, i, e)) = Len(h) + 1
         /\ \A j \in 1 .. i - 1 : InsertAt(h, i, e)[j] = h[j]
         /\ InsertAt(h, i, e)[i] = e
         /\ \A j \in i .. Len(h) : InsertAt(h, i, e)[j + 1] = h[j]
<1> DEFINE a == SubSeq(h, 1, i - 1)
           b == SubSeq(h, i, Len(h))
           c == a \o <<e>>
<1>1. Len(h) \in Nat /\ \A j \in 1 .. Len(h) : h[j] \in S
  OBVIOUS
<1>2. /\ a \in Seq(S)
      /\ Len(a) = i - 1
      /\ \A j \in 1 .. i - 1 : a[j] = h[j]
  BY <1>1, SubSeqProperties
<1>3. /\ b \in Seq(S)
      /\ Len(b) = Len(h) - i + 1
      /\ \A j \in 1 .. Len(h) - i + 1 : b[j] = h[i + j - 1]
  BY <1>1, SubSeqProperties
<1>4. <<e>> \in Seq(S) /\ Len(<<e>>) = 1 /\ <<e>>[1] = e
  OBVIOUS
<1> HIDE DEF a, b
<1>5. /\ c \in Seq(S)
      /\ Len(c) = i
      /\ \A j \in 1 .. i : c[j] = IF j < i THEN h[j] ELSE e
  <2>1. /\ c \in Seq(S)
        /\ Len(c) = Len(a) + Len(<<e>>)
        /\ \A j \in 1 .. Len(a) + Len(<<e>>) :
             c[j] = IF j <= Len(a) THEN a[j] ELSE <<e>>[j - Len(a)]
    BY <1>2, <1>4, ConcatProperties
  <2> HIDE DEF c
  <2> QED
    BY <1>2, <1>4, <2>1
<1> HIDE DEF c
<1>6. /\ c \o b \in Seq(S)
      /\ Len(c \o b) = Len(c) + Len(b)
      /\ \A j \in 1 .. Len(c) + Len(b) :
           (c \o b)[j] = IF j <= Len(c) THEN c[j] ELSE b[j - Len(c)]
  BY <1>3, <1>5, ConcatProperties
<1>7. InsertAt(h, i, e) = c \o b
  BY DEF InsertAt, a, b, c
<1> QED
  BY <1>1, <1>3, <1>5, <1>6, <1>7

(* Where heap.Remove leaves the entries. *)
LEMMA RemoveAtPositions ==
  ASSUME NEW S, NEW h \in Seq(S), NEW i \in 1 .. Len(h)
  PROVE  /\ RemoveAt(h, i) \in Seq(S)
         /\ Len(RemoveAt(h, i)) = Len(h) - 1
         /\ \A j \in 1 .. Len(h) - 1 :
              RemoveAt(h, i)[j] = IF j < i THEN h[j] ELSE h[j + 1]
<1> DEFINE a == SubSeq(h, 1, i - 1)
           b == SubSeq(h, i + 1, Len(h))
<1>1. Len(h) \in Nat /\ \A j \in 1 .. Len(h) : h[j] \in S
  OBVIOUS
<1>2. /\ a \in Seq(S)
      /\ Len(a) = i - 1
      /\ \A j \in 1 .. i - 1 : a[j] = h[j]
  BY <1>1, SubSeqProperties
<1>3. /\ b \in Seq(S)
      /\ Len(b) = Len(h) - i
      /\ \A j \in 1 .. Len(h) - i : b[j] = h[i + j]
  BY <1>1, SubSeqProperties
<1> HIDE DEF a, b
<1> DEFINE r == a \o b
<1>4. /\ r \in Seq(S)
      /\ Len(r) = Len(a) + Len(b)
      /\ \A j \in 1 .. Len(a) + Len(b) :
           r[j] = IF j <= Len(a) THEN a[j] ELSE b[j - Len(a)]
  BY <1>2, <1>3, ConcatProperties
<1>5. RemoveAt(h, i) = r
  BY DEF RemoveAt, a, b
<1> HIDE DEF r
<1>6. \A j \in 1 .. Len(h) - 1 : r[j] = IF j < i THEN h[j] ELSE h[j + 1]
  <2>1. \A j \in 1 .. Len(h) - 1 : r[j] = IF j <= i - 1 THEN a[j] ELSE b[j - (i - 1)]
    <3>1. Len(a) + Len(b) = Len(h) - 1
      BY <1>1, <1>2, <1>3
    <3> QED
      BY <1>2, <1>4, <3>1
  <2>2. ASSUME NEW j \in 1 .. Len(h) - 1, j < i PROVE r[j] = h[j]
    BY <1>1, <1>2, <2>1, <2>2
  <2>3. ASSUME NEW j \in 1 .. Len(h) - 1, ~(j < i) PROVE r[j] = h[j + 1]
    <3>1. r[j] = b[j - (i - 1)] /\ j - (i - 1) \in 1 .. Len(h) - i
      BY <1>1, <2>1, <2>3
    <3>2. b[j - (i - 1)] = h[i + (j - (i - 1))] /\ i + (j - (i - 1)) = j + 1
      BY <1>1, <1>3, <3>1
    <3> QED
      BY <3>1, <3>2
  <2> QED
    BY <2>2, <2>3
<1>7. Len(r) = Len(h) - 1
  BY <1>1, <1>2, <1>3, <1>4
<1>8. r \in Seq(S)
  BY <1>4
<1> QED
  BY <1>5, <1>6, <1>7, <1>8, Zenon

(* Where heap.Pop leaves the entries. *)
LEMMA TailPositions ==
  ASSUME NEW S, NEW h \in Seq(S), h # <<>>
  PROVE  /\ Tail(h) \in Seq(S)
         /\ Len(Tail(h)) = Len(h) - 1
         /\ Len(h) \in Nat \ {0}
         /\ Head(h) = h[1]
         /\ Head(h) \in S
         /\ \A j \in 1 .. Len(h) - 1 : Tail(h)[j] = h[j + 1]
OBVIOUS

(* A new entry keeps the queue free of repetitions and adds just itself. *)
LEMMA InsertNew ==
  ASSUME NEW S, NEW h \in Seq(S), NEW e \in S, NEW i \in 1 .. Len(h) + 1,
         IsInjective(h), e \notin ToSet(h)
  PROVE  /\ InsertAt(h, i, e) \in Seq(S)
         /\ IsInjective(InsertAt(h, i, e))
         /\ Len(InsertAt(h, i, e)) = Len(h) + 1
         /\ ToSet(InsertAt(h, i, e)) = ToSet(h) \cup {e}
<1> DEFINE r == InsertAt(h, i, e)
<1>1. /\ r \in Seq(S)
      /\ Len(r) = Len(h) + 1
      /\ \A j \in 1 .. i - 1 : r[j] = h[j]
      /\ r[i] = e
      /\ \A j \in i .. Len(h) : r[j + 1] = h[j]
  BY InsertAtPositions
<1> HIDE DEF r
<1>2. \A j \in 1 .. Len(h) + 1 :
        \/ j < i /\ j \in 1 .. Len(h) /\ r[j] = h[j]
        \/ j = i /\ r[j] = e
        \/ j > i /\ j - 1 \in 1 .. Len(h) /\ r[j] = h[j - 1]
  <2> SUFFICES ASSUME NEW j \in 1 .. Len(h) + 1, j > i
               PROVE  j - 1 \in 1 .. Len(h) /\ r[j] = h[j - 1]
    BY <1>1
  <2>1. j - 1 \in i .. Len(h) /\ (j - 1) + 1 = j
    OBVIOUS
  <2> QED
    BY <1>1, <2>1
<1>3. DOMAIN r = 1 .. Len(h) + 1 /\ DOMAIN h = 1 .. Len(h) /\ Len(h) \in Nat
  BY <1>1
<1>4. \A j \in 1 .. Len(h) : h[j] # e
  BY <1>3 DEF ToSet
<1>5. \A j, k \in 1 .. Len(h) : h[j] = h[k] => j = k
  BY <1>3 DEF IsInjective
<1>6. IsInjective(r)
  <2>1. ASSUME NEW j \in 1 .. Len(h) + 1, NEW k \in 1 .. Len(h) + 1, r[j] = r[k]
        PROVE  j = k
    BY <1>2, <1>4, <1>5, <2>1
  <2> QED
    BY <1>3, <2>1 DEF IsInjective
<1>7. ToSet(r) = ToSet(h) \cup {e}
  <2>1. ASSUME NEW j \in 1 .. Len(h) + 1 PROVE r[j] \in ToSet(h) \cup {e}
    <3>1. \A k \in 1 .. Len(h) : h[k] \in ToSet(h)
      BY <1>3 DEF ToSet
    <3>2. CASE j < i
      <4>1. r[j] = h[j] /\ j \in 1 .. Len(h)
        BY <1>1, <1>3, <3>2
      <4> QED
        BY <3>1, <4>1
    <3>3. CASE j = i
      BY <1>1, <3>3
    <3>4. CASE j > i
      <4>1. r[j] = h[j - 1] /\ j - 1 \in 1 .. Len(h)
        BY <1>1, <1>3, <3>4
      <4> QED
        BY <3>1, <4>1
    <3> QED
      BY <1>3, <3>2, <3>3, <3>4
  <2>2. ASSUME NEW j \in 1 .. Len(h) PROVE h[j] \in ToSet(r)
    <3>1. CASE j < i
      BY <1>1, <1>3, <3>1 DEF ToSet
    <3>2. CASE ~(j < i)
      <4>1. r[j + 1] = h[j] /\ j + 1 \in 1 .. Len(h) + 1
        BY <1>1, <1>3, <3>2
      <4> QED
        BY <1>3, <4>1 DEF ToSet
    <3> QED
      BY <3>1, <3>2
  <2>3. e \in ToSet(r)
    BY <1>1, <1>3 DEF ToSet
  <2> QED
    BY <1>3, <2>1, <2>2, <2>3 DEF ToSet
<1> QED
  BY <1>1, <1>6, <1>7 DEF r

(* An entry that is taken out is the only one that goes. *)
LEMMA RemoveOld ==
  ASSUME NEW S, NEW h \in Seq(S), NEW i \in 1 .. Len(h), IsInjective(h)
  PROVE  /\ RemoveAt(h, i) \in Seq(S)
         /\ IsInjective(RemoveAt(h, i))
         /\ Len(RemoveAt(h, i)) = Len(h) - 1
         /\ ToSet(RemoveAt(h, i)) = ToSet(h) \ {h[i]}
<1> DEFINE r == RemoveAt(h, i)
<1>1. /\ r \in Seq(S)
      /\ Len(r) = Len(h) - 1
      /\ \A j \in 1 .. Len(h) - 1 : r[j] = IF j < i THEN h[j] ELSE h[j + 1]
  BY RemoveAtPositions
<1> HIDE DEF r
<1>2. DOMAIN r = 1 .. Len(h) - 1 /\ DOMAIN h = 1 .. Len(h) /\ Len(h) \in Nat
  BY <1>1
<1>3. \A j, k \in 1 .. Len(h) : h[j] = h[k] => j = k
  BY <1>2 DEF IsInjective
<1>4. IsInjective(r)
  <2>1. ASSUME NEW j \in 1 .. Len(h) - 1, NEW k \in 1 .. Len(h) - 1, r[j] = r[k]
        PROVE  j = k
    BY <1>1, <1>2, <1>3, <2>1
  <2> QED
    BY <1>2, <2>1 DEF IsInjective
<1>5. ToSet(r) = ToSet(h) \ {h[i]}
  <2>1. ASSUME NEW j \in 1 .. Len(h) - 1 PROVE r[j] \in ToSet(h) \ {h[i]}
    <3>1. CASE j < i
      BY <1>1, <1>2, <1>3, <3>1 DEF ToSet
    <3>2. CASE ~(j < i)
      <4>1. r[j] = h[j + 1] /\ j + 1 \in 1 .. Len(h) /\ j + 1 # i
        BY <1>1, <1>2, <3>2
      <4> QED
        BY <1>2, <1>3, <4>1 DEF ToSet
    <3> QED
      BY <3>1, <3>2
  <2>2. ASSUME NEW j \in 1 .. Len(h), j # i PROVE h[j] \in ToSet(r)
    <3>1. CASE j < i
      <4>1. r[j] = h[j] /\ j \in 1 .. Len(h) - 1
        BY <1>1, <1>2, <3>1
      <4> QED
        BY <1>2, <4>1 DEF ToSet
    <3>2. CASE j > i
      <4>1. r[j - 1] = h[j] /\ j - 1 \in 1 .. Len(h) - 1
        BY <1>1, <1>2, <3>2
      <4> QED
        BY <1>2, <4>1 DEF ToSet
    <3> QED
      BY <2>2, <3>1, <3>2
  <2> QED
    BY <1>2, <2>1, <2>2 DEF ToSet
<1> QED
  BY <1>1, <1>4, <1>5 DEF r

(* The same for heap.Pop, which takes the top. *)
LEMMA TailIsRemoveAt ==
  ASSUME NEW S, NEW h \in Seq(S), h # <<>>, IsInjective(h)
  PROVE  /\ Tail(h) \in Seq(S)
         /\ IsInjective(Tail(h))
         /\ Len(Tail(h)) = Len(h) - 1
         /\ ToSet(Tail(h)) = ToSet(h) \ {Head(h)}
<1>1. Head(h) = h[1] /\ 1 \in 1 .. Len(h)
  OBVIOUS
<1>2. Tail(h) = RemoveAt(h, 1)
  <2> DEFINE t == Tail(h)
             r == RemoveAt(h, 1)
  <2>1. /\ t \in Seq(S) /\ Len(t) = Len(h) - 1
        /\ \A j \in 1 .. Len(h) - 1 : t[j] = h[j + 1]
    BY TailPositions
  <2>2. /\ r \in Seq(S) /\ Len(r) = Len(h) - 1
        /\ \A j \in 1 .. Len(h) - 1 : r[j] = IF j < 1 THEN h[j] ELSE h[j + 1]
    BY <1>1, RemoveAtPositions
  <2> HIDE DEF t, r
  <2>3. t = r
    BY <2>1, <2>2
  <2> QED
    BY <2>3 DEF t, r
<1>3. /\ RemoveAt(h, 1) \in Seq(S)
      /\ IsInjective(RemoveAt(h, 1))
      /\ Len(RemoveAt(h, 1)) = Len(h) - 1
      /\ ToSet(RemoveAt(h, 1)) = ToSet(h) \ {h[1]}
  BY <1>1, RemoveOld
<1> QED
  BY <1>1, <1>2, <1>3

-----------------------------------------------------------------------------
(* The inductive invariant: UnservedIsMissed is also true of a loop that is *)
(* on its way out.                                                          *)
LeavesIfEmpty == heap # <<>> /\ ~stopped /\ pc \in {"off", "exiting"} => missed

SInv ==
  /\ PopFindsEntry
  /\ WantedIsQueued
  /\ LeavesIfEmpty

(* A live entry of s is on the queue. *)
LEMMA Witness ==
  ASSUME NEW s, LiveOf(s) # {}
  PROVE  \E e \in ToSet(heap) \cap live : svcOf[e] = s
BY DEF LiveOf, Queued

(* What the type of the queue says of its length, its top and its entries. *)
LEMMA QueueFacts ==
  ASSUME TypeOK
  PROVE  /\ heap \in Seq(Entries)
         /\ IsInjective(heap)
         /\ Len(heap) \in Nat
         /\ due \in Nat
         /\ due <= Len(heap)
         /\ heap = <<>> <=> Len(heap) = 0
         /\ ToSet(heap) \subseteq Entries
         /\ heap # <<>> => Head(heap) \in ToSet(heap) /\ Head(heap) = heap[1]
         /\ \A i \in 1 .. Len(heap) : heap[i] \in ToSet(heap)
BY DEF TypeOK, ToSet

(* ScheduleService: an entry is added behind those that are due. *)
LEMMA ScheduleKeeps ==
  ASSUME SInv, NEW s \in Services, NEW e \in Entries, ScheduleService(s, e)
  PROVE  SInv'
<1>1. TypeOK
  BY DEF SInv, PopFindsEntry
<1>2. /\ ~stopped /\ e \notin ToSet(heap)
      /\ svcOf' = [svcOf EXCEPT ![e] = s]
      /\ live' = live \cup {e}
      /\ pc' = StartLoop(heap')
      /\ wanted' = wanted \cup {s}
      /\ missed' = (missed \/ pc = "exiting")
      /\ UNCHANGED <<due, next, stopped>>
  BY DEF ScheduleService, Queued
<1>3. PICK i \in due + 1 .. Len(heap) + 1 : heap' = InsertAt(heap, i, e)
  BY DEF ScheduleService, Push
<1>4. i \in 1 .. Len(heap) + 1
  BY <1>1, <1>3, QueueFacts
<1>5. /\ heap' \in Seq(Entries)
      /\ IsInjective(heap')
      /\ Len(heap') = Len(heap) + 1
      /\ ToSet(heap') = ToSet(heap) \cup {e}
  BY <1>1, <1>2, <1>3, <1>4, QueueFacts, InsertNew
<1>6. heap' # <<>>
  BY <1>1, <1>5, QueueFacts
<1>7. missed' \in BOOLEAN
  BY <1>2
<1>8. pc' \in {"off", "check", "wait", "ticked", "exiting"}
  BY <1>1, <1>2 DEF TypeOK, StartLoop
<1>9. TypeOK'
  BY <1>1, <1>2, <1>5, <1>7, <1>8, QueueFacts DEF TypeOK
<1>10. WantedIsQueued'
  <2>1. ASSUME NEW t \in wanted' PROVE LiveOf(t)' # {}
    <3>1. CASE t = s
      BY <1>1, <1>2, <1>5, <3>1 DEF LiveOf, Queued, TypeOK
    <3>2. CASE t \in wanted
      <4>1. PICK f \in ToSet(heap) \cap live : svcOf[f] = t
        BY <3>2, Witness DEF SInv, WantedIsQueued
      <4>2. f \in ToSet(heap') \cap live' /\ svcOf'[f] = t
        BY <1>1, <1>2, <1>5, <4>1, QueueFacts DEF TypeOK
      <4> QED
        BY <4>2 DEF LiveOf, Queued
    <3> QED
      BY <1>2, <3>1, <3>2
  <2> QED
    BY <1>2, <2>1 DEF WantedIsQueued
<1>11. LeavesIfEmpty'
  <2>1. CASE heap = <<>>
    <3>1. Len(heap') = 1
      BY <1>1, <1>5, <2>1, QueueFacts
    <3>2. pc' = IF pc = "off" THEN "check" ELSE pc
      BY <1>2, <3>1 DEF StartLoop
    <3>3. pc = "exiting" => missed'
      BY <1>2
    <3> QED
      BY <3>2, <3>3 DEF LeavesIfEmpty
  <2>2. CASE heap # <<>>
    BY <1>1, <1>2, <1>5, <2>2, QueueFacts DEF SInv, LeavesIfEmpty, StartLoop
  <2> QED
    BY <2>1, <2>2
<1> QED
  BY <1>6, <1>9, <1>10, <1>11 DEF SInv, PopFindsEntry

(* RemoveService: whoever else is wanted keeps its live entry, and the      *)
(* scheduler is only closed if there is nobody else.                        *)
LEMMA RemoveKeeps ==
  ASSUME SInv, NEW s \in Services, RemoveService(s)
  PROVE  SInv'
<1>1. TypeOK
  BY DEF SInv, PopFindsEntry
<1>2. /\ ~stopped
      /\ wanted' = wanted \ {s}
      /\ UNCHANGED <<svcOf, pc, next, missed>>
  BY DEF RemoveService
<1>3. \A t \in wanted : \E f \in ToSet(heap) \cap live : svcOf[f] = t
  BY Witness DEF SInv, WantedIsQueued
(* What is left to show of each way to remove. *)
<1>4. ASSUME heap' \in Seq(Entries), IsInjective(heap'), due' \in 0 .. Len(heap'),
             live' \subseteq live, stopped' \in BOOLEAN,
             heap' = <<>> <=> heap = <<>>,
             \A f \in ToSet(heap) \cap live :
               svcOf[f] # s => f \in ToSet(heap') \cap live',
             stopped' => wanted \subseteq {s}
      PROVE  SInv'
  <2>1. TypeOK'
    BY <1>1, <1>2, <1>4 DEF TypeOK
  <2>2. WantedIsQueued'
    <3>1. ASSUME NEW t \in wanted' PROVE LiveOf(t)' # {} /\ ~stopped'
      <4>1. PICK f \in ToSet(heap) \cap live : svcOf[f] = t
        BY <1>2, <1>3, <3>1
      <4>2. f \in ToSet(heap') \cap live' /\ svcOf'[f] = t
        BY <1>2, <1>4, <3>1, <4>1
      <4> QED
        BY <1>2, <1>4, <3>1, <4>2 DEF LiveOf, Queued
    <3> QED
      BY <3>1 DEF WantedIsQueued
  <2>3. LeavesIfEmpty' /\ PopFindsEntry'
    BY <1>2, <1>4, <2>1 DEF SInv, LeavesIfEmpty, PopFindsEntry
  <2> QED
    BY <2>2, <2>3 DEF SInv
<1>5. CASE RemoveAbsent(s)
  <2>1. Len(heap) = 0 => wanted = {}
    BY <1>1, <1>3, QueueFacts DEF ToSet
  <2>2. UNCHANGED <<heap, due, live>> /\ stopped' \in BOOLEAN
        /\ (stopped' => Len(heap) = 0)
    BY <1>5 DEF RemoveAbsent, Cleanup
  <2> QED
    BY <1>1, <1>4, <2>1, <2>2 DEF TypeOK
<1>6. CASE RemoveTop(s)
  <2>1. /\ heap # <<>>
        /\ svcOf[Head(heap)] = s
        /\ live' = live \ {Head(heap)}
        /\ UNCHANGED <<heap, due>>
        /\ stopped' \in BOOLEAN
        /\ stopped' => Len(heap) = 1
    BY <1>6 DEF RemoveTop, Cleanup
  <2>2. Len(heap) = 1 => ToSet(heap) = {Head(heap)}
    BY <1>1, <2>1, QueueFacts DEF ToSet
  <2>3. stopped' => wanted \subseteq {s}
    BY <1>3, <2>1, <2>2
  <2> QED
    BY <1>1, <1>4, <2>1, <2>3 DEF TypeOK
<1>7. CASE RemoveInner(s)
  <2>1. PICK i \in 2 .. Len(heap) :
          /\ svcOf[heap[i]] = s
          /\ heap' = RemoveAt(heap, i)
          /\ due' = IF i <= due THEN due - 1 ELSE due
          /\ live' = live \ {heap[i]}
    BY <1>7 DEF RemoveInner
  <2>2. i \in 1 .. Len(heap)
    BY <1>1, <2>1, QueueFacts
  <2>3. /\ heap' \in Seq(Entries)
        /\ IsInjective(heap')
        /\ Len(heap') = Len(heap) - 1
        /\ ToSet(heap') = ToSet(heap) \ {heap[i]}
    BY <1>1, <2>1, <2>2, QueueFacts, RemoveOld
  <2>4. heap' # <<>> /\ heap # <<>> /\ due' \in 0 .. Len(heap') /\ Len(heap') # 0
    BY <1>1, <2>1, <2>2, <2>3, QueueFacts
  <2>5. stopped' = FALSE
    BY <1>7, <2>4 DEF RemoveInner, Cleanup
  <2> QED
    BY <1>4, <2>1, <2>3, <2>4, <2>5
<1> QED
  BY <1>5, <1>6, <1>7 DEF RemoveService

(* reSchedule: what is on top is put back if it is live, and else dropped. *)
LEMMA ReScheduleKeeps ==
  ASSUME SInv, ReSchedule
  PROVE  SInv'
<1>1. TypeOK /\ heap # <<>>
  BY DEF SInv, PopFindsEntry, ReSchedule
<1>2. /\ due' = IF due > 0 THEN due - 1 ELSE 0
      /\ pc' = "check"
      /\ next' = none
      /\ UNCHANGED <<svcOf, live, stopped, wanted, missed>>
  BY DEF ReSchedule
<1> DEFINE t == Tail(heap)
           e == Head(heap)
<1>3. /\ t \in Seq(Entries)
      /\ IsInjective(t)
      /\ Len(t) = Len(heap) - 1
      /\ ToSet(t) = ToSet(heap) \ {e}
      /\ e \in Entries
  BY <1>1, QueueFacts, TailIsRemoveAt
<1>4. due' \in 0 .. Len(t) /\ Len(t) \in Nat
  BY <1>1, <1>2, <1>3, QueueFacts
<1>5. \/ e \in live /\ \E i \in due' + 1 .. Len(t) + 1 : heap' = InsertAt(t, i, e)
      \/ e \notin live /\ heap' = t
  BY DEF ReSchedule, Push
<1> HIDE DEF t, e
<1>6. /\ heap' \in Seq(Entries)
      /\ IsInjective(heap')
      /\ Len(heap') >= Len(t)
      /\ Len(heap') \in Nat
      /\ ToSet(heap) \cap live \subseteq ToSet(heap')
  <2>1. CASE e \notin live /\ heap' = t
    BY <1>3, <1>4, <2>1
  <2>2. CASE \E i \in due' + 1 .. Len(t) + 1 : heap' = InsertAt(t, i, e)
    <3>1. PICK i \in due' + 1 .. Len(t) + 1 : heap' = InsertAt(t, i, e)
      BY <2>2
    <3>2. i \in 1 .. Len(t) + 1 /\ e \notin ToSet(t)
      <4>1. i \in 1 .. Len(t) + 1
        <5>1. \A d, n, j : d \in 0 .. n /\ n \in Nat /\ j \in d + 1 .. n + 1
                             => j \in 1 .. n + 1
          OBVIOUS
        <5> QED
          BY <1>4, <3>1, <5>1, Zenon
      <4>2. e \notin ToSet(t)
        BY <1>3
      <4> QED
        BY <4>1, <4>2
    <3>3. /\ heap' \in Seq(Entries)
          /\ IsInjective(heap')
          /\ Len(heap') = Len(t) + 1
          /\ ToSet(heap') = ToSet(t) \cup {e}
      BY <1>3, <3>1, <3>2, InsertNew
    <3> QED
      BY <1>3, <1>4, <3>3
  <2> QED
    BY <1>5, <2>1, <2>2
<1>7. TypeOK'
  <2>1. due' \in 0 .. Len(heap')
    BY <1>4, <1>6
  <2> QED
    BY <1>1, <1>2, <1>6, <2>1 DEF TypeOK
<1>8. WantedIsQueued'
  <2>1. ASSUME NEW s \in wanted PROVE LiveOf(s)' # {}
    <3>1. PICK f \in ToSet(heap) \cap live : svcOf[f] = s
      BY <2>1, Witness DEF SInv, WantedIsQueued
    <3> QED
      BY <1>2, <1>6, <3>1 DEF LiveOf, Queued
  <2> QED
    BY <1>2, <2>1 DEF SInv, WantedIsQueued
<1> QED
  BY <1>2, <1>7, <1>8 DEF SInv, PopFindsEntry, LeavesIfEmpty

(* The steps that leave the queue alone. *)
LEMMA QueueUntouched ==
  ASSUME SInv, UNCHANGED <<heap, live, svcOf>>, TypeOK',
         wanted' = {} \/ (wanted' = wanted /\ stopped' = stopped),
         pc' \in {"wait", "ticked"} => heap # <<>>,
         LeavesIfEmpty'
  PROVE  SInv'
<1>1. WantedIsQueued'
  BY DEF SInv, WantedIsQueued, LiveOf, Queued
<1> QED
  BY <1>1 DEF SInv, PopFindsEntry

(* Every step of the manager, of the loop and of time keeps the invariant. *)
LEMMA StepKeepsSInv == SInv /\ [Next]_vars => SInv'
<1> SUFFICES ASSUME SInv, [Next]_vars PROVE SInv'
  OBVIOUS
<1>1. TypeOK /\ LeavesIfEmpty /\ (pc \in {"wait", "ticked"} => heap # <<>>)
  BY DEF SInv, PopFindsEntry
<1>2. CASE \E s \in Services, e \in Entries : ScheduleService(s, e)
  BY <1>2, ScheduleKeeps
<1>3. CASE \E s \in Services : RemoveService(s)
  BY <1>3, RemoveKeeps
<1>4. CASE Stop
  <2>1. TypeOK'
    BY <1>1, <1>4 DEF Stop, TypeOK
  <2>2. LeavesIfEmpty'
    BY <1>4 DEF Stop, LeavesIfEmpty
  <2> QED
    BY <1>1, <1>4, <2>1, <2>2, QueueUntouched DEF Stop
<1>5. CASE LoopCheck
  <2>1. /\ UNCHANGED <<heap, due, svcOf, live, stopped, wanted, missed>>
        /\ \/ /\ stopped \/ heap = <<>>
              /\ pc' = "exiting"
              /\ next' = none
           \/ /\ heap # <<>>
              /\ pc' = "wait"
              /\ next' = Head(heap)
    BY <1>5 DEF LoopCheck, LoopExits
  <2>2. next' \in Entries \cup {none}
    BY <1>1, <2>1, QueueFacts
  <2>3. TypeOK'
    BY <1>1, <2>1, <2>2 DEF TypeOK
  <2>4. LeavesIfEmpty'
    BY <2>1 DEF LeavesIfEmpty
  <2> QED
    BY <2>1, <2>3, <2>4, QueueUntouched
<1>6. CASE LoopTick
  BY <1>1, <1>6, QueueUntouched DEF LoopTick, TypeOK, LeavesIfEmpty
<1>7. CASE LoopStops
  BY <1>1, <1>7, QueueUntouched DEF LoopStops, LoopExits, TypeOK, LeavesIfEmpty
<1>8. CASE ReSchedule
  BY <1>8, ReScheduleKeeps
<1>9. CASE LoopOff
  BY <1>1, <1>9, QueueUntouched DEF LoopOff, TypeOK, LeavesIfEmpty
<1>10. CASE TimePasses
  <2>1. TypeOK'
    BY <1>1, <1>10, QueueFacts DEF TimePasses, TypeOK
  <2> QED
    BY <1>1, <1>10, <2>1, QueueUntouched DEF TimePasses, LeavesIfEmpty
<1>11. CASE UNCHANGED vars
  BY <1>1, <1>11, QueueUntouched DEF vars, TypeOK, LeavesIfEmpty
<1> QED
  BY <1>2, <1>3, <1>4, <1>5, <1>6, <1>7, <1>8, <1>9, <1>10, <1>11 DEF Next, Loop

(* The inductive invariant holds in every state. *)
THEOREM Inductive == Spec => []SInv
<1>1. Init => SInv
  <2> SUFFICES ASSUME Init PROVE SInv
    OBVIOUS
  <2>1. TypeOK
    <3>1. heap = <<>> /\ <<>> \in Seq(Entries) /\ Len(<<>>) = 0 /\ IsInjective(<<>>)
      BY DEF Init, IsInjective
    <3>2. due \in 0 .. Len(heap)
      BY <3>1 DEF Init
    <3>3. heap \in Seq(Entries) /\ IsInjective(heap)
      BY <3>1
    <3> QED
      BY <3>2, <3>3 DEF Init, TypeOK
  <2> QED
    BY <2>1 DEF Init, SInv, PopFindsEntry, WantedIsQueued, LeavesIfEmpty
<1> QED
  BY <1>1, StepKeepsSInv, PTL DEF Spec

(* heap.Pop in reSchedule never meets an empty queue: RemoveService only    *)
(* marks the top, and takes an inner entry only when there is a top.        *)
THEOREM PopFinds == Spec => []PopFindsEntry
<1>1. SInv => PopFindsEntry
  BY DEF SInv
<1> QED
  BY <1>1, Inductive, PTL

(* No service that is scheduled and not removed loses its live entry, and   *)
(* no scheduler that still has one is closed by cleanupInterval.            *)
THEOREM WantedQueued == Spec => []WantedIsQueued
<1>1. SInv => WantedIsQueued
  BY DEF SInv
<1> QED
  BY <1>1, Inductive, PTL

(* A queue without a loop is one on which a service was scheduled between   *)
(* the loop's last look and the clearing of isRunning.                      *)
THEOREM UnservedMissed == Spec => []UnservedIsMissed
<1>1. SInv => UnservedIsMissed
  BY DEF SInv, LeavesIfEmpty, UnservedIsMissed
<1> QED
  BY <1>1, Inductive, PTL

-----------------------------------------------------------------------------
(* The worker pool in the hands of the ServicesManager, for any number of   *)
(* putters, any capacity and any minimum of workers.                        *)

(* The properties of the pool are inductive only together with what the     *)
(* manager's order of stopping establishes: once the schedulers have been   *)
(* waited for, every putter that is not late is gone and no worker is       *)
(* waiting to be started.                                                   *)
PoolStopped ==
  /\ stop = "no" => late = {}
  /\ stop \in {"marked", "waiting", "closed"} => closed = "yes"
  /\ stop # "no" => /\ spawning = 0
                    /\ \A p \in Putters : put[p] = "gone" \/ p \in late
  /\ \A p \in Putters : put[p] = "panic" => p \in late

PoolEmpty == stop = "closed" /\ late = {} => idle + busy = 0

PoolInv == W!TypeOK /\ W!CountsWorkers /\ W!AtLeastMin /\ PoolStopped /\ PoolEmpty

(* The types, and with them the other parts, hold initially. *)
LEMMA PoolInvInit == W!Init => PoolInv
BY PoolAssumption DEF W!ConstantsOK, W!Init, PoolInv, W!TypeOK, W!CountsWorkers, W!AtLeastMin, PoolStopped,
       PoolEmpty

(* No step of the pool or of its users breaks the invariant. *)
LEMMA PoolInvNext ==
  PoolInv /\ [W!Next]_(W!vars) => PoolInv'
<1>1. SUFFICES ASSUME PoolInv, [W!Next]_(W!vars) PROVE PoolInv'
  OBVIOUS
<1> USE PoolAssumption DEF W!ConstantsOK, PoolInv, W!TypeOK, W!CountsWorkers, W!AtLeastMin, PoolStopped,
            PoolEmpty
<1>2. CASE W!Start
  BY <1>1, <1>2 DEF W!Start
<1>3. CASE W!Spawn
  BY <1>1, <1>3 DEF W!Spawn, W!NewWorker
<1>4. ASSUME NEW p \in Putters, W!PutCheck(p) PROVE PoolInv'
  BY <1>1, <1>4 DEF W!PutCheck, W!At
<1>5. ASSUME NEW p \in Putters, W!PutScale(p) PROVE PoolInv'
  BY <1>1, <1>5 DEF W!PutScale, W!At
<1>6. ASSUME NEW p \in Putters, W!PutGrow(p) PROVE PoolInv'
  BY <1>1, <1>6 DEF W!PutGrow, W!At, W!NewWorker
<1>7. ASSUME NEW p \in Putters, W!PutSend(p) PROVE PoolInv'
  BY <1>1, <1>7 DEF W!PutSend, W!At
<1>8. ASSUME NEW p \in Putters, W!Retire(p) PROVE PoolInv'
  BY <1>1, <1>8 DEF W!Retire, W!At
<1>9. CASE W!Take
  BY <1>1, <1>9 DEF W!Take
<1>10. CASE W!Finish
  BY <1>1, <1>10 DEF W!Finish
<1>11. CASE W!Quit
  BY <1>1, <1>11 DEF W!Quit, W!Quitting
<1>12. CASE W!IdleStop
  BY <1>1, <1>12 DEF W!IdleStop
<1>13. ASSUME NEW t \in Targets, W!ScaleTo(t) PROVE PoolInv'
  BY <1>1, <1>13 DEF W!ScaleTo, W!Missing
<1>14. CASE W!StopQuit
  BY <1>1, <1>14 DEF W!StopQuit
<1>15. CASE W!StopClose
  BY <1>1, <1>15 DEF W!StopClose
<1>16. CASE W!SchedulersWaited
  BY <1>1, <1>16 DEF W!SchedulersGone, W!SchedulersWaited
<1>17. CASE W!StopMark
  BY <1>1, <1>17 DEF W!StopMark
<1>18. ASSUME NEW p \in Putters, W!PutPanics(p) PROVE PoolInv'
  BY <1>1, <1>18 DEF W!PutPanics, W!At
<1>19. ASSUME NEW p \in Putters, W!StartLoop(p) PROVE PoolInv'
  BY <1>1, <1>19 DEF W!StartLoop, W!At
<1>20. CASE W!LeaveClosed
  BY <1>1, <1>20 DEF W!LeaveClosed
<1>21. CASE UNCHANGED W!vars
  BY <1>1, <1>21 DEF W!vars
<1>22. QED
  BY <1>1, <1>2, <1>3, <1>4, <1>5, <1>6, <1>7, <1>8, <1>9, <1>10, <1>11,
     <1>12, <1>13, <1>14, <1>15, <1>16, <1>17, <1>18, <1>19, <1>20, <1>21 DEF W!Next

(* The invariant holds in every state of the managed pool. *)
LEMMA PoolInvariant == PoolSpec => []PoolInv
BY PoolInvInit, PoolInvNext, PTL DEF PoolSpec, W!Spec

(* The variables of the pool keep their types; in particular the unsigned   *)
(* numRunningWorkers is never taken below zero.                             *)
THEOREM PoolTypeCorrect == PoolSpec => []PoolTypeOK
<1>1. PoolInv => PoolTypeOK
  BY DEF PoolInv, PoolTypeOK
<1>2. QED
  BY <1>1, PoolInvariant, PTL

(* numRunningWorkers counts the worker goroutines, whatever workers start,  *)
(* idle out and quit at the same time, as long as no scheduler is started   *)
(* while the manager stops.                                                 *)
THEOREM PoolCountsWorkers == PoolSpec => []W!CountsWorkers
<1>1. PoolInv => W!CountsWorkers
  BY DEF PoolInv
<1>2. QED
  BY <1>1, PoolInvariant, PTL

(* While the pool is open, the workers running and those being started make *)
(* up the minimum, also when the minimum is changed.                        *)
THEOREM PoolAtLeastMin == PoolSpec => []AtLeastMin
<1>1. PoolInv => AtLeastMin
  BY DEF PoolInv, AtLeastMin
<1>2. QED
  BY <1>1, PoolInvariant, PTL

(* A send on the closed channel, or a worker after it, takes a scheduler    *)
(* that a callback has started after the manager's wait (manager.go:88).    *)
THEOREM PoolClosedIsDeserted == PoolSpec => []ClosedIsDeserted
<1>1. PoolInv => ClosedIsDeserted
  BY DEF ClosedIsDeserted, PoolInv, W!TypeOK, PoolStopped, PoolEmpty, W!ClosedIsDeserted
<1>2. QED
  BY <1>1, PoolInvariant, PTL

=============================================================================
