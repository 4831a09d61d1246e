-------------------------- MODULE RepositoryProofs --------------------------
(***************************************************************************)
(* Proofs about RepoStore for any services, any values and any number of   *)
(* callers, and, at the end, about Overrides.                              *)
(*                                                                         *)
(* The argument has three layers.  StoreTypes: slices stay in the bounds   *)
(* of their arrays, calls have what their step needs, and the file is      *)
(* empty while it is locked.  Clean: with no change left to save, what is  *)
(* cached is what is in the file or on its way there.  Kempt, while no     *)
(* calls overlap in a way that loses writes: a call that changes the       *)
(* length of the group is alone, all others share the cached slice and     *)
(* have the right index in it, and the last value given to each service is *)
(* in the slice that will be saved, and then in the file.                  *)
(*                                                                         *)
(* Facts about all sequences (the first position of an entry, the entries  *)
(* that a deletion keeps) are proved from least counterexamples.           *)
(***************************************************************************)
EXTENDS RepoStore, MCOverrides, FiniteSetTheorems, WellFoundedInduction, SequenceTheorems, TLAPS

-----------------------------------------------------------------------------
(* Least elements, and the operators on sequences. *)

(* A set of natural numbers that is not empty has a least one. *)
LEMMA LeastNatural ==
  ASSUME NEW T \in SUBSET Nat, T # {}
  PROVE  \E x \in T : \A y \in T : x <= y
<1> DEFINE R == OpToRel(<, Nat)
<1>1. IsWellFoundedOn(R, Nat)
  BY NatLessThanWellFounded
<1>2. \A x, y \in Nat : x < y => <<x, y>> \in R
  BY DEF OpToRel
<1> HIDE DEF R
<1>3. PICK x \in T : \A y \in T : ~ (<<y, x>> \in R)
  BY <1>1, WFMin
<1>4. ASSUME NEW y \in T PROVE x <= y
  <2>1. x \in Nat /\ y \in Nat
    OBVIOUS
  <2>2. ~ (y < x)
    BY <1>2, <1>3, <2>1, Zenon
  <2> QED
    BY <2>1, <2>2
<1> QED
  BY <1>4

(* The least element is the one Min returns. *)
LEMMA MinIsLeast ==
  ASSUME NEW T \in SUBSET Nat, T # {}
  PROVE  Min(T) \in T /\ \A y \in T : Min(T) <= y
<1>1. \E x \in T : \A y \in T : x <= y
  BY LeastNatural
<1> QED
  BY <1>1 DEF Min

(* Index is the first position of an entry of the service, or 0. *)
LEMMA IndexIsFirst ==
  ASSUME NEW es \in Seq(Entry), NEW s
  PROVE  /\ Index(es, s) \in 0 .. Len(es)
         /\ Index(es, s) = 0 => \A i \in 1 .. Len(es) : es[i].id # s
         /\ Index(es, s) # 0 => /\ es[Index(es, s)].id = s
                                /\ \A i \in 1 .. Index(es, s) - 1 : es[i].id # s
<1> DEFINE I == {i \in 1 .. Len(es) : es[i].id = s}
<1>1. Index(es, s) = IF I # {} THEN Min(I) ELSE 0
  BY DEF Index, SelectInSeq
<1>2. I \in SUBSET Nat
  OBVIOUS
<1>3. I # {} => Min(I) \in I /\ \A y \in I : Min(I) <= y
  BY <1>2, MinIsLeast
<1>4. \A i \in 1 .. Len(es) : i \in I <=> es[i].id = s
  OBVIOUS
<1>5. \A i \in I : i \in 1 .. Len(es)
  OBVIOUS
<1> HIDE DEF I
<1>6. CASE I = {}
  BY <1>1, <1>4, <1>6
<1>7. CASE I # {}
  BY <1>1, <1>3, <1>4, <1>5, <1>7
<1> QED
  BY <1>6, <1>7

(* It is the only position with these properties. *)
LEMMA IndexIs ==
  ASSUME NEW es \in Seq(Entry), NEW s, NEW i \in 1 .. Len(es), es[i].id = s,
         \A j \in 1 .. i - 1 : es[j].id # s
  PROVE  Index(es, s) = i
<1>1. Index(es, s) # 0
  BY IndexIsFirst
<1> QED
  BY <1>1, IndexIsFirst

(* The values that the entries give to a service. *)
LEMMA ValueOf ==
  ASSUME NEW es \in Seq(Entry), NEW s \in Services
  PROVE  ValuesOf(es)[s] = IF Index(es, s) = 0 THEN none ELSE es[Index(es, s)].val
BY DEF ValuesOf

(* Two functions on the services. *)
LEMMA SameValues ==
  ASSUME NEW f, f = [s \in Services |-> f[s]], NEW es, \A s \in Services : ValuesOf(es)[s] = f[s]
  PROVE  ValuesOf(es) = f
BY DEF ValuesOf

(* An entry that replaces the first one of its service. *)
LEMMA ValuesOfUpdate ==
  ASSUME NEW es \in Seq(Entry), NEW e \in Entry, NEW i, i = Index(es, e.id), i # 0,
         NEW fs \in Seq(Entry), Len(fs) = Len(es),
         \A j \in 1 .. Len(es) : fs[j] = IF j = i THEN e ELSE es[j]
  PROVE  /\ Len(fs) = Len(es)
         /\ \A s : Index(fs, s) = Index(es, s)
         /\ \A s \in Services : ValuesOf(fs)[s] = IF s = e.id THEN e.val ELSE ValuesOf(es)[s]
<1>1. i \in 1 .. Len(es) /\ es[i].id = e.id
  BY IndexIsFirst
<1>2. Len(fs) = Len(es) /\ \A j \in 1 .. Len(es) : fs[j] = IF j = i THEN e ELSE es[j]
  OBVIOUS
<1>3. \A j \in 1 .. Len(es) : fs[j].id = es[j].id
  BY <1>1, <1>2
<1>4. ASSUME NEW s PROVE Index(fs, s) = Index(es, s)
  <2>1. CASE Index(es, s) = 0
    <3>1. \A j \in 1 .. Len(es) : es[j].id # s
      BY <2>1, IndexIsFirst
    <3>2. \A j \in 1 .. Len(fs) : fs[j].id # s
      BY <1>2, <1>3, <3>1
    <3>3. Index(fs, s) \in 0 .. Len(fs) /\ (Index(fs, s) # 0 => fs[Index(fs, s)].id = s)
      BY IndexIsFirst
    <3>4. Len(fs) \in Nat
      OBVIOUS
    <3>5. Index(fs, s) = 0
      BY <3>2, <3>3, <3>4
    <3> QED
      BY <2>1, <3>5
  <2>2. CASE Index(es, s) # 0
    <3>1. PICK k : k = Index(es, s)
      OBVIOUS
    <3>2. /\ k \in 1 .. Len(es) /\ es[k].id = s
          /\ \A j \in 1 .. k - 1 : es[j].id # s
      BY <2>2, <3>1, IndexIsFirst
    <3>3. k \in 1 .. Len(fs) /\ fs[k].id = s /\ \A j \in 1 .. k - 1 : fs[j].id # s
      BY <1>2, <1>3, <3>2
    <3> QED
      BY <3>1, <3>3, IndexIs
  <2> QED
    BY <2>1, <2>2
<1>5. ASSUME NEW s \in Services
      PROVE  ValuesOf(fs)[s] = IF s = e.id THEN e.val ELSE ValuesOf(es)[s]
  <2>1. ValuesOf(fs)[s] = IF Index(es, s) = 0 THEN none ELSE fs[Index(es, s)].val
    BY <1>4, ValueOf
  <2>2. ValuesOf(es)[s] = IF Index(es, s) = 0 THEN none ELSE es[Index(es, s)].val
    BY ValueOf
  <2>3. Index(es, s) \in 0 .. Len(es)
    BY IndexIsFirst
  <2>4. Index(es, s) # 0 => es[Index(es, s)].id = s
    BY IndexIsFirst
  <2>5. s # e.id => Index(es, s) # i
    BY <1>1, <2>4
  <2> QED
    BY <1>1, <1>2, <2>1, <2>2, <2>3, <2>5
<1> QED
  BY <1>2, <1>4, <1>5

(* An entry appended for a service that had none. *)
LEMMA ValuesOfAppend ==
  ASSUME NEW es \in Seq(Entry), NEW e \in Entry, Index(es, e.id) = 0
  PROVE  /\ Append(es, e) \in Seq(Entry)
         /\ \A s \in Services :
              ValuesOf(Append(es, e))[s] = IF s = e.id THEN e.val ELSE ValuesOf(es)[s]
<1> DEFINE fs == Append(es, e)
           n == Len(es)
<1>1. /\ fs \in Seq(Entry) /\ Len(fs) = n + 1 /\ n \in Nat
      /\ \A i \in 1 .. n : fs[i] = es[i]
      /\ fs[n + 1] = e
  OBVIOUS
<1> HIDE DEF fs
<1>2. ASSUME NEW s \in Services
      PROVE  ValuesOf(fs)[s] = IF s = e.id THEN e.val ELSE ValuesOf(es)[s]
  <2>1. CASE s = e.id
    <3>1. \A i \in 1 .. n : es[i].id # s
      BY <2>1, IndexIsFirst
    <3>2. n + 1 \in 1 .. Len(fs) /\ fs[n + 1].id = s /\ fs[n + 1].val = e.val /\ n + 1 # 0
      BY <1>1, <2>1
    <3>3. \A j \in 1 .. (n + 1) - 1 : fs[j].id # s
      BY <1>1, <3>1
    <3>4. fs \in Seq(Entry)
      BY <1>1
    <3>5. Index(fs, s) = n + 1
      BY <3>2, <3>3, <3>4, IndexIs
    <3> QED
      BY <2>1, <3>2, <3>4, <3>5, ValueOf
  <2>2. CASE s # e.id
    <3>1. Index(fs, s) = Index(es, s)
      <4>1. CASE Index(es, s) = 0
        <5>1. \A i \in 1 .. n : es[i].id # s
          BY <4>1, IndexIsFirst
        <5>2. \A i \in 1 .. Len(fs) : fs[i].id # s
          BY <1>1, <2>2, <5>1
        <5> QED
          BY <1>1, <4>1, <5>2, IndexIsFirst
      <4>2. CASE Index(es, s) # 0
        <5>1. PICK k : k = Index(es, s)
          OBVIOUS
        <5>2. /\ k \in 1 .. n /\ es[k].id = s
              /\ \A j \in 1 .. k - 1 : es[j].id # s
          BY <4>2, <5>1, IndexIsFirst
        <5>3. k \in 1 .. Len(fs) /\ fs[k].id = s /\ \A j \in 1 .. k - 1 : fs[j].id # s
          BY <1>1, <5>2
        <5>4. fs \in Seq(Entry)
          BY <1>1
        <5> QED
          BY <5>1, <5>3, <5>4, IndexIs
      <4> QED
        BY <4>1, <4>2
    <3>2. Index(es, s) \in 0 .. n
      BY IndexIsFirst
    <3> QED
      BY <1>1, <2>2, <3>1, <3>2, ValueOf
  <2> QED
    BY <2>1, <2>2
<1> QED
  BY <1>1, <1>2 DEF fs

(* No entries, no values. *)
LEMMA ValuesOfEmpty == ValuesOf(<<>>) = Unknown
<1>1. <<>> \in Seq(Entry) /\ Len(<<>>) = 0
  OBVIOUS
<1>2. ASSUME NEW s PROVE Index(<<>>, s) = 0
  <2>1. Index(<<>>, s) \in 0 .. Len(<<>>)
    BY <1>1, IndexIsFirst, Zenon
  <2> QED
    BY <1>1, <2>1
<1> QED
  BY <1>2 DEF ValuesOf, Unknown

-----------------------------------------------------------------------------
(* What Delete keeps. *)

Increasing(f) == \A i, j \in DOMAIN f : i < j => f[i] < f[j]

(* A set of positions can be run through in order: induction over the       *)
(* bound of the positions.                                                  *)
LEMMA InOrder ==
  ASSUME NEW n \in Nat, NEW I \in SUBSET (1 .. n)
  PROVE  \E f \in [1 .. Cardinality(I) -> I] : Increasing(f)
<1> DEFINE Ordered(J) == \E f \in [1 .. Cardinality(J) -> J] : Increasing(f)
           Bad == {m \in Nat : \E J \in SUBSET (1 .. m) : ~ Ordered(J)}
<1>1. SUFFICES ASSUME Bad # {} PROVE FALSE
  OBVIOUS
<1>2. Bad \in SUBSET Nat
  OBVIOUS
<1>3. \A k \in Nat : k \notin Bad => \A J \in SUBSET (1 .. k) : Ordered(J)
  OBVIOUS
<1> HIDE DEF Ordered
<1>4. PICK m \in Bad : \A k \in Bad : m <= k
  BY <1>1, <1>2, LeastNatural
<1>5. PICK J \in SUBSET (1 .. m) : ~ Ordered(J)
  BY <1>4
<1>6. m \in Nat
  BY <1>2, <1>4
<1> HIDE DEF Bad
<1>7. IsFiniteSet(1 .. m)
  BY <1>6, FS_Interval
<1>8. IsFiniteSet(J) /\ Cardinality(J) \in Nat
  BY <1>5, <1>7, FS_Subset, FS_CardinalityType
<1>9. J # {}
  <2> SUFFICES ASSUME J = {} PROVE FALSE
    OBVIOUS
  <2>1. Cardinality(J) = 0
    BY FS_EmptySet
  <2>2. [i \in 1 .. 0 |-> i] \in [1 .. Cardinality(J) -> J]
    BY <2>1
  <2>3. Increasing([i \in 1 .. 0 |-> i])
    BY DEF Increasing
  <2> QED
    BY <1>5, <2>2, <2>3 DEF Ordered
<1>10. m - 1 \in Nat /\ m - 1 \notin Bad
  <2>1. m # 0
    <3>1. PICK j \in J : TRUE
      BY <1>9
    <3>2. j \in 1 .. m
      BY <3>1
    <3> QED
      BY <1>6, <3>2
  <2>2. m - 1 \in Nat
    BY <1>6, <2>1
  <2>3. ~ (m <= m - 1)
    BY <1>6
  <2> QED
    BY <1>4, <2>2, <2>3
<1> DEFINE K == J \ {m}
<1>11. Ordered(K)
  <2>1. K \in SUBSET (1 .. m - 1)
    BY <1>5, <1>6
  <2> QED
    BY <1>3, <1>10, <2>1
<1>12. m \in J
  <2> SUFFICES ASSUME m \notin J PROVE FALSE
    OBVIOUS
  <2>1. K = J
    OBVIOUS
  <2> QED
    BY <1>5, <1>11, <2>1
<1>13. Cardinality(K) = Cardinality(J) - 1 /\ Cardinality(K) \in Nat
  BY <1>8, <1>12, FS_RemoveElement, FS_CardinalityType
<1>14. PICK f \in [1 .. Cardinality(K) -> K] : Increasing(f)
  BY <1>11 DEF Ordered
<1>15. \A k \in K : k \in J /\ k \in 1 .. m - 1
  BY <1>5, <1>6
<1> HIDE DEF K
<1> DEFINE g == [i \in 1 .. Cardinality(J) |-> IF i = Cardinality(J) THEN m ELSE f[i]]
<1>16. g \in [1 .. Cardinality(J) -> J]
  <2> SUFFICES ASSUME NEW i \in 1 .. Cardinality(J)
               PROVE  g[i] \in J
    OBVIOUS
  <2>1. i # Cardinality(J) => i \in 1 .. Cardinality(K)
    BY <1>8, <1>13
  <2>2. i # Cardinality(J) => f[i] \in K
    BY <1>14, <2>1
  <2> QED
    BY <1>12, <1>15, <2>2
<1>17. Increasing(g)
  <2> SUFFICES ASSUME NEW i \in 1 .. Cardinality(J), NEW j \in 1 .. Cardinality(J), i < j
               PROVE  g[i] < g[j]
    BY DEF Increasing
  <2>1. i \in 1 .. Cardinality(K) /\ g[i] = f[i]
    BY <1>8, <1>13
  <2>2. f[i] \in 1 .. m - 1
    BY <1>14, <1>15, <2>1
  <2>3. CASE j = Cardinality(J)
    BY <1>6, <2>1, <2>2, <2>3
  <2>4. CASE j # Cardinality(J)
    <3>1. j \in 1 .. Cardinality(K) /\ g[j] = f[j]
      BY <1>8, <1>13, <2>4
    <3> QED
      BY <1>14, <2>1, <3>1 DEF Increasing
  <2> QED
    BY <2>3, <2>4
<1> QED
  BY <1>5, <1>16, <1>17 DEF Ordered

(* The positions of the other services' entries, all of them, in order. *)
Others(es, s, n) ==
  {f \in [1 .. n -> 1 .. Len(es)] :
     /\ Increasing(f)
     /\ \A i \in 1 .. n : es[f[i]].id # s
     /\ \A k \in 1 .. Len(es) : es[k].id # s => \E i \in 1 .. n : f[i] = k}

(* Kept returns what is at these positions. *)
LEMMA KeptInOrder ==
  ASSUME NEW S, NEW es \in Seq(S), NEW s
  PROVE  \E n \in 0 .. Len(es) : \E f \in Others(es, s, n) :
           Kept(es, s) = [i \in 1 .. n |-> es[f[i]]]
<1> DEFINE I == {i \in DOMAIN es : es[i].id # s}
           n == Cardinality(I)
           P(f) == \A i, j \in DOMAIN f : i < j => f[i] < f[j]
           f == CHOOSE f \in [1 .. n -> I] : P(f)
<1>1. Len(es) \in Nat /\ DOMAIN es = 1 .. Len(es)
  OBVIOUS
<1>2. I \in SUBSET (1 .. Len(es))
  BY <1>1
<1>3. IsFiniteSet(1 .. Len(es)) /\ Cardinality(1 .. Len(es)) = Len(es)
  BY <1>1, FS_Interval
<1>4. IsFiniteSet(I) /\ n \in Nat /\ n <= Len(es)
  BY <1>1, <1>2, <1>3, FS_Subset, FS_CardinalityType
<1>5. Kept(es, s) = [i \in DOMAIN f |-> es[f[i]]]
  BY DEF Kept
<1>6. \A i \in I : i \in 1 .. Len(es) /\ es[i].id # s
  BY <1>1
<1>7. \A k \in 1 .. Len(es) : es[k].id # s => k \in I
  BY <1>1
<1> HIDE DEF I
<1>8. \E g \in [1 .. n -> I] : P(g)
  BY <1>1, <1>2, InOrder DEF Increasing
<1>9. f \in [1 .. n -> I] /\ P(f)
  BY <1>8
<1> HIDE DEF f
<1>10. f \in Injection(1 .. n, I)
  BY <1>4, <1>6, <1>9 DEF Injection, IsInjective
<1>11. IsFiniteSet(1 .. n) /\ Cardinality(1 .. n) = n
  BY <1>4, FS_Interval
<1>12. f \in Surjection(1 .. n, I)
  BY <1>4, <1>10, <1>11, FS_Injection
<1>13. \A k \in I : \E i \in 1 .. n : f[i] = k
  BY <1>12 DEF Surjection
<1>14. Increasing(f)
  BY <1>9 DEF Increasing
<1>15. DOMAIN f = 1 .. n /\ \A i \in 1 .. n : f[i] \in 1 .. Len(es) /\ es[f[i]].id # s
  BY <1>6, <1>9
<1>16. f \in [1 .. n -> 1 .. Len(es)]
  BY <1>9, <1>15
<1>17. n \in 0 .. Len(es)
  BY <1>1, <1>4
<1>18. Kept(es, s) = [i \in 1 .. n |-> es[f[i]]]
  BY <1>5, <1>15
<1>19. \A k \in 1 .. Len(es) : es[k].id # s => \E i \in 1 .. n : f[i] = k
  BY <1>7, <1>13
<1>20. f \in Others(es, s, n)
  BY <1>14, <1>15, <1>16, <1>19 DEF Others
<1> QED
  BY <1>17, <1>18, <1>20, Zenon

(* What Kept returns are entries, and no more of them than there were. *)
LEMMA KeptType ==
  ASSUME NEW es \in Seq(Entry), NEW s
  PROVE  /\ Kept(es, s) \in Seq(Entry)
         /\ Len(Kept(es, s)) \in 0 .. Len(es)
<1>1. PICK n \in 0 .. Len(es) :
        \E f \in Others(es, s, n) : Kept(es, s) = [i \in 1 .. n |-> es[f[i]]]
  BY KeptInOrder
<1>2. PICK f \in Others(es, s, n) : Kept(es, s) = [i \in 1 .. n |-> es[f[i]]]
  BY <1>1
<1>3. f \in [1 .. n -> 1 .. Len(es)]
  BY DEF Others
<1>4. n \in Nat /\ Len(es) \in Nat
  OBVIOUS
<1>5. \A i \in 1 .. n : es[f[i]] \in Entry
  BY <1>3
<1>6. [i \in 1 .. n |-> es[f[i]]] \in Seq(Entry) /\ Len([i \in 1 .. n |-> es[f[i]]]) = n
  BY <1>4, <1>5
<1> QED
  BY <1>2, <1>6

(* It takes away the service's value and leaves the others. *)
LEMMA ValuesOfKept ==
  ASSUME NEW es \in Seq(Entry), NEW s
  PROVE  \A t \in Services :
           ValuesOf(Kept(es, s))[t] = IF t = s THEN none ELSE ValuesOf(es)[t]
<1> DEFINE ks == Kept(es, s)
<1>1. PICK n \in 0 .. Len(es) :
        \E f \in Others(es, s, n) : Kept(es, s) = [i \in 1 .. n |-> es[f[i]]]
  BY KeptInOrder
<1>2. PICK f \in Others(es, s, n) : ks = [i \in 1 .. n |-> es[f[i]]]
  BY <1>1
<1>3. /\ f \in [1 .. n -> 1 .. Len(es)]
      /\ Increasing(f)
      /\ \A i \in 1 .. n : es[f[i]].id # s
      /\ \A k \in 1 .. Len(es) : es[k].id # s => \E i \in 1 .. n : f[i] = k
  BY DEF Others
<1>4. ks \in Seq(Entry)
  BY KeptType
<1>5. /\ n \in Nat /\ Len(es) \in Nat /\ Len(ks) = n
      /\ \A i \in 1 .. n : ks[i] = es[f[i]] /\ f[i] \in 1 .. Len(es)
  BY <1>2, <1>4, <1>3
<1> HIDE DEF ks
<1>6. ASSUME NEW t \in Services
      PROVE  ValuesOf(ks)[t] = IF t = s THEN none ELSE ValuesOf(es)[t]
  <2>1. CASE t = s
    <3>1. \A i \in 1 .. Len(ks) : ks[i].id # t
      BY <1>5, <1>3, <2>1
    <3>2. Index(ks, t) \in 0 .. Len(ks) /\ (Index(ks, t) # 0 => ks[Index(ks, t)].id = t)
      BY <1>4, IndexIsFirst
    <3>3. Index(ks, t) = 0
      BY <1>5, <3>1, <3>2
    <3> QED
      BY <1>4, <2>1, <3>3, ValueOf
  <2>2. CASE t # s /\ Index(es, t) = 0
    <3>1. \A i \in 1 .. Len(es) : es[i].id # t
      BY <2>2, IndexIsFirst
    <3>2. \A i \in 1 .. Len(ks) : ks[i].id # t
      BY <1>5, <3>1
    <3>3. Index(ks, t) \in 0 .. Len(ks) /\ (Index(ks, t) # 0 => ks[Index(ks, t)].id = t)
      BY <1>4, IndexIsFirst
    <3>4. Index(ks, t) = 0
      BY <1>5, <3>2, <3>3
    <3> QED
      BY <1>4, <2>2, <3>4, ValueOf
  <2>3. CASE t # s /\ Index(es, t) # 0
    <3>1. PICK k : k = Index(es, t)
      OBVIOUS
    <3>2. k \in 1 .. Len(es) /\ es[k].id = t /\ \A j \in 1 .. k - 1 : es[j].id # t
      BY <2>3, <3>1, IndexIsFirst
    <3>3. PICK i \in 1 .. n : f[i] = k
      BY <1>3, <2>3, <3>2
    <3>4. ASSUME NEW j \in 1 .. i - 1 PROVE ks[j].id # t
      <4>1. j \in 1 .. n /\ j < i
        BY <1>5
      <4>2. f[j] < f[i]
        BY <1>3, <3>3, <4>1 DEF Increasing
      <4> QED
        BY <1>5, <3>2, <3>3, <4>1, <4>2
    <3>5. ks[i] = es[k] /\ i \in 1 .. Len(ks)
      BY <1>5, <3>3
    <3>6. Index(ks, t) = i
      BY <1>4, <3>2, <3>4, <3>5, IndexIs
    <3>7. i # 0 /\ k # 0
      BY <3>2, <1>5
    <3> QED
      BY <1>4, <2>3, <3>1, <3>5, <3>6, <3>7, ValueOf
  <2> QED
    BY <2>1, <2>2, <2>3
<1> QED
  BY <1>6 DEF ks

-----------------------------------------------------------------------------
(* Memory. *)

(* A number of slices never takes up more arrays than there are. *)
LEMMA UsedIsSmall ==
  ASSUME NEW ca, NEW cl
  PROVE  Arrays \ Used(ca, cl) # {}
<1> DEFINE T == {cl[c].slice.arr : c \in Callers}
           N == Cardinality(Callers)
<1>1. IsFiniteSet(Callers) /\ N \in Nat
  BY RepoAssumption, FS_AddElement, FS_CardinalityType DEF Callers
<1>2. [c \in Callers |-> cl[c].slice.arr] \in Surjection(Callers, T)
  BY DEF Surjection
<1>3. IsFiniteSet(T) /\ Cardinality(T) <= N
  BY <1>1, <1>2, FS_Surjection
<1>4. Cardinality(T) \in Nat
  BY <1>3, FS_CardinalityType
<1> HIDE DEF T
<1>5. IsFiniteSet(T \cup {ca.arr}) /\ Cardinality(T \cup {ca.arr}) <= N + 1
  BY <1>1, <1>3, <1>4, FS_AddElement
<1>6. Used(ca, cl) = T \cup {ca.arr}
  BY DEF Used, T
<1>7. IsFiniteSet(Arrays) /\ Cardinality(Arrays) = N + 2
  BY <1>1, FS_Interval DEF Arrays
<1> SUFFICES ASSUME Arrays \in SUBSET (T \cup {ca.arr}) PROVE FALSE
  BY <1>6
<1>8. Cardinality(Arrays) <= Cardinality(T \cup {ca.arr})
  BY <1>5, FS_Subset
<1>9. Cardinality(T \cup {ca.arr}) \in Nat
  BY <1>5, FS_CardinalityType
<1> QED
  BY <1>1, <1>5, <1>7, <1>8, <1>9

(* Load and append find an array nobody refers to. *)
LEMMA NewArrayIsNew == NewArray \in Arrays /\ NewArray \notin Used(cache, call)
<1>1. \E a \in Arrays : a \notin Used(cache, call)
  BY UsedIsSmall
<1> QED
  BY <1>1 DEF NewArray

(* none is not an array. *)
LEMMA NoneIsNoArray == none \notin Arrays
<1>1. Arrays \subseteq Nat
  BY DEF Arrays
<1> QED
  BY <1>1, RepoAssumption

Memory == [Arrays -> Seq(Entry)]

(* A slice does not reach beyond its array. *)
Fits(m, s) == s \in Slice /\ s.len <= Len(Array(m, s))

(* What a slice that fits has in it. *)
LEMMA ContentOf ==
  ASSUME NEW m \in Memory, NEW s, Fits(m, s)
  PROVE  /\ Content(m, s) \in Seq(Entry)
         /\ Len(Content(m, s)) = s.len
         /\ \A i \in 1 .. s.len : Content(m, s)[i] = Array(m, s)[i]
<1>1. Array(m, s) \in Seq(Entry)
  BY DEF Fits, Memory, Slice, Array
<1>2. s.len \in Nat /\ s.len <= Len(Array(m, s))
  BY DEF Fits, Slice
<1> QED
  BY <1>1, <1>2, SubSeqProperties DEF Content

(* Two slices with the same entries. *)
LEMMA SameEntries ==
  ASSUME NEW es \in Seq(Entry), NEW fs \in Seq(Entry), Len(es) = Len(fs),
         \A i \in 1 .. Len(es) : es[i] = fs[i]
  PROVE  es = fs
BY SeqEqual

(* The slice of a whole array has all of it. *)
LEMMA WholeArray ==
  ASSUME NEW m, NEW s, NEW es \in Seq(Entry), Array(m, s) = es, s.len = Len(es)
  PROVE  Content(m, s) = es
<1>1. /\ SubSeq(es, 1, Len(es)) \in Seq(Entry)
      /\ Len(SubSeq(es, 1, Len(es))) = Len(es)
      /\ \A i \in 1 .. Len(es) : SubSeq(es, 1, Len(es))[i] = es[i]
  BY SubSeqProperties
<1> QED
  BY <1>1, SameEntries DEF Content

(* A slice without entries. *)
LEMMA NoEntries ==
  ASSUME NEW m \in Memory, NEW s, Fits(m, s), s.len = 0
  PROVE  Content(m, s) = <<>>
<1>1. Content(m, s) \in Seq(Entry) /\ Len(Content(m, s)) = 0
  BY ContentOf
<1> QED
  BY <1>1

(* The slice of a group that is not there. *)
LEMMA NilFits ==
  ASSUME NEW m
  PROVE  Nil \in Slice /\ Fits(m, Nil) /\ Content(m, Nil) = <<>>
<1>1. Nil \in Slice /\ Array(m, Nil) = <<>> /\ Nil.len = 0 /\ Len(<<>>) = 0
  BY DEF Nil, Slice, Array
<1>2. <<>> \in Seq(Entry)
  OBVIOUS
<1>3. Content(m, Nil) = <<>>
  BY <1>1, <1>2, WholeArray, Zenon
<1>4. Nil.len <= Len(Array(m, Nil))
  BY <1>1
<1> QED
  BY <1>1, <1>3, <1>4 DEF Fits

(* What is referred to is not collected. *)
LEMMA CollectKeeps ==
  ASSUME NEW m \in Memory, NEW ca, NEW cl
  PROVE  /\ Collect(m, ca, cl) \in Memory
         /\ \A s \in Slice : s.arr = none \/ s.arr \in Used(ca, cl) =>
              /\ Array(Collect(m, ca, cl), s) = Array(m, s)
              /\ Fits(m, s) => Fits(Collect(m, ca, cl), s)
              /\ Content(Collect(m, ca, cl), s) = Content(m, s)
<1>1. Collect(m, ca, cl) \in Memory
  BY DEF Collect, Memory
<1>2. ASSUME NEW s \in Slice, s.arr = none \/ s.arr \in Used(ca, cl)
      PROVE  Array(Collect(m, ca, cl), s) = Array(m, s)
  BY <1>2 DEF Collect, Memory, Array, Slice
<1> QED
  BY <1>1, <1>2 DEF Fits, Content

(* A change of an array that a slice is not in. *)
LEMMA OtherArray ==
  ASSUME NEW m \in Memory, NEW a \in Arrays, NEW es \in Seq(Entry),
         NEW s \in Slice, s.arr # a
  PROVE  /\ [m EXCEPT ![a] = es] \in Memory
         /\ Array([m EXCEPT ![a] = es], s) = Array(m, s)
         /\ Fits(m, s) => Fits([m EXCEPT ![a] = es], s)
         /\ Content([m EXCEPT ![a] = es], s) = Content(m, s)
BY DEF Memory, Array, Slice, Fits, Content

(* The memory changed in one array alone. *)
Elsewhere(m, n, a) == \A b \in Arrays : b # a => n[b] = m[b]

(* A change of an array keeps the slices in their bounds if it does not     *)
(* make the array shorter.                                                  *)
LEMMA SameArray ==
  ASSUME NEW m \in Memory, NEW n \in Memory, NEW a \in Arrays, Elsewhere(m, n, a),
         Len(m[a]) <= Len(n[a])
  PROVE  /\ \A s \in Slice : Fits(m, s) => Fits(n, s)
         /\ \A s \in Slice : s.arr = a => Array(n, s) = n[a]
<1>1. a # none
  BY NoneIsNoArray
<1>2. \A s \in Slice : s.arr = a => Array(n, s) = n[a] /\ Array(m, s) = m[a]
  BY <1>1 DEF Array
<1>3. Len(m[a]) \in Nat /\ Len(n[a]) \in Nat
  BY DEF Memory
<1>4. ASSUME NEW s \in Slice, Fits(m, s) PROVE Fits(n, s)
  <2>1. s.len \in Nat /\ s.len <= Len(Array(m, s))
    BY <1>4 DEF Fits, Slice
  <2>2. CASE s.arr = a
    BY <1>2, <1>3, <2>1, <2>2 DEF Fits
  <2>3. CASE s.arr # a
    <3>1. Array(n, s) = Array(m, s)
      BY <2>3 DEF Array, Slice, Elsewhere
    <3> QED
      BY <2>1, <3>1 DEF Fits
  <2> QED
    BY <2>2, <2>3
<1> QED
  BY <1>2, <1>4

-----------------------------------------------------------------------------
(* The types. *)

CallRecord ==
  [pc : {"idle", "loaded", "found", "emptied", "changed", "dropping", "writing"},
   op : {"create", "update", "delete"}, entry : Entry, slice : Slice, idx : Nat,
   data : Seq(Entry)]

(* What a call is at each of its steps. *)
StepOK(r) ==
  /\ r.pc = "idle" => r = Idle
  /\ r.pc # "idle" => r.entry.id \in Services
  /\ r.op = "update" => r.pc \notin {"emptied", "dropping"}
  /\ r.pc = "found" /\ r.op = "update" => r.idx # 0
  /\ r.idx # 0 => r.pc = "found" /\ r.op = "update"
  /\ r.idx <= r.slice.len
  /\ r.pc = "writing" => r.slice = Nil
  /\ r.pc # "writing" => r.data = <<>>
  /\ r.pc \in {"emptied", "dropping"} => r.slice.len = 0
  /\ r.pc = "changed" /\ r.op = "update" => r.slice # Nil

Locking(r) == r.pc \in {"dropping", "writing"}

(* What the file may be, locked and damaged. *)
FileOK ==
  /\ file = torn \/ file \in Seq(Entry)
  /\ lock # none => file = <<>>
  /\ damaged = "no" => file # torn
  /\ damaged = "yes" => file \in {<<>>, torn}

StoreTypes ==
  /\ mem \in Memory
  /\ Fits(mem, cache)
  /\ FileOK
  /\ lock \in Callers \cup {none}
  /\ call \in [Callers -> CallRecord]
  /\ \A c \in Callers :
       /\ Fits(mem, call[c].slice)
       /\ StepOK(call[c])
       /\ lock = c <=> Locking(call[c])
  /\ damaged \in {"yes", "no"}
  /\ expected \in [Services -> Values \cup {none}]
  /\ mixed \in {"yes", "no"}

(* A call that is not in progress. *)
LEMMA IdleOK == Idle \in CallRecord /\ StepOK(Idle) /\ ~ Locking(Idle) /\ Idle.slice = Nil
<1>1. Zero \in Entry
  BY DEF Zero, Entry
<1>2. Nil \in Slice
  BY NilFits
<1>3. <<>> \in Seq(Entry)
  OBVIOUS
<1> QED
  BY <1>1, <1>2, <1>3 DEF Idle, CallRecord, StepOK, Locking, Nil

(* A call that has read the group. *)
AsLoaded(op, e, s) == [Idle EXCEPT !.pc = "loaded", !.op = op, !.entry = e, !.slice = s]

(* It is one. *)
LEMMA LoadedCall ==
  ASSUME NEW op \in {"create", "update", "delete"}, NEW e \in Entry, e.id \in Services,
         NEW s \in Slice
  PROVE  LET r == AsLoaded(op, e, s)
         IN  /\ r \in CallRecord /\ StepOK(r) /\ ~ Locking(r)
             /\ r.pc = "loaded" /\ r.op = op /\ r.entry = e /\ r.slice = s
<1> DEFINE r == AsLoaded(op, e, s)
<1>1. Idle \in CallRecord /\ Idle.idx = 0 /\ Idle.data = <<>>
  BY IdleOK DEF Idle
<1>2. /\ r.pc = "loaded" /\ r.op = op /\ r.entry = e /\ r.slice = s
      /\ r.idx = Idle.idx /\ r.data = Idle.data /\ r \in CallRecord
  BY <1>1 DEF CallRecord, AsLoaded
<1>3. s.len \in Nat
  BY DEF Slice
<1> HIDE DEF r
<1>4. StepOK(r) /\ ~ Locking(r)
  BY <1>1, <1>2, <1>3 DEF StepOK, Locking
<1> QED
  BY <1>2, <1>4 DEF r

(* A call that knows where to write. *)
AsFound(q, i) == [q EXCEPT !.pc = "found", !.idx = i]

(* It is one. *)
LEMMA FoundCall ==
  ASSUME NEW q \in CallRecord, StepOK(q), q.pc = "loaded", NEW i \in 0 .. q.slice.len,
         i # 0 <=> q.op = "update"
  PROVE  LET r == AsFound(q, i)
         IN  /\ r \in CallRecord /\ StepOK(r) /\ ~ Locking(r)
             /\ r.pc = "found" /\ r.op = q.op /\ r.entry = q.entry /\ r.slice = q.slice
             /\ r.idx = i
<1> DEFINE r == AsFound(q, i)
<1>1. /\ r.pc = "found" /\ r.op = q.op /\ r.entry = q.entry /\ r.slice = q.slice
      /\ r.idx = i /\ r.data = q.data
  BY DEF CallRecord, AsFound
<1>2. q.slice.len \in Nat /\ i \in Nat /\ i <= q.slice.len
  BY DEF CallRecord, Slice
<1>3. r \in CallRecord
  BY <1>2 DEF CallRecord, AsFound
<1> HIDE DEF r
<1>4. StepOK(r) /\ ~ Locking(r)
  BY <1>1, <1>2 DEF StepOK, Locking
<1> QED
  BY <1>1, <1>3, <1>4 DEF r

(* A call that has changed entries in place, with nothing to point at left. *)
AsUpdated(q) == [q EXCEPT !.pc = "changed", !.idx = 0]

(* It is one. *)
LEMMA UpdatedCall ==
  ASSUME NEW q \in CallRecord, StepOK(q), q.pc = "found", q.op = "update"
  PROVE  LET r == AsUpdated(q)
         IN  /\ r \in CallRecord /\ StepOK(r) /\ ~ Locking(r)
             /\ r.pc = "changed" /\ r.op = q.op /\ r.entry = q.entry /\ r.slice = q.slice
<1> DEFINE r == AsUpdated(q)
<1>1. /\ r.pc = "changed" /\ r.op = q.op /\ r.entry = q.entry /\ r.slice = q.slice
      /\ r.idx = 0 /\ r.data = q.data /\ r \in CallRecord
  BY DEF CallRecord, AsUpdated
<1>2. q.slice.len \in Nat /\ q.idx \in Nat
  BY DEF CallRecord, Slice
<1> HIDE DEF r
<1>3. q.slice # Nil
  BY <1>2 DEF StepOK, Nil
<1>4. StepOK(r) /\ ~ Locking(r)
  BY <1>1, <1>2, <1>3 DEF StepOK, Locking
<1> QED
  BY <1>1, <1>4 DEF r

(* A call that has a slice of another length. *)
AsResized(q, p, s) == [q EXCEPT !.pc = p, !.slice = s]

(* It is one. *)
LEMMA ResizedCall ==
  ASSUME NEW q \in CallRecord, StepOK(q), q.pc = "found", q.op # "update",
         NEW p \in {"changed", "emptied"}, NEW s \in Slice, p = "emptied" => s.len = 0
  PROVE  LET r == AsResized(q, p, s)
         IN  /\ r \in CallRecord /\ StepOK(r) /\ ~ Locking(r)
             /\ r.pc = p /\ r.op = q.op /\ r.entry = q.entry /\ r.slice = s
<1> DEFINE r == AsResized(q, p, s)
<1>1. /\ r.pc = p /\ r.op = q.op /\ r.entry = q.entry /\ r.slice = s
      /\ r.idx = q.idx /\ r.data = q.data /\ r \in CallRecord
  BY DEF CallRecord, AsResized
<1>2. s.len \in Nat /\ q.idx = 0
  BY DEF Slice, StepOK
<1> HIDE DEF r
<1>3. StepOK(r) /\ ~ Locking(r)
  BY <1>1, <1>2 DEF StepOK, Locking
<1> QED
  BY <1>1, <1>3 DEF r

(* A call that writes the file. *)
AsWriting(q, es) == [q EXCEPT !.pc = "writing", !.data = es, !.slice = Nil]

(* It is one. *)
LEMMA WritingCall ==
  ASSUME NEW q \in CallRecord, StepOK(q), q.pc = "changed", NEW es \in Seq(Entry)
  PROVE  LET r == AsWriting(q, es)
         IN  /\ r \in CallRecord /\ StepOK(r) /\ Locking(r)
             /\ r.pc = "writing" /\ r.op = q.op /\ r.entry = q.entry /\ r.slice = Nil
             /\ r.data = es
<1> DEFINE r == AsWriting(q, es)
<1>1. Nil \in Slice
  BY NilFits
<1>2. /\ r.pc = "writing" /\ r.op = q.op /\ r.entry = q.entry /\ r.slice = Nil
      /\ r.idx = q.idx /\ r.data = es /\ r \in CallRecord
  BY <1>1 DEF CallRecord, AsWriting
<1>3. Nil.len = 0 /\ q.idx = 0
  BY DEF Nil, StepOK
<1> HIDE DEF r
<1>4. StepOK(r) /\ Locking(r)
  BY <1>2, <1>3 DEF StepOK, Locking
<1> QED
  BY <1>2, <1>4 DEF r

(* A call that takes the group out of the file, and one that has. *)
AsAt(q, p) == [q EXCEPT !.pc = p]

(* They are calls. *)
LEMMA DroppingCall ==
  ASSUME NEW q \in CallRecord, StepOK(q), NEW p,
         \/ q.pc = "emptied" /\ p = "dropping"
         \/ q.pc = "dropping" /\ p = "changed"
  PROVE  LET r == AsAt(q, p)
         IN  /\ r \in CallRecord /\ StepOK(r) /\ (Locking(r) <=> p = "dropping")
             /\ r.pc = p /\ r.op = q.op /\ r.entry = q.entry /\ r.slice = q.slice
             /\ r.slice.len = 0 /\ r.data = <<>> /\ r.op # "update"
<1> DEFINE r == AsAt(q, p)
<1>1. /\ r.pc = p /\ r.op = q.op /\ r.entry = q.entry /\ r.slice = q.slice
      /\ r.idx = q.idx /\ r.data = q.data /\ r \in CallRecord
  BY DEF CallRecord, AsAt
<1>2. q.slice.len = 0 /\ q.idx = 0 /\ q.data = <<>> /\ q.op # "update"
  BY DEF StepOK
<1> HIDE DEF r
<1>3. StepOK(r) /\ (Locking(r) <=> p = "dropping")
  BY <1>1, <1>2 DEF StepOK, Locking
<1> QED
  BY <1>1, <1>2, <1>3 DEF r

(* The types include the ones the run checks. *)
LEMMA StoreTypesTypeOK == StoreTypes => TypeOK
<1> SUFFICES ASSUME StoreTypes PROVE TypeOK
  OBVIOUS
<1>1. ASSUME NEW c \in Callers
      PROVE  /\ SliceOK(call[c].slice)
             /\ call[c].pc \in {"idle", "loaded", "found", "emptied", "changed", "dropping",
                                "writing"}
             /\ call[c].idx <= call[c].slice.len
             /\ lock = c <=> call[c].pc \in {"dropping", "writing"}
  BY DEF StoreTypes, CallRecord, Fits, SliceOK, StepOK, Locking
<1> QED
  BY <1>1 DEF StoreTypes, TypeOK, Memory, Fits, SliceOK, FileOK

(* They hold initially. *)
LEMMA StoreTypesInit == Init => StoreTypes
<1> SUFFICES ASSUME Init PROVE StoreTypes
  OBVIOUS
<1>1. mem \in Memory
  BY DEF Init, NoMemory, Memory
<1>2. Fits(mem, cache)
  BY NilFits DEF Init
<1>3. \A c \in Callers : call[c] = Idle
  BY DEF Init
<1>4. \A c \in Callers : /\ Fits(mem, call[c].slice)
                         /\ StepOK(call[c])
                         /\ lock = c <=> Locking(call[c])
  BY <1>3, IdleOK, NilFits, RepoAssumption DEF Init, Callers
<1>5. call \in [Callers -> CallRecord]
  BY IdleOK DEF Init
<1>6. <<>> \in Seq(Entry)
  OBVIOUS
<1>7. FileOK
  BY <1>6, RepoAssumption DEF Init, FileOK, Entry
<1> QED
  BY <1>1, <1>2, <1>4, <1>5, <1>7 DEF Init, StoreTypes, Unknown

(* A step of the call c, from what it does to each part of the state. *)
LEMMA StoreTypesStep ==
  ASSUME StoreTypes, NEW c \in Callers, NEW r \in CallRecord,
         call' = [call EXCEPT ![c] = r],
         mem' \in Memory, Fits(mem', cache'), Fits(mem', r.slice),
         \A d \in Callers \ {c} : Fits(mem', call[d].slice),
         StepOK(r),
         \/ lock' = lock /\ (lock = c <=> Locking(r))
         \/ lock = none /\ lock' = c /\ Locking(r)
         \/ lock = c /\ lock' = none /\ ~ Locking(r),
         FileOK',
         damaged' \in {"yes", "no"}, expected' \in [Services -> Values \cup {none}],
         mixed' \in {"yes", "no"}
  PROVE  StoreTypes'
<1>1. call' \in [Callers -> CallRecord]
  BY DEF StoreTypes
<1>2. call'[c] = r /\ \A d \in Callers \ {c} : call'[d] = call[d]
  BY DEF StoreTypes
<1>3. none \notin Callers
  BY RepoAssumption DEF Callers
<1>4. lock' \in Callers \cup {none}
  BY DEF StoreTypes
<1>5. ASSUME NEW d \in Callers
      PROVE  /\ Fits(mem', call'[d].slice)
             /\ StepOK(call'[d])
             /\ lock' = d <=> Locking(call'[d])
  <2>1. CASE d = c
    BY <1>2, <1>3, <2>1
  <2>2. CASE d # c
    <3>1. Fits(mem', call'[d].slice) /\ StepOK(call'[d]) /\ (lock = d <=> Locking(call'[d]))
      BY <1>2, <2>2 DEF StoreTypes
    <3>2. lock' = d <=> lock = d
      BY <1>3, <2>2
    <3> QED
      BY <3>1, <3>2
  <2> QED
    BY <2>1, <2>2
<1> QED
  BY <1>1, <1>4, <1>5 DEF StoreTypes

(* The slices in use refer to arrays in use. *)
LEMMA UsedBy ==
  ASSUME NEW ca, NEW cl
  PROVE  ca.arr \in Used(ca, cl) /\ \A c \in Callers : cl[c].slice.arr \in Used(ca, cl)
BY DEF Used

(* A collection changes nothing for the slices in use. *)
LEMMA CollectStep ==
  ASSUME NEW m, NEW ca, NEW cl, NEW n, m \in Memory, Fits(m, ca),
         \A d \in Callers : Fits(m, cl[d].slice), n = Collect(m, ca, cl)
  PROVE  /\ n \in Memory
         /\ Fits(n, ca) /\ Content(n, ca) = Content(m, ca)
         /\ \A d \in Callers : /\ Fits(n, cl[d].slice)
                               /\ Content(n, cl[d].slice) = Content(m, cl[d].slice)
<1>1. ca \in Slice /\ \A d \in Callers : cl[d].slice \in Slice
  BY DEF Fits
<1> QED
  BY <1>1, UsedBy, CollectKeeps

(* Entries give values to services. *)
LEMMA ValuesOfType ==
  ASSUME NEW es \in Seq(Entry)
  PROVE  ValuesOf(es) \in [Services -> Values \cup {none}]
<1>1. ASSUME NEW s \in Services
      PROVE  (IF Index(es, s) = 0 THEN none ELSE es[Index(es, s)].val) \in Values \cup {none}
  <2>1. Index(es, s) \in 0 .. Len(es)
    BY IndexIsFirst
  <2>2. Index(es, s) # 0 => es[Index(es, s)] \in Entry
    BY <2>1
  <2> QED
    BY <2>2 DEF Entry
<1> QED
  BY <1>1 DEF ValuesOf

(* What Load finds: the cached slice, or else what is in the file. *)
Held == IF cache = Nil THEN file ELSE Content(mem, cache)

(* A slice that is in use is not in the new array. *)
LEMMA FreshIsApart ==
  ASSUME StoreTypes, NEW es \in Seq(Entry)
  PROVE  /\ [mem EXCEPT ![NewArray] = es] \in Memory
         /\ Fresh(es) \in Slice /\ Fresh(es) # Nil
         /\ Fits([mem EXCEPT ![NewArray] = es], Fresh(es))
         /\ Content([mem EXCEPT ![NewArray] = es], Fresh(es)) = es
         /\ Fits([mem EXCEPT ![NewArray] = es], cache)
         /\ Content([mem EXCEPT ![NewArray] = es], cache) = Content(mem, cache)
         /\ \A d \in Callers :
              /\ Fits([mem EXCEPT ![NewArray] = es], call[d].slice)
              /\ Content([mem EXCEPT ![NewArray] = es], call[d].slice)
                   = Content(mem, call[d].slice)
<1> DEFINE m == [mem EXCEPT ![NewArray] = es]
<1>1. NewArray \in Arrays /\ NewArray \notin Used(cache, call) /\ NewArray # none
  BY NewArrayIsNew, NoneIsNoArray
<1>2. mem \in Memory /\ Fits(mem, cache) /\ cache \in Slice
  BY DEF StoreTypes, Fits
<1>3. \A d \in Callers : Fits(mem, call[d].slice) /\ call[d].slice \in Slice
  BY DEF StoreTypes, Fits
<1>4. cache.arr # NewArray /\ \A d \in Callers : call[d].slice.arr # NewArray
  BY <1>1, UsedBy
<1>5. m \in Memory /\ m[NewArray] = es
  BY <1>1, <1>2 DEF Memory
<1>6. Fits(m, cache) /\ Content(m, cache) = Content(mem, cache)
  BY <1>1, <1>2, <1>4, OtherArray
<1>7. \A d \in Callers : /\ Fits(m, call[d].slice)
                         /\ Content(m, call[d].slice) = Content(mem, call[d].slice)
  BY <1>1, <1>2, <1>3, <1>4, OtherArray
<1>8. /\ Fresh(es) \in Slice /\ Fresh(es) # Nil
      /\ Fresh(es).arr = NewArray /\ Fresh(es).len = Len(es)
  BY <1>1 DEF Fresh, Slice, Nil
<1> HIDE DEF m
<1>9. Array(m, Fresh(es)) = es
  BY <1>1, <1>5, <1>8 DEF Array
<1>10. Content(m, Fresh(es)) = es
  BY <1>8, <1>9, WholeArray
<1>11. Len(es) <= Len(es)
  OBVIOUS
<1>12. Fits(m, Fresh(es))
  BY <1>8, <1>9, <1>11 DEF Fits
<1> QED
  BY <1>5, <1>6, <1>7, <1>8, <1>10, <1>12 DEF m

(* Load leaves everybody else's slice as it is. *)
LEMMA LoadFacts ==
  ASSUME StoreTypes, CanLoad
  PROVE  /\ Load.mem \in Memory
         /\ Load.slice = Load.cache
         /\ Fits(Load.mem, Load.cache)
         /\ Content(Load.mem, Load.cache) = Held
         /\ Held \in Seq(Entry)
         /\ \A d \in Callers :
              /\ Fits(Load.mem, call[d].slice)
              /\ Content(Load.mem, call[d].slice) = Content(mem, call[d].slice)
         /\ cache # Nil \/ file = <<>> => Load.cache = cache /\ Load.mem = mem
         /\ Load.cache = Nil => cache = Nil /\ file = <<>>
<1>1. CASE cache # Nil \/ file = <<>>
  <2>1. Load = [mem |-> mem, cache |-> cache, slice |-> cache]
    BY <1>1 DEF Load
  <2>2. Load.mem = mem /\ Load.cache = cache /\ Load.slice = cache
    BY <2>1
  <2>3. mem \in Memory /\ Fits(mem, cache) /\ \A d \in Callers : Fits(mem, call[d].slice)
    BY DEF StoreTypes
  <2>4. Content(mem, cache) = Held
    BY <1>1, NilFits DEF Held
  <2>5. Held \in Seq(Entry)
    BY <2>3, <2>4, ContentOf
  <2> QED
    BY <1>1, <2>2, <2>3, <2>4, <2>5
<1>2. CASE cache = Nil /\ file # <<>>
  <2>1. file \in Seq(Entry)
    BY <1>2 DEF CanLoad, StoreTypes, FileOK
  <2>2. Load = [mem |-> [mem EXCEPT ![NewArray] = file], cache |-> Fresh(file),
                slice |-> Fresh(file)]
    BY <1>2 DEF Load
  <2>3. /\ Load.mem = [mem EXCEPT ![NewArray] = file]
        /\ Load.cache = Fresh(file) /\ Load.slice = Fresh(file)
    BY <2>2
  <2>4. Held = file
    BY <1>2 DEF Held
  <2> QED
    BY <1>2, <2>1, <2>3, <2>4, FreshIsApart
<1> QED
  BY <1>1, <1>2

-----------------------------------------------------------------------------
(* What each step does to the slices and their entries. *)

(* The other calls keep their slices and what is in them. *)
OthersKeep(c) ==
  \A d \in Callers \ {c} : /\ call'[d] = call[d]
                           /\ Content(mem', call[d].slice) = Content(mem, call[d].slice)

(* A call reads the group. *)
LEMMA ReadStep ==
  ASSUME StoreTypes, NEW c \in Callers, NEW op \in {"create", "update", "delete"},
         NEW e \in Entry, e.id \in Services, Read(c, op, e)
  PROVE  /\ StoreTypes'
         /\ OthersKeep(c)
         /\ call'[c].pc = "loaded" /\ call'[c].op = op /\ call'[c].entry = e
         /\ call'[c].slice = cache'
         /\ Content(mem', cache') = Held
         /\ cache # Nil \/ file = <<>> => cache' = cache
         /\ cache' = Nil => cache = Nil /\ file = <<>>
<1>1. PICK r : r = AsLoaded(op, e, Load.slice)
  OBVIOUS
<1>2. CanLoad /\ cache' = Load.cache /\ UNCHANGED <<file, lock, damaged>>
  BY DEF Read
<1>3. call' = [call EXCEPT ![c] = r]
  BY <1>1 DEF Read, AsLoaded
<1>4. /\ Load.mem \in Memory
      /\ Load.slice = Load.cache
      /\ Fits(Load.mem, Load.cache)
      /\ Content(Load.mem, Load.cache) = Held
      /\ Held \in Seq(Entry)
      /\ \A d \in Callers :
           /\ Fits(Load.mem, call[d].slice)
           /\ Content(Load.mem, call[d].slice) = Content(mem, call[d].slice)
  BY <1>2, LoadFacts
<1>5. Load.slice \in Slice
  BY <1>4 DEF Fits
<1>6. /\ r \in CallRecord /\ StepOK(r) /\ ~ Locking(r)
      /\ r.pc = "loaded" /\ r.op = op /\ r.entry = e /\ r.slice = Load.slice
  BY <1>1, <1>5, LoadedCall
<1>7. r.slice = Load.cache
  BY <1>4, <1>6
<1>8. call'[c] = r /\ \A d \in Callers \ {c} : call'[d] = call[d]
  BY <1>3 DEF StoreTypes
<1>9. \A d \in Callers : Fits(Load.mem, call'[d].slice)
  BY <1>4, <1>7, <1>8
<1>10. Fits(Load.mem, cache')
  BY <1>2, <1>4
<1>11. /\ mem' \in Memory
       /\ Fits(mem', cache') /\ Content(mem', cache') = Content(Load.mem, cache')
       /\ \A d \in Callers : /\ Fits(mem', call'[d].slice)
                             /\ Content(mem', call'[d].slice) = Content(Load.mem, call'[d].slice)
  <2>1. mem' = Collect(Load.mem, cache', call')
    BY DEF Read
  <2>2. Load.mem \in Memory
    BY <1>4
  <2> QED
    BY <1>9, <1>10, <2>1, <2>2, CollectStep
<1>12. lock = none /\ lock # c
  BY <1>2, RepoAssumption DEF CanLoad, Callers
<1>13. expected' \in [Services -> Values \cup {none}] /\ mixed' \in {"yes", "no"}
  <2>1. ValuesOf(Content(Load.mem, Load.slice)) \in [Services -> Values \cup {none}]
    BY <1>4, ValuesOfType
  <2>2. Unknown \in [Services -> Values \cup {none}]
    BY DEF Unknown
  <2> QED
    BY <2>1, <2>2 DEF Read, StoreTypes
<1>14. FileOK' /\ damaged' \in {"yes", "no"}
  BY <1>2 DEF FileOK, StoreTypes
<1>15. Fits(mem', r.slice) /\ \A d \in Callers \ {c} : Fits(mem', call[d].slice)
  BY <1>8, <1>11
<1>16. StoreTypes'
  BY <1>2, <1>3, <1>6, <1>7, <1>11, <1>12, <1>13, <1>14, <1>15, StoreTypesStep
<1>17. OthersKeep(c)
  BY <1>4, <1>8, <1>11 DEF OthersKeep
<1>18. Content(mem', cache') = Held
  BY <1>2, <1>4, <1>11
<1>19. /\ call'[c].pc = "loaded" /\ call'[c].op = op /\ call'[c].entry = e
       /\ call'[c].slice = cache'
  BY <1>2, <1>6, <1>7, <1>8
<1>20. /\ cache # Nil \/ file = <<>> => cache' = cache
       /\ cache' = Nil => cache = Nil /\ file = <<>>
  BY <1>2, LoadFacts
<1> QED
  BY <1>16, <1>17, <1>18, <1>19, <1>20

(* A call looks for the entry. *)
LEMMA FindStep ==
  ASSUME StoreTypes, NEW c \in Callers, Find(c)
  PROVE  /\ StoreTypes'
         /\ OthersKeep(c)
         /\ Content(mem', cache) = Content(mem, cache)
         /\ \/ call'[c] = Idle
            \/ /\ call'[c].pc = "found" /\ call'[c].op = call[c].op
               /\ call'[c].slice = call[c].slice /\ call'[c].entry = call[c].entry
               /\ Content(mem', call[c].slice) = Content(mem, call[c].slice)
               /\ call[c].op = "update" => call'[c].idx = Position(c)
               /\ call[c].op = "create" => Position(c) = 0
<1> DEFINE r == IF call[c].op = "update" /\ Position(c) = 0
                  THEN Idle ELSE [call[c] EXCEPT !.pc = "found",
                                       !.idx = IF call[c].op = "update" THEN Position(c) ELSE 0]
<1>1. /\ call[c].pc = "loaded"
      /\ call[c].op = "create" => Position(c) = 0
      /\ call' = [call EXCEPT ![c] = r]
      /\ mem' = Collect(mem, cache, call')
      /\ UNCHANGED <<cache, file, lock, damaged, expected, mixed>>
  BY DEF Find
<1>2. /\ mem \in Memory /\ Fits(mem, cache) /\ call[c] \in CallRecord /\ StepOK(call[c])
      /\ \A d \in Callers : Fits(mem, call[d].slice)
  BY DEF StoreTypes
<1>3. Loaded(c) \in Seq(Entry) /\ Len(Loaded(c)) = call[c].slice.len
  BY <1>2, ContentOf DEF Loaded
<1>4. Position(c) \in 0 .. call[c].slice.len
  BY <1>3, IndexIsFirst DEF Position
<1>5. PICK i : i = IF call[c].op = "update" THEN Position(c) ELSE 0
  OBVIOUS
<1>6. /\ r \in CallRecord /\ StepOK(r) /\ ~ Locking(r) /\ (r = Idle \/ r.slice = call[c].slice)
      /\ r # Idle => /\ r.pc = "found" /\ r.op = call[c].op /\ r.entry = call[c].entry
                     /\ r.slice = call[c].slice
                     /\ call[c].op = "update" => r.idx = Position(c)
  <2>1. CASE call[c].op = "update" /\ Position(c) = 0
    BY <2>1, IdleOK
  <2>2. CASE ~ (call[c].op = "update" /\ Position(c) = 0)
    <3>1. r = AsFound(call[c], i)
      BY <1>5, <2>2 DEF AsFound
    <3>2. i \in 0 .. call[c].slice.len /\ (i # 0 <=> call[c].op = "update")
      BY <1>2, <1>4, <1>5, <2>2 DEF CallRecord, Slice
    <3> HIDE DEF r
    <3>3. call[c] \in CallRecord /\ StepOK(call[c]) /\ call[c].pc = "loaded"
      BY <1>1, <1>2
    <3>4. /\ r \in CallRecord /\ StepOK(r) /\ ~ Locking(r)
          /\ r.pc = "found" /\ r.op = call[c].op /\ r.entry = call[c].entry
          /\ r.slice = call[c].slice /\ r.idx = i
      BY <3>1, <3>2, <3>3, FoundCall
    <3> QED
      BY <1>5, <3>4
  <2> QED
    BY <2>1, <2>2
<1> HIDE DEF r
<1>7. call'[c] = r /\ \A d \in Callers \ {c} : call'[d] = call[d]
  BY <1>1 DEF StoreTypes
<1>8. \A d \in Callers : Fits(mem, call'[d].slice)
  BY <1>2, <1>6, <1>7, IdleOK, NilFits
<1>9. /\ mem' \in Memory
      /\ Fits(mem', cache) /\ Content(mem', cache) = Content(mem, cache)
      /\ \A d \in Callers : /\ Fits(mem', call'[d].slice)
                            /\ Content(mem', call'[d].slice) = Content(mem, call'[d].slice)
  <2>1. mem' = Collect(mem, cache, call')
    BY DEF Find
  <2>2. mem \in Memory /\ Fits(mem, cache)
    BY <1>2
  <2> QED
    BY <1>8, <2>1, <2>2, CollectStep
<1>10. lock # c
  BY <1>1 DEF StoreTypes, Locking
<1>11. StoreTypes'
  <2>1. /\ FileOK' /\ damaged' \in {"yes", "no"} /\ mixed' \in {"yes", "no"}
        /\ expected' \in [Services -> Values \cup {none}] /\ Fits(mem', cache')
    BY <1>1, <1>9 DEF FileOK, StoreTypes
  <2>2. Fits(mem', r.slice) /\ \A d \in Callers \ {c} : Fits(mem', call[d].slice)
    BY <1>7, <1>9
  <2> QED
    BY <1>1, <1>6, <1>9, <1>10, <2>1, <2>2, StoreTypesStep
<1>12. OthersKeep(c)
  BY <1>7, <1>9 DEF OthersKeep
<1> QED
  BY <1>1, <1>6, <1>7, <1>9, <1>11, <1>12

(* The entries of a slice, from those of its array. *)
LEMMA ContentIs ==
  ASSUME NEW m \in Memory, NEW s, Fits(m, s), NEW xs \in Seq(Entry), Len(xs) = s.len,
         \A j \in 1 .. s.len : Array(m, s)[j] = xs[j]
  PROVE  Content(m, s) = xs
<1>1. /\ Content(m, s) \in Seq(Entry) /\ Len(Content(m, s)) = s.len
      /\ \A j \in 1 .. s.len : Content(m, s)[j] = Array(m, s)[j]
  BY ContentOf
<1>2. \A j \in 1 .. Len(Content(m, s)) : Content(m, s)[j] = xs[j]
  BY <1>1
<1> QED
  BY <1>1, <1>2, SameEntries

(* An entry replaced in a sequence of entries. *)
LEMMA ReplaceEntry ==
  ASSUME NEW es \in Seq(Entry), NEW i \in 1 .. Len(es), NEW e \in Entry, NEW fs,
         fs = [es EXCEPT ![i] = e]
  PROVE  /\ fs \in Seq(Entry)
         /\ Len(fs) = Len(es)
         /\ \A j \in 1 .. Len(es) : fs[j] = IF j = i THEN e ELSE es[j]
OBVIOUS

(* A slice that is not empty has an array. *)
LEMMA HasArray ==
  ASSUME NEW m \in Memory, NEW s, Fits(m, s), s.len # 0
  PROVE  s.arr \in Arrays /\ Array(m, s) = m[s.arr] /\ m[s.arr] \in Seq(Entry)
<1>1. s \in Slice /\ s.len \in Nat /\ s.len <= Len(Array(m, s))
  BY DEF Fits, Slice
<1>2. s.arr # none
  BY <1>1 DEF Array
<1> QED
  BY <1>1, <1>2 DEF Slice, Array, Memory

(* A change of an entry of an array, seen through a slice that has it. *)
LEMMA WriteEntry ==
  ASSUME NEW m \in Memory, NEW n \in Memory, NEW s, Fits(m, s), NEW i \in 1 .. s.len,
         NEW e \in Entry, Elsewhere(m, n, s.arr), Len(n[s.arr]) = Len(m[s.arr]),
         \A j \in 1 .. Len(m[s.arr]) : n[s.arr][j] = IF j = i THEN e ELSE m[s.arr][j]
  PROVE  /\ \A t \in Slice : Fits(m, t) => Fits(n, t)
         /\ Content(n, s) = [Content(m, s) EXCEPT ![i] = e]
<1>1. s \in Slice /\ s.len \in Nat /\ s.len # 0 /\ s.len <= Len(Array(m, s))
  BY DEF Fits, Slice
<1>2. s.arr \in Arrays /\ Array(m, s) = m[s.arr] /\ m[s.arr] \in Seq(Entry)
  BY <1>1, HasArray
<1>3. Len(m[s.arr]) \in Nat /\ Len(m[s.arr]) <= Len(n[s.arr])
  BY <1>2
<1>4. /\ \A t \in Slice : Fits(m, t) => Fits(n, t)
      /\ \A t \in Slice : t.arr = s.arr => Array(n, t) = n[s.arr]
  BY <1>2, <1>3, SameArray
<1>5. Fits(n, s) /\ Array(n, s) = n[s.arr]
  BY <1>1, <1>4
<1>6. PICK xs : xs = Content(m, s)
  OBVIOUS
<1>7. xs \in Seq(Entry) /\ Len(xs) = s.len /\ \A j \in 1 .. s.len : xs[j] = m[s.arr][j]
  BY <1>2, <1>6, ContentOf
<1>8. PICK ys : ys = [xs EXCEPT ![i] = e]
  OBVIOUS
<1>9. /\ ys \in Seq(Entry) /\ Len(ys) = s.len
      /\ \A j \in 1 .. s.len : ys[j] = IF j = i THEN e ELSE xs[j]
  BY <1>7, <1>8, ReplaceEntry
<1>10. \A j \in 1 .. s.len : Array(n, s)[j] = ys[j]
  BY <1>1, <1>2, <1>3, <1>5, <1>7, <1>9
<1>11. Content(n, s) = ys
  BY <1>5, <1>9, <1>10, ContentIs
<1> QED
  BY <1>4, <1>6, <1>8, <1>11

(* What is expected keeps its type. *)
LEMMA ExpectType ==
  ASSUME StoreTypes, NEW s, NEW v \in Values \cup {none}
  PROVE  Expect(s, v) \in [Services -> Values \cup {none}]
BY DEF StoreTypes, Expect

(* A call changes an entry. *)
LEMMA UpdateStep ==
  ASSUME StoreTypes, NEW c \in Callers, Update(c)
  PROVE  /\ StoreTypes'
         /\ \A d \in Callers \ {c} : call'[d] = call[d]
         /\ call'[c].pc = "changed" /\ call'[c].op = "update"
         /\ call'[c].entry = call[c].entry /\ call'[c].slice = call[c].slice
         /\ call[c].slice # Nil
         /\ Content(mem', call[c].slice) = [Loaded(c) EXCEPT ![call[c].idx] = call[c].entry]
         /\ UNCHANGED <<cache, file, lock, damaged, mixed>>
<1>1. PICK q : q = call[c]
  OBVIOUS
<1>2. /\ mem \in Memory /\ Fits(mem, cache) /\ q \in CallRecord /\ StepOK(q)
      /\ Fits(mem, q.slice) /\ \A d \in Callers : Fits(mem, call[d].slice)
  BY <1>1 DEF StoreTypes
<1>3. q.pc = "found" /\ q.op = "update" /\ UNCHANGED <<cache, file, lock, damaged, mixed>>
  BY <1>1 DEF Update
<1>4. q.idx \in 1 .. q.slice.len /\ q.entry \in Entry /\ q.slice \in Slice
  BY <1>2, <1>3 DEF CallRecord, StepOK, Slice
<1>5. PICK es : es = [mem[q.slice.arr] EXCEPT ![q.idx] = q.entry]
  OBVIOUS
<1>6. mem' = [mem EXCEPT ![q.slice.arr] = es]
  BY <1>1, <1>5 DEF Update
<1>7. /\ mem' \in Memory
      /\ \A t \in Slice : Fits(mem, t) => Fits(mem', t)
      /\ Content(mem', q.slice) = [Content(mem, q.slice) EXCEPT ![q.idx] = q.entry]
  <2>1. mem \in Memory /\ Fits(mem, q.slice) /\ q.slice.len # 0 /\ q.slice.len \in Nat
    BY <1>2, <1>4 DEF Slice
  <2>2. /\ q.slice.arr \in Arrays /\ mem[q.slice.arr] \in Seq(Entry)
        /\ q.slice.len <= Len(mem[q.slice.arr])
    BY <2>1, HasArray DEF Fits
  <2>3. q.idx \in 1 .. Len(mem[q.slice.arr])
    BY <1>4, <2>1, <2>2
  <2>4. q.idx \in 1 .. q.slice.len /\ q.entry \in Entry
    BY <1>4
  <2>5. /\ es \in Seq(Entry) /\ Len(es) = Len(mem[q.slice.arr])
        /\ \A j \in 1 .. Len(mem[q.slice.arr]) :
             es[j] = IF j = q.idx THEN q.entry ELSE mem[q.slice.arr][j]
    BY <1>5, <2>2, <2>3, <2>4, ReplaceEntry
  <2>6. mem' \in Memory /\ Elsewhere(mem, mem', q.slice.arr) /\ mem'[q.slice.arr] = es
    <3>1. mem \in Memory /\ q.slice.arr \in Arrays /\ es \in Seq(Entry)
      BY <2>1, <2>2, <2>5
    <3> QED
      BY <1>6, <3>1 DEF Memory, Elsewhere
  <2>7. /\ Len(mem'[q.slice.arr]) = Len(mem[q.slice.arr])
        /\ \A j \in 1 .. Len(mem[q.slice.arr]) :
             mem'[q.slice.arr][j] = IF j = q.idx THEN q.entry ELSE mem[q.slice.arr][j]
    BY <2>5, <2>6
  <2>8. q.idx \in 1 .. q.slice.len
    BY <2>4
  <2>9. PICK i : i = q.idx
    OBVIOUS
  <2>10. PICK e : e = q.entry
    OBVIOUS
  <2>11. PICK s : s = q.slice
    OBVIOUS
  <2>12. /\ mem \in Memory /\ mem' \in Memory /\ Fits(mem, s) /\ i \in 1 .. s.len /\ e \in Entry
         /\ Elsewhere(mem, mem', s.arr) /\ Len(mem'[s.arr]) = Len(mem[s.arr])
         /\ \A j \in 1 .. Len(mem[s.arr]) : mem'[s.arr][j] = IF j = i THEN e ELSE mem[s.arr][j]
    BY <2>1, <2>4, <2>6, <2>7, <2>9, <2>10, <2>11
  <2>13. /\ \A t \in Slice : Fits(mem, t) => Fits(mem', t)
         /\ Content(mem', s) = [Content(mem, s) EXCEPT ![i] = e]
    BY <2>12, WriteEntry
  <2> QED
    BY <2>6, <2>9, <2>10, <2>11, <2>13
<1>8. mem' \in Memory /\ \A s \in Slice : Fits(mem, s) => Fits(mem', s)
  BY <1>7
<1>9. Fits(mem', cache') /\ Fits(mem', q.slice) /\ \A d \in Callers : Fits(mem', call[d].slice)
  BY <1>2, <1>3, <1>8 DEF Fits
<1>10. call' = [call EXCEPT ![c] = AsUpdated(q)]
  BY <1>1 DEF Update, AsUpdated, StoreTypes
<1>11. PICK r : r = AsUpdated(q)
  OBVIOUS
<1>12. /\ r \in CallRecord /\ StepOK(r) /\ ~ Locking(r)
       /\ r.pc = "changed" /\ r.op = q.op /\ r.entry = q.entry /\ r.slice = q.slice
  BY <1>2, <1>3, <1>11, UpdatedCall
<1>13. call' = [call EXCEPT ![c] = r]
  BY <1>10, <1>11
<1>14. call'[c] = r /\ \A d \in Callers \ {c} : call'[d] = call[d]
  BY <1>13 DEF StoreTypes
<1>15. lock # c
  BY <1>1, <1>3 DEF StoreTypes, Locking
<1>16. StoreTypes'
  <2>1. FileOK' /\ damaged' \in {"yes", "no"} /\ mixed' \in {"yes", "no"}
    BY <1>3 DEF FileOK, StoreTypes
  <2>2. expected' \in [Services -> Values \cup {none}]
    <3>1. expected' = Expect(q.entry.id, q.entry.val)
      BY <1>1 DEF Update
    <3>2. q.entry.val \in Values \cup {none}
      BY <1>4 DEF Entry
    <3> QED
      BY <3>1, <3>2, ExpectType
  <2> QED
    BY <1>3, <1>8, <1>9, <1>12, <1>13, <1>15, <2>1, <2>2, StoreTypesStep
<1>17. q.slice # Nil
  BY <1>3, <1>12 DEF StepOK
<1> QED
  BY <1>1, <1>3, <1>7, <1>12, <1>14, <1>16, <1>17 DEF Loaded

(* append writes the entry behind those of the slice. *)
LEMMA AppendEntry ==
  ASSUME NEW es \in Seq(Entry), NEW k \in Nat, k <= Len(es), NEW e \in Entry, NEW fs,
         fs = IF k < Len(es) THEN [es EXCEPT ![k + 1] = e] ELSE Append(es, e)
  PROVE  /\ fs \in Seq(Entry) /\ Len(es) <= Len(fs) /\ k + 1 <= Len(fs)
         /\ fs[k + 1] = e
         /\ \A j \in 1 .. k : fs[j] = es[j]
<1>1. CASE k < Len(es)
  <2>1. k + 1 \in 1 .. Len(es) /\ fs = [es EXCEPT ![k + 1] = e]
    BY <1>1
  <2> QED
    BY <2>1, ReplaceEntry
<1>2. CASE ~ (k < Len(es))
  <2>1. Len(es) = k /\ fs = Append(es, e)
    BY <1>2
  <2> QED
    BY <2>1
<1> QED
  BY <1>1, <1>2

(* An entry behind those of a slice, seen through the slice that has one    *)
(* more.                                                                    *)
LEMMA WriteBehind ==
  ASSUME NEW m \in Memory, NEW n \in Memory, NEW s, Fits(m, s), s.arr \in Arrays,
         NEW e \in Entry, Elsewhere(m, n, s.arr), Len(m[s.arr]) <= Len(n[s.arr]),
         s.len + 1 <= Len(n[s.arr]), n[s.arr][s.len + 1] = e,
         \A j \in 1 .. s.len : n[s.arr][j] = m[s.arr][j],
         NEW t \in Slice, t.arr = s.arr, t.len = s.len + 1
  PROVE  /\ \A u \in Slice : Fits(m, u) => Fits(n, u)
         /\ Fits(n, t)
         /\ Content(n, t) = Append(Content(m, s), e)
<1>1. s \in Slice /\ s.len \in Nat
  BY DEF Fits, Slice
<1>2. s.arr # none
  BY NoneIsNoArray
<1>3. Array(m, s) = m[s.arr]
  BY <1>2 DEF Array
<1>4. /\ \A u \in Slice : Fits(m, u) => Fits(n, u)
      /\ \A u \in Slice : u.arr = s.arr => Array(n, u) = n[s.arr]
  BY SameArray
<1>5. Array(n, t) = n[s.arr]
  BY <1>4
<1>6. Fits(n, t)
  BY <1>5 DEF Fits
<1>7. PICK xs : xs = Content(m, s)
  OBVIOUS
<1>8. xs \in Seq(Entry) /\ Len(xs) = s.len /\ \A j \in 1 .. s.len : xs[j] = m[s.arr][j]
  BY <1>3, <1>7, ContentOf
<1>9. PICK ys : ys = Append(xs, e)
  OBVIOUS
<1>10. /\ ys \in Seq(Entry) /\ Len(ys) = s.len + 1 /\ ys[s.len + 1] = e
       /\ \A j \in 1 .. s.len : ys[j] = xs[j]
  BY <1>8, <1>9
<1>11. \A j \in 1 .. t.len : Array(n, t)[j] = ys[j]
  BY <1>1, <1>5, <1>8, <1>10
<1>12. Content(n, t) = ys
  BY <1>6, <1>10, <1>11, ContentIs
<1> QED
  BY <1>4, <1>6, <1>7, <1>9, <1>12

(* append in place. *)
CreateInPlace(c) ==
  LET s == call[c].slice
  IN  /\ s.arr # none
      /\ mem' = [mem EXCEPT ![s.arr] =
                   IF s.len < Len(@) THEN [@ EXCEPT ![s.len + 1] = call[c].entry]
                                     ELSE Append(@, call[c].entry)]
      /\ call' = [call EXCEPT ![c].pc = "changed", ![c].slice.len = @ + 1]

(* append in a new array. *)
CreateAnew(c) ==
  LET es == Append(Loaded(c), call[c].entry)
  IN  /\ call' = [call EXCEPT ![c].pc = "changed", ![c].slice = Fresh(es)]
      /\ mem' = Collect([mem EXCEPT ![NewArray] = es], cache, call')

(* Either way the call has a slice with the entry appended, and nobody's    *)
(* slice leaves its bounds.                                                 *)
LEMMA CreateParts ==
  ASSUME StoreTypes, NEW c \in Callers, call[c].pc = "found", call[c].op = "create",
         CreateInPlace(c) \/ CreateAnew(c)
  PROVE  \E t \in Slice :
           /\ call' = [call EXCEPT ![c] = AsResized(call[c], "changed", t)]
           /\ mem' \in Memory
           /\ Fits(mem', cache) /\ Fits(mem', t)
           /\ \A d \in Callers \ {c} : Fits(mem', call[d].slice)
           /\ Content(mem', t) = Append(Loaded(c), call[c].entry)
<1>1. PICK q : q = call[c]
  OBVIOUS
<1>2. PICK s : s = q.slice
  OBVIOUS
<1>3. PICK e : e = q.entry
  OBVIOUS
<1>4. /\ mem \in Memory /\ Fits(mem, cache) /\ q \in CallRecord
      /\ Fits(mem, s) /\ \A d \in Callers : Fits(mem, call[d].slice)
  BY <1>1, <1>2 DEF StoreTypes
<1>5. e \in Entry /\ s \in Slice /\ s.len \in Nat /\ (s.arr = none \/ s.arr \in Arrays)
  BY <1>2, <1>3, <1>4 DEF CallRecord, Slice
<1>6. CASE CreateInPlace(c)
  <2>1. PICK t : t = [s EXCEPT !.len = s.len + 1]
    OBVIOUS
  <2>2. t \in Slice /\ t.arr = s.arr /\ t.len = s.len + 1
    BY <1>5, <2>1 DEF Slice
  <2>3. PICK es : es = mem[s.arr]
    OBVIOUS
  <2>4. PICK fs : fs = IF s.len < Len(es) THEN [es EXCEPT ![s.len + 1] = e] ELSE Append(es, e)
    OBVIOUS
  <2>5. s.arr \in Arrays /\ es \in Seq(Entry) /\ s.len <= Len(es)
    BY <1>1, <1>2, <1>4, <1>5, <1>6, <2>3 DEF CreateInPlace, Memory, Fits, Array
  <2>6. /\ fs \in Seq(Entry) /\ Len(es) <= Len(fs) /\ s.len + 1 <= Len(fs)
        /\ fs[s.len + 1] = e
        /\ \A j \in 1 .. s.len : fs[j] = es[j]
    BY <1>5, <2>4, <2>5, AppendEntry
  <2>7. mem' = [mem EXCEPT ![s.arr] = fs]
    BY <1>1, <1>2, <1>3, <1>6, <2>3, <2>4 DEF CreateInPlace
  <2>8. mem' \in Memory /\ Elsewhere(mem, mem', s.arr) /\ mem'[s.arr] = fs
    <3>1. mem \in Memory /\ s.arr \in Arrays /\ fs \in Seq(Entry)
      BY <1>4, <2>5, <2>6
    <3> QED
      BY <2>7, <3>1 DEF Memory, Elsewhere
  <2>9. /\ \A u \in Slice : Fits(mem, u) => Fits(mem', u)
        /\ Fits(mem', t)
        /\ Content(mem', t) = Append(Content(mem, s), e)
    <3>1. /\ mem \in Memory /\ mem' \in Memory /\ Fits(mem, s) /\ s.arr \in Arrays
          /\ e \in Entry /\ Elsewhere(mem, mem', s.arr) /\ Len(mem[s.arr]) <= Len(mem'[s.arr])
          /\ s.len + 1 <= Len(mem'[s.arr]) /\ mem'[s.arr][s.len + 1] = e
          /\ \A j \in 1 .. s.len : mem'[s.arr][j] = mem[s.arr][j]
          /\ t \in Slice /\ t.arr = s.arr /\ t.len = s.len + 1
      BY <1>4, <1>5, <2>2, <2>3, <2>5, <2>6, <2>8
    <3> QED
      BY <3>1, WriteBehind
  <2>10. call' = [call EXCEPT ![c] = AsResized(call[c], "changed", t)]
    <3>1. call' = [call EXCEPT ![c].pc = "changed", ![c].slice.len = @ + 1]
      BY <1>6 DEF CreateInPlace
    <3>2. call \in [Callers -> CallRecord]
      BY DEF StoreTypes
    <3> QED
      BY <1>1, <1>2, <2>1, <3>1, <3>2 DEF AsResized, CallRecord
  <2> QED
    BY <1>1, <1>2, <1>3, <1>4, <2>2, <2>8, <2>9, <2>10 DEF Fits, Loaded
<1>7. CASE CreateAnew(c)
  <2>1. PICK es : es = Append(Content(mem, s), e)
    OBVIOUS
  <2>2. es \in Seq(Entry)
    BY <1>4, <1>5, <2>1, ContentOf
  <2>3. es = Append(Loaded(c), call[c].entry)
    BY <1>1, <1>2, <1>3, <2>1 DEF Loaded
  <2>4. PICK m : m = [mem EXCEPT ![NewArray] = es]
    OBVIOUS
  <2>5. PICK t : t = Fresh(es)
    OBVIOUS
  <2>6. /\ m \in Memory /\ t \in Slice /\ Fits(m, t) /\ Content(m, t) = es
        /\ Fits(m, cache) /\ \A d \in Callers : Fits(m, call[d].slice)
    BY <2>2, <2>4, <2>5, FreshIsApart
  <2>7. /\ call' = [call EXCEPT ![c].pc = "changed", ![c].slice = t]
        /\ mem' = Collect(m, cache, call')
    BY <1>7, <2>3, <2>4, <2>5 DEF CreateAnew
  <2>8. call' = [call EXCEPT ![c] = AsResized(call[c], "changed", t)]
    BY <2>7 DEF AsResized, StoreTypes
  <2>9. call'[c].slice = t /\ \A d \in Callers \ {c} : call'[d] = call[d]
    BY <2>7 DEF StoreTypes, CallRecord
  <2>10. \A d \in Callers : Fits(m, call'[d].slice)
    BY <2>6, <2>9
  <2>11. m \in Memory /\ Fits(m, cache) /\ mem' = Collect(m, cache, call')
    BY <2>6, <2>7
  <2>12. /\ mem' \in Memory /\ Fits(mem', cache)
         /\ \A d \in Callers : /\ Fits(mem', call'[d].slice)
                               /\ Content(mem', call'[d].slice) = Content(m, call'[d].slice)
    BY <2>10, <2>11, CollectStep
  <2> QED
    BY <2>3, <2>6, <2>8, <2>9, <2>12
<1> QED
  BY <1>6, <1>7

(* What slices.DeleteFunc leaves of the array, seen through the slice that  *)
(* is as long as what was kept.                                             *)
LEMMA WriteFront ==
  ASSUME NEW m \in Memory, NEW n \in Memory, NEW a \in Arrays, Elsewhere(m, n, a),
         Len(n[a]) = Len(m[a]), NEW ks \in Seq(Entry), Len(ks) <= Len(n[a]),
         \A j \in 1 .. Len(ks) : n[a][j] = ks[j],
         NEW t \in Slice, t.arr = a, t.len = Len(ks)
  PROVE  /\ \A u \in Slice : Fits(m, u) => Fits(n, u)
         /\ Fits(n, t)
         /\ Content(n, t) = ks
<1>1. Len(m[a]) \in Nat
  BY DEF Memory
<1>2. Len(m[a]) <= Len(n[a])
  BY <1>1
<1>3. /\ \A u \in Slice : Fits(m, u) => Fits(n, u)
      /\ \A u \in Slice : u.arr = a => Array(n, u) = n[a]
  BY <1>2, SameArray
<1>4. Array(n, t) = n[a]
  BY <1>3
<1>5. Fits(n, t)
  BY <1>4 DEF Fits
<1>6. \A j \in 1 .. t.len : Array(n, t)[j] = ks[j]
  BY <1>4
<1>7. Content(n, t) = ks
  BY <1>5, <1>6, ContentIs
<1> QED
  BY <1>3, <1>5, <1>7

(* A call deletes an entry. *)
LEMMA DeleteParts ==
  ASSUME StoreTypes, NEW c \in Callers, Delete(c)
  PROVE  LET ks == Kept(Loaded(c), call[c].entry.id)
         IN  \E t \in Slice :
               /\ call' = [call EXCEPT ![c] =
                             AsResized(call[c], IF ks = <<>> THEN "emptied" ELSE "changed", t)]
               /\ mem' \in Memory
               /\ Fits(mem', cache) /\ Fits(mem', t)
               /\ \A d \in Callers \ {c} : Fits(mem', call[d].slice)
               /\ Content(mem', t) = ks
               /\ ks = <<>> => t.len = 0
<1>1. PICK q : q = call[c]
  OBVIOUS
<1>2. PICK s : s = q.slice
  OBVIOUS
<1>3. PICK ks : ks = Kept(Loaded(c), call[c].entry.id)
  OBVIOUS
<1>4. /\ mem \in Memory /\ Fits(mem, cache) /\ q \in CallRecord
      /\ Fits(mem, s) /\ \A d \in Callers : Fits(mem, call[d].slice)
  BY <1>1, <1>2 DEF StoreTypes
<1>5. s \in Slice /\ s.len \in Nat /\ (s.arr = none \/ s.arr \in Arrays)
  BY <1>2, <1>4 DEF CallRecord, Slice
<1>6. Loaded(c) \in Seq(Entry) /\ Len(Loaded(c)) = s.len
  BY <1>1, <1>2, <1>4, ContentOf DEF Loaded
<1>7. ks \in Seq(Entry) /\ Len(ks) \in 0 .. s.len
  BY <1>3, <1>6, KeptType
<1>8. PICK p : p = IF ks = <<>> THEN "emptied" ELSE "changed"
  OBVIOUS
<1>9. PICK t : t = [s EXCEPT !.len = Len(ks)]
  OBVIOUS
<1>10. t \in Slice /\ t.arr = s.arr /\ t.len = Len(ks)
  BY <1>5, <1>7, <1>9 DEF Slice
<1>11. /\ call' = [call EXCEPT ![c].pc = p, ![c].slice.len = Len(ks)]
       /\ mem' = IF s.arr = none THEN mem
                 ELSE [mem EXCEPT ![s.arr] =
                         [i \in DOMAIN @ |-> IF i <= Len(ks) THEN ks[i]
                                             ELSE IF i <= s.len THEN Zero ELSE @[i]]]
  BY <1>1, <1>2, <1>3, <1>8 DEF Delete
<1>12. call' = [call EXCEPT ![c] = AsResized(call[c], p, t)]
  <2>1. call' = [call EXCEPT ![c].pc = p, ![c].slice.len = Len(ks)]
    BY <1>11
  <2>2. call \in [Callers -> CallRecord]
    BY DEF StoreTypes
  <2> QED
    BY <1>1, <1>2, <1>9, <2>1, <2>2 DEF AsResized, CallRecord
<1>13. /\ mem' \in Memory /\ Fits(mem', t) /\ Content(mem', t) = ks
       /\ \A u \in Slice : Fits(mem, u) => Fits(mem', u)
  <2>1. CASE s.arr = none
    <3>1. Array(mem, s) = <<>> /\ Len(<<>>) = 0
      BY <2>1 DEF Array
    <3>2. s.len = 0
      BY <1>4, <1>5, <3>1 DEF Fits
    <3>3. mem' = mem /\ t.len = 0 /\ Len(ks) = 0 /\ ks = <<>>
      BY <1>7, <1>10, <1>11, <2>1, <3>2
    <3>4. Array(mem, t) = <<>>
      BY <1>10, <2>1 DEF Array
    <3>5. Fits(mem, t)
      BY <1>10, <3>1, <3>3, <3>4 DEF Fits
    <3>6. Content(mem, t) = <<>>
      BY <1>4, <3>3, <3>5, NoEntries
    <3> QED
      BY <1>4, <3>3, <3>5, <3>6
  <2>2. CASE s.arr # none
    <3>1. PICK es : es = mem[s.arr]
      OBVIOUS
    <3>2. PICK fs : fs = [i \in DOMAIN es |-> IF i <= Len(ks) THEN ks[i]
                                              ELSE IF i <= s.len THEN Zero ELSE es[i]]
      OBVIOUS
    <3>3. s.arr \in Arrays /\ es \in Seq(Entry) /\ s.len <= Len(es)
      BY <1>4, <1>5, <2>2, <3>1 DEF Memory, Fits, Array
    <3>4. ks \in Seq(Entry) /\ s.len \in Nat /\ Len(ks) <= s.len
      BY <1>5, <1>7
    <3>5. /\ fs \in Seq(Entry) /\ Len(fs) = Len(es) /\ Len(ks) <= Len(fs)
          /\ \A j \in 1 .. Len(ks) : fs[j] = ks[j]
      <4>1. es \in Seq(Entry) /\ s.len <= Len(es) /\ Len(es) \in Nat /\ Len(ks) \in Nat
        BY <3>3, <3>4
      <4>2. Zero \in Entry
        BY DEF Zero, Entry
      <4>3. DOMAIN es = 1 .. Len(es)
        BY <4>1
      <4>4. /\ DOMAIN fs = 1 .. Len(es)
            /\ \A j \in 1 .. Len(es) :
                 fs[j] = IF j <= Len(ks) THEN ks[j] ELSE IF j <= s.len THEN Zero ELSE es[j]
        BY <3>2, <4>3
      <4>5. \A j \in 1 .. Len(es) : fs[j] \in Entry
        BY <3>4, <4>1, <4>2, <4>4
      <4>6. fs = [j \in DOMAIN fs |-> fs[j]]
        BY <3>2
      <4>7. fs \in [1 .. Len(es) -> Entry]
        BY <4>4, <4>5, <4>6
      <4>8. fs \in Seq(Entry) /\ Len(fs) = Len(es)
        BY <4>1, <4>7
      <4> QED
        BY <3>4, <4>1, <4>4, <4>8
    <3>6. mem' = [mem EXCEPT ![s.arr] = fs]
      BY <1>11, <2>2, <3>1, <3>2
    <3>7. mem' \in Memory /\ Elsewhere(mem, mem', s.arr) /\ mem'[s.arr] = fs
      <4>1. mem \in Memory /\ s.arr \in Arrays /\ fs \in Seq(Entry)
        BY <1>4, <3>3, <3>5
      <4> QED
        BY <3>6, <4>1 DEF Memory, Elsewhere
    <3>8. /\ mem \in Memory /\ mem' \in Memory /\ s.arr \in Arrays
          /\ Elsewhere(mem, mem', s.arr)
          /\ Len(mem'[s.arr]) = Len(mem[s.arr]) /\ ks \in Seq(Entry) /\ Len(ks) <= Len(mem'[s.arr])
          /\ \A j \in 1 .. Len(ks) : mem'[s.arr][j] = ks[j]
          /\ t \in Slice /\ t.arr = s.arr /\ t.len = Len(ks)
      BY <1>4, <1>7, <1>10, <3>1, <3>3, <3>5, <3>7
    <3>9. /\ \A u \in Slice : Fits(mem, u) => Fits(mem', u)
          /\ Fits(mem', t) /\ Content(mem', t) = ks
      BY <3>8, WriteFront
    <3> QED
      BY <3>7, <3>9
  <2> QED
    BY <2>1, <2>2
<1>14. Fits(mem', cache) /\ \A d \in Callers : Fits(mem', call[d].slice)
  BY <1>4, <1>13 DEF Fits
<1>15. ks = <<>> => t.len = 0
  BY <1>10
<1> QED
  BY <1>3, <1>8, <1>10, <1>12, <1>13, <1>14, <1>15

(* What the calls do that change the length of the group: one gets a slice  *)
(* with other entries.                                                      *)
Resized(c, es, v) ==
  /\ call[c].pc = "found" /\ call[c].op # "update"
  /\ \A d \in Callers \ {c} : call'[d] = call[d]
  /\ call'[c].pc \in {"changed", "emptied"}
  /\ call'[c].op = call[c].op /\ call'[c].entry = call[c].entry
  /\ Content(mem', call'[c].slice) = es
  /\ expected' = Expect(call[c].entry.id, v)
  /\ UNCHANGED <<cache, file, lock, damaged, mixed>>

(* They keep the types. *)
LEMMA ResizeStep ==
  ASSUME StoreTypes, NEW c \in Callers, call[c].pc = "found", call[c].op # "update",
         NEW p \in {"changed", "emptied"}, NEW t \in Slice, p = "emptied" => t.len = 0,
         call' = [call EXCEPT ![c] = AsResized(call[c], p, t)],
         mem' \in Memory, Fits(mem', cache), Fits(mem', t),
         \A d \in Callers \ {c} : Fits(mem', call[d].slice),
         NEW v \in Values \cup {none}, expected' = Expect(call[c].entry.id, v),
         UNCHANGED <<cache, file, lock, damaged, mixed>>
  PROVE  StoreTypes' /\ Resized(c, Content(mem', t), v)
<1>1. PICK r : r = AsResized(call[c], p, t)
  OBVIOUS
<1>2. call[c] \in CallRecord /\ StepOK(call[c])
  BY DEF StoreTypes
<1>3. /\ r \in CallRecord /\ StepOK(r) /\ ~ Locking(r)
      /\ r.pc = p /\ r.op = call[c].op /\ r.entry = call[c].entry /\ r.slice = t
  BY <1>1, <1>2, ResizedCall
<1>4. call' = [call EXCEPT ![c] = r]
  BY <1>1
<1>5. call'[c] = r /\ \A d \in Callers \ {c} : call'[d] = call[d]
  BY <1>4 DEF StoreTypes
<1>6. lock # c
  BY DEF StoreTypes, Locking
<1>7. FileOK' /\ damaged' \in {"yes", "no"} /\ mixed' \in {"yes", "no"}
  BY DEF FileOK, StoreTypes
<1>8. expected' \in [Services -> Values \cup {none}]
  BY ExpectType
<1>9. StoreTypes'
  BY <1>3, <1>4, <1>6, <1>7, <1>8, StoreTypesStep
<1> QED
  BY <1>3, <1>5, <1>9 DEF Resized

(* A call appends an entry. *)
LEMMA CreateStep ==
  ASSUME StoreTypes, NEW c \in Callers, Create(c)
  PROVE  StoreTypes' /\ Resized(c, Append(Loaded(c), call[c].entry), call[c].entry.val)
<1>1. /\ call[c].pc = "found" /\ call[c].op = "create"
      /\ CreateInPlace(c) \/ CreateAnew(c)
      /\ expected' = Expect(call[c].entry.id, call[c].entry.val)
      /\ UNCHANGED <<cache, file, lock, damaged, mixed>>
  BY DEF Create, CreateInPlace, CreateAnew
<1>2. PICK t \in Slice :
           /\ call' = [call EXCEPT ![c] = AsResized(call[c], "changed", t)]
           /\ mem' \in Memory
           /\ Fits(mem', cache) /\ Fits(mem', t)
           /\ \A d \in Callers \ {c} : Fits(mem', call[d].slice)
           /\ Content(mem', t) = Append(Loaded(c), call[c].entry)
  BY <1>1, CreateParts
<1>3. call[c].entry.val \in Values \cup {none}
  BY DEF StoreTypes, CallRecord, Entry
<1>4. StoreTypes' /\ Resized(c, Content(mem', t), call[c].entry.val)
  BY <1>1, <1>2, <1>3, ResizeStep
<1> QED
  BY <1>2, <1>4

(* A call deletes an entry. *)
LEMMA DeleteStep ==
  ASSUME StoreTypes, NEW c \in Callers, Delete(c)
  PROVE  StoreTypes' /\ Resized(c, Kept(Loaded(c), call[c].entry.id), none)
<1>1. /\ call[c].pc = "found" /\ call[c].op = "delete"
      /\ expected' = Expect(call[c].entry.id, none)
      /\ UNCHANGED <<cache, file, lock, damaged, mixed>>
  BY DEF Delete
<1>2. PICK ks : ks = Kept(Loaded(c), call[c].entry.id)
  OBVIOUS
<1>3. PICK p : p = IF ks = <<>> THEN "emptied" ELSE "changed"
  OBVIOUS
<1>4. PICK t \in Slice :
           /\ call' = [call EXCEPT ![c] = AsResized(call[c], p, t)]
           /\ mem' \in Memory
           /\ Fits(mem', cache) /\ Fits(mem', t)
           /\ \A d \in Callers \ {c} : Fits(mem', call[d].slice)
           /\ Content(mem', t) = ks
           /\ ks = <<>> => t.len = 0
  BY <1>2, <1>3, DeleteParts
<1>5. p \in {"changed", "emptied"} /\ (p = "emptied" => t.len = 0) /\ none \in Values \cup {none}
  BY <1>3, <1>4
<1>6. call[c].op # "update"
  BY <1>1
<1>7. StoreTypes' /\ Resized(c, Content(mem', t), none)
  BY <1>1, <1>4, <1>5, <1>6, ResizeStep
<1> QED
  BY <1>2, <1>4, <1>7

(* A call saves: the new cache has the entries of its slice, and it goes on *)
(* to write them unless the file cannot be parsed.                          *)
LEMMA SaveStep ==
  ASSUME StoreTypes, NEW c \in Callers, Save(c)
  PROVE  /\ StoreTypes'
         /\ OthersKeep(c)
         /\ lock = none /\ call[c].pc \in {"changed", "emptied"}
         /\ cache' = IF call[c].pc = "emptied" THEN Nil ELSE call[c].slice
         /\ Content(mem', cache') = Loaded(c)
         /\ UNCHANGED <<expected, mixed>>
         /\ \/ /\ file = torn /\ file' = torn /\ lock' = none /\ damaged' = "yes"
               /\ call'[c] = Idle
            \/ /\ file # torn /\ file' = <<>> /\ lock' = c /\ damaged' = damaged
               /\ call'[c].pc = IF call[c].pc = "emptied" THEN "dropping" ELSE "writing"
               /\ call'[c].op = call[c].op /\ call'[c].entry = call[c].entry
               /\ call'[c].data = Loaded(c)
<1>1. PICK q : q = call[c]
  OBVIOUS
<1>2. PICK es : es = Content(mem, q.slice)
  OBVIOUS
<1>3. /\ mem \in Memory /\ Fits(mem, cache) /\ q \in CallRecord /\ StepOK(q)
      /\ Fits(mem, q.slice) /\ \A d \in Callers : Fits(mem, call[d].slice)
  BY <1>1 DEF StoreTypes
<1>4. es \in Seq(Entry) /\ es = Loaded(c)
  BY <1>1, <1>2, <1>3, ContentOf DEF Loaded
<1>5. q.pc = "emptied" => es = <<>>
  BY <1>2, <1>3, NoEntries DEF StepOK
<1>6. /\ lock = none /\ q.pc \in {"emptied", "changed"}
      /\ cache' = IF q.pc = "emptied" THEN Nil ELSE q.slice
      /\ UNCHANGED <<expected, mixed>>
      /\ mem' = Collect(mem, cache', call')
  BY <1>1 DEF Save
<1>7. Fits(mem, cache') /\ Content(mem, cache') = es
  BY <1>2, <1>3, <1>5, <1>6, NilFits
<1>8. PICK r : r = IF file = torn THEN Idle
                   ELSE IF q.pc = "emptied" THEN AsAt(q, "dropping") ELSE AsWriting(q, es)
  OBVIOUS
<1>9. call' = [call EXCEPT ![c] = r]
  BY <1>1, <1>2, <1>8 DEF Save, Marshalled, AsAt, AsWriting
<1>10. call'[c] = r /\ \A d \in Callers \ {c} : call'[d] = call[d]
  BY <1>9 DEF StoreTypes
<1>11. /\ r \in CallRecord /\ StepOK(r) /\ (Locking(r) <=> file # torn)
       /\ (r.slice = Nil \/ r.slice = q.slice)
       /\ file # torn => /\ r.pc = IF q.pc = "emptied" THEN "dropping" ELSE "writing"
                         /\ r.op = q.op /\ r.entry = q.entry /\ r.data = es
       /\ file = torn => r = Idle
  <2>1. CASE file = torn
    BY <1>8, <2>1, IdleOK
  <2>2. CASE file # torn /\ q.pc = "emptied"
    <3>1. r = AsAt(q, "dropping")
      BY <1>8, <2>2
    <3>2. /\ r \in CallRecord /\ StepOK(r) /\ Locking(r)
          /\ r.pc = "dropping" /\ r.op = q.op /\ r.entry = q.entry /\ r.slice = q.slice
          /\ r.data = <<>>
      BY <1>3, <2>2, <3>1, DroppingCall
    <3> QED
      BY <1>5, <2>2, <3>2
  <2>3. CASE file # torn /\ q.pc # "emptied"
    <3>1. r = AsWriting(q, es) /\ q.pc = "changed"
      BY <1>6, <1>8, <2>3
    <3>2. /\ r \in CallRecord /\ StepOK(r) /\ Locking(r)
          /\ r.pc = "writing" /\ r.op = q.op /\ r.entry = q.entry /\ r.slice = Nil
          /\ r.data = es
      BY <1>3, <1>4, <3>1, WritingCall
    <3> QED
      BY <2>3, <3>2
  <2> QED
    BY <2>1, <2>2, <2>3
<1>12. \A d \in Callers : Fits(mem, call'[d].slice)
  BY <1>3, <1>10, <1>11, NilFits
<1>13. mem \in Memory /\ Fits(mem, cache') /\ mem' = Collect(mem, cache', call')
  BY <1>3, <1>6, <1>7
<1>14. /\ mem' \in Memory
       /\ Fits(mem', cache') /\ Content(mem', cache') = Content(mem, cache')
       /\ \A d \in Callers : /\ Fits(mem', call'[d].slice)
                             /\ Content(mem', call'[d].slice) = Content(mem, call'[d].slice)
  BY <1>12, <1>13, CollectStep
<1>15. OthersKeep(c)
  BY <1>10, <1>14 DEF OthersKeep
<1>16. Fits(mem', r.slice) /\ \A d \in Callers \ {c} : Fits(mem', call[d].slice)
  BY <1>10, <1>14
<1>17. \/ file = torn /\ file' = torn /\ lock' = none /\ damaged' = "yes"
       \/ file # torn /\ file' = <<>> /\ lock' = c /\ damaged' = damaged
  BY <1>6 DEF Save
<1>18. c # none
  BY RepoAssumption DEF Callers
<1>19. FileOK'
  <2>1. <<>> \in Seq(Entry) /\ torn \notin Seq(Entry)
    BY RepoAssumption DEF Entry
  <2> QED
    BY <1>6, <1>17, <2>1 DEF FileOK, StoreTypes
<1>20. \/ lock' = lock /\ (lock = c <=> Locking(r))
       \/ lock = none /\ lock' = c /\ Locking(r)
  BY <1>6, <1>11, <1>17, <1>18
<1>21. /\ damaged' \in {"yes", "no"} /\ mixed' \in {"yes", "no"}
       /\ expected' \in [Services -> Values \cup {none}]
  BY <1>6, <1>17 DEF StoreTypes
<1>22. StoreTypes'
  BY <1>9, <1>11, <1>14, <1>16, <1>19, <1>20, <1>21, StoreTypesStep
<1> QED
  BY <1>1, <1>4, <1>6, <1>7, <1>10, <1>11, <1>14, <1>15, <1>17, <1>22

(* A write ends, well or badly. *)
LEMMA WriteEnds ==
  ASSUME StoreTypes, NEW c \in Callers, Written(c) \/ WriteFails(c)
  PROVE  /\ StoreTypes'
         /\ OthersKeep(c)
         /\ lock = c /\ lock' = none /\ file = <<>>
         /\ call[c].pc \in {"writing", "dropping"}
         /\ Content(mem', cache) = Content(mem, cache)
         /\ UNCHANGED <<cache, expected, mixed>>
         /\ \/ call'[c] = Idle
            \/ /\ Written(c) /\ call[c].pc = "dropping"
               /\ call'[c].pc = "changed" /\ call'[c].op # "update"
               /\ call'[c].op = call[c].op /\ call'[c].entry = call[c].entry
               /\ Content(mem', call'[c].slice) = <<>>
         /\ call[c].pc = "dropping" => call[c].data = <<>>
<1>1. PICK q : q = call[c]
  OBVIOUS
<1>2. /\ mem \in Memory /\ Fits(mem, cache) /\ q \in CallRecord /\ StepOK(q)
      /\ Fits(mem, q.slice) /\ \A d \in Callers : Fits(mem, call[d].slice)
  BY <1>1 DEF StoreTypes
<1>3. /\ lock = c /\ lock' = none /\ UNCHANGED <<cache, expected, mixed>>
      /\ mem' = Collect(mem, cache, call')
  BY DEF Written, WriteFails
<1>4. q.pc \in {"writing", "dropping"} /\ (q.pc = "dropping" => q.data = <<>>)
  BY <1>1, <1>2, <1>3 DEF StoreTypes, Locking, StepOK
<1>5. c # none
  BY RepoAssumption DEF Callers
<1>6. PICK r : r = IF Written(c) /\ q.pc = "dropping" THEN AsAt(q, "changed") ELSE Idle
  OBVIOUS
<1>7. call' = [call EXCEPT ![c] = r]
  <2>1. CASE Written(c)
    BY <1>1, <1>6, <2>1 DEF Written, AsAt
  <2>2. CASE ~ Written(c)
    BY <1>6, <2>2 DEF WriteFails
  <2> QED
    BY <2>1, <2>2
<1>8. call'[c] = r /\ \A d \in Callers \ {c} : call'[d] = call[d]
  BY <1>7 DEF StoreTypes
<1>9. /\ r \in CallRecord /\ StepOK(r) /\ ~ Locking(r)
      /\ (r.slice = Nil \/ r.slice = q.slice)
      /\ \/ r = Idle
         \/ /\ Written(c) /\ q.pc = "dropping" /\ r.pc = "changed" /\ r.op # "update"
            /\ r.op = q.op /\ r.entry = q.entry /\ r.slice = q.slice /\ r.slice.len = 0
  <2>1. CASE r = Idle
    BY <2>1, IdleOK
  <2>2. CASE Written(c) /\ q.pc = "dropping"
    <3>1. r = AsAt(q, "changed")
      BY <1>6, <2>2
    <3> QED
      BY <1>2, <2>2, <3>1, DroppingCall
  <2> QED
    BY <1>6, <2>1, <2>2
<1>10. \A d \in Callers : Fits(mem, call'[d].slice)
  BY <1>2, <1>8, <1>9, NilFits
<1>11. mem \in Memory /\ Fits(mem, cache) /\ mem' = Collect(mem, cache, call')
  BY <1>2, <1>3
<1>12. /\ mem' \in Memory
       /\ Fits(mem', cache) /\ Content(mem', cache) = Content(mem, cache)
       /\ \A d \in Callers : /\ Fits(mem', call'[d].slice)
                             /\ Content(mem', call'[d].slice) = Content(mem, call'[d].slice)
  BY <1>10, <1>11, CollectStep
<1>13. OthersKeep(c)
  BY <1>8, <1>12 DEF OthersKeep
<1>14. Fits(mem', r.slice) /\ \A d \in Callers \ {c} : Fits(mem', call[d].slice)
  BY <1>8, <1>12
<1>15. r.slice.len = 0 => Content(mem', r.slice) = <<>>
  BY <1>12, <1>14, NoEntries
<1>16. FileOK' /\ damaged' \in {"yes", "no"} /\ file = <<>>
  <2>1. <<>> \in Seq(Entry) /\ torn \notin Seq(Entry) /\ q.data \in Seq(Entry)
    BY <1>2, RepoAssumption DEF Entry, CallRecord
  <2>2. \/ file' = q.data /\ damaged' = "no"
        \/ file' \in {<<>>, torn} /\ damaged' = "yes"
    BY <1>1 DEF Written, WriteFails
  <2> QED
    BY <1>3, <1>5, <2>1, <2>2 DEF FileOK, StoreTypes
<1>17. StoreTypes'
  <2>1. mixed' \in {"yes", "no"} /\ expected' \in [Services -> Values \cup {none}]
    BY <1>3 DEF StoreTypes
  <2>2. lock = c /\ lock' = none /\ ~ Locking(r) /\ Fits(mem', cache')
    BY <1>3, <1>9, <1>12
  <2> QED
    BY <1>7, <1>9, <1>12, <1>14, <1>16, <2>1, <2>2, StoreTypesStep
<1> QED
  BY <1>1, <1>3, <1>4, <1>8, <1>9, <1>12, <1>13, <1>15, <1>16, <1>17

(* The whole file is read. *)
LEMMA LoadAllStep ==
  ASSUME StoreTypes, LoadAll
  PROVE  /\ StoreTypes'
         /\ cache' # Nil /\ Content(mem', cache') = file
<1>1. /\ lock = none /\ file \notin {<<>>, torn} /\ cache' = Fresh(file)
      /\ UNCHANGED <<file, lock, call, damaged>>
  BY DEF LoadAll
<1>2. file \in Seq(Entry)
  BY <1>1 DEF StoreTypes, FileOK
<1>3. PICK m : m = [mem EXCEPT ![NewArray] = file]
  OBVIOUS
<1>4. PICK t : t = Fresh(file)
  OBVIOUS
<1>5. /\ m \in Memory /\ t \in Slice /\ t # Nil /\ Fits(m, t) /\ Content(m, t) = file
      /\ \A d \in Callers : Fits(m, call[d].slice)
  BY <1>2, <1>3, <1>4, FreshIsApart
<1>6. /\ m \in Memory /\ Fits(m, t) /\ mem' = Collect(m, t, call)
      /\ \A d \in Callers : Fits(m, call[d].slice)
  BY <1>1, <1>3, <1>4, <1>5 DEF LoadAll
<1>7. /\ mem' \in Memory
      /\ Fits(mem', t) /\ Content(mem', t) = Content(m, t)
      /\ \A d \in Callers : Fits(mem', call[d].slice)
  BY <1>6, CollectStep
<1>8. expected' \in [Services -> Values \cup {none}] /\ mixed' \in {"yes", "no"}
  <2>1. Unknown \in [Services -> Values \cup {none}]
    BY DEF Unknown
  <2> QED
    BY <2>1 DEF LoadAll, StoreTypes
<1>9. StoreTypes'
  BY <1>1, <1>4, <1>7, <1>8 DEF StoreTypes, FileOK
<1> QED
  BY <1>1, <1>4, <1>5, <1>7, <1>9

(* The process starts again. *)
LEMMA CrashStep ==
  ASSUME StoreTypes, Crash
  PROVE  /\ StoreTypes'
         /\ cache' = Nil /\ lock' = none /\ \A c \in Callers : call'[c] = Idle
         /\ damaged' = "no" <=> file' # torn
         /\ file' # torn => expected' = ValuesOf(file')
<1>1. /\ mem' = NoMemory /\ cache' = Nil /\ lock' = none
      /\ call' = [c \in Callers |-> Idle] /\ mixed' = "no"
      /\ damaged' = IF file' = torn THEN "yes" ELSE "no"
      /\ expected' = IF file' = torn THEN expected ELSE ValuesOf(file')
  BY DEF Crash
<1>2. mem' \in Memory /\ Fits(mem', cache')
  BY <1>1, NilFits DEF NoMemory, Memory
<1>3. file' = torn \/ file' \in Seq(Entry)
  <2>1. <<>> \in Seq(Entry)
    OBVIOUS
  <2>2. file = torn \/ file \in Seq(Entry)
    BY DEF StoreTypes, FileOK
  <2>3. lock # none => call[lock].data \in Seq(Entry)
    BY DEF StoreTypes, CallRecord
  <2>4. file' \in IF lock = none THEN {file} ELSE {<<>>, torn, call[lock].data}
    BY DEF Crash
  <2> QED
    BY <2>1, <2>2, <2>3, <2>4
<1>4. FileOK'
  BY <1>1, <1>3 DEF FileOK
<1>5. \A c \in Callers : call'[c] = Idle
  BY <1>1
<1>6. \A c \in Callers : /\ Fits(mem', call'[c].slice)
                         /\ StepOK(call'[c])
                         /\ lock' = c <=> Locking(call'[c])
  BY <1>1, <1>5, IdleOK, NilFits, RepoAssumption DEF Callers
<1>7. call' \in [Callers -> CallRecord]
  BY <1>1, IdleOK
<1>8. expected' \in [Services -> Values \cup {none}]
  BY <1>1, <1>3, ValuesOfType DEF StoreTypes
<1>9. StoreTypes'
  BY <1>1, <1>2, <1>4, <1>6, <1>7, <1>8 DEF StoreTypes
<1> QED
  BY <1>1, <1>5, <1>9

-----------------------------------------------------------------------------
(* The steps, and what holds of all of them. *)

(* A call reads the group, as its first step or once more. *)
Reads(c, op, e) ==
  /\ op \in {"create", "update", "delete"} /\ e \in Entry /\ e.id \in Services
  /\ call[c].pc \in {"idle", "loaded"}
  /\ Read(c, op, e)

(* Every step is one of these. *)
LEMMA Steps ==
  ASSUME StoreTypes, Next
  PROVE  \/ \E c \in Callers :
              \/ \E op, e : Reads(c, op, e)
              \/ Find(c) \/ Update(c) \/ Create(c) \/ Delete(c)
              \/ Save(c) \/ Written(c) \/ WriteFails(c)
         \/ LoadAll
         \/ Crash
<1>1. ASSUME NEW c \in Callers, NEW op \in {"create", "update", "delete"}, NEW s \in Services,
             NEW v \in Values \cup {none}, Begin(c, op, [id |-> s, val |-> v])
      PROVE  \E o, e : Reads(c, o, e)
  <2>1. PICK e : e = [id |-> s, val |-> v]
    OBVIOUS
  <2>2. e \in Entry /\ e.id \in Services
    BY <2>1 DEF Entry
  <2>3. ~ Busy(c) /\ Read(c, op, e)
    BY <1>1, <2>1 DEF Begin
  <2>4. Reads(c, op, e)
    BY <2>2, <2>3 DEF Reads, Busy
  <2> QED
    BY <2>4
<1>2. ASSUME NEW c \in Callers, CreateUpdates(c)
      PROVE  \E o, e : Reads(c, o, e)
  <2>1. call[c] \in CallRecord /\ StepOK(call[c])
    BY DEF StoreTypes
  <2>2. call[c].pc = "loaded" /\ Read(c, "update", call[c].entry)
    BY <1>2 DEF CreateUpdates
  <2>3. call[c].entry \in Entry /\ call[c].entry.id \in Services
    BY <2>1, <2>2 DEF CallRecord, StepOK
  <2>4. Reads(c, "update", call[c].entry)
    BY <2>2, <2>3 DEF Reads
  <2> QED
    BY <2>4
<1>3. manager \in Callers
  BY DEF Callers
<1>4. CASE \E s \in Services, v \in Values :
             \/ Begin(manager, "create", [id |-> s, val |-> v])
             \/ \E c \in Callers : Begin(c, "update", [id |-> s, val |-> v])
  BY <1>1, <1>3, <1>4
<1>5. CASE \E s \in Services : Begin(manager, "delete", [id |-> s, val |-> none])
  BY <1>1, <1>3, <1>5
<1> QED
  BY <1>2, <1>4, <1>5 DEF Next

(* The types are kept. *)
LEMMA StoreTypesNext ==
  ASSUME StoreTypes, [Next]_vars
  PROVE  StoreTypes'
<1>1. CASE Next
  <2>1. ASSUME NEW c \in Callers, NEW op, NEW e, Reads(c, op, e) PROVE StoreTypes'
    BY <2>1, ReadStep DEF Reads
  <2> QED
    BY <1>1, <2>1, Steps, FindStep, UpdateStep, CreateStep, DeleteStep, SaveStep, WriteEnds,
       LoadAllStep, CrashStep
<1>2. CASE UNCHANGED vars
  BY <1>2 DEF vars, StoreTypes, FileOK
<1> QED
  BY <1>1, <1>2

(* The types hold always. *)
LEMMA StoreTyped == Spec => []StoreTypes
<1>1. Init => StoreTypes
  BY StoreTypesInit
<1>2. StoreTypes /\ [Next]_vars => StoreTypes'
  BY StoreTypesNext
<1> QED
  BY <1>1, <1>2, PTL DEF Spec

-----------------------------------------------------------------------------
(* The cache and the file. *)

(* A call that has changed the group and not saved it. *)
Unsaved(r) == r.pc \in {"changed", "emptied"}

Pending == \E c \in Callers : Unsaved(call[c])

(* The cache is what the file is, or what is being written to it, unless    *)
(* there is a change to save.                                               *)
Clean ==
  /\ lock = none /\ damaged = "no" /\ cache # Nil /\ ~ Pending => Content(mem, cache) = file
  /\ \A c \in Callers : call[c].pc = "writing" =>
       /\ Pending \/ Content(mem, cache) = call[c].data
       /\ cache = Nil => call[c].data = <<>>
       /\ call[c].op = "update" => cache # Nil
  /\ \A c \in Callers : call[c].pc = "dropping" => cache = Nil

(* It is so initially. *)
LEMMA CleanInit == Init => Clean
<1> SUFFICES ASSUME Init PROVE Clean
  OBVIOUS
<1>1. cache = Nil /\ \A c \in Callers : call[c].pc = "idle"
  BY DEF Init, Idle
<1> QED
  BY <1>1 DEF Clean

(* It stays so. *)
LEMMA CleanNext ==
  ASSUME StoreTypes, Clean, Next
  PROVE  Clean'
<1>1. StoreTypes'
  BY StoreTypesNext
<1>2. none \notin Callers
  BY RepoAssumption DEF Callers
<1>3. Idle.pc = "idle"
  BY DEF Idle
<1>4. \A d \in Callers : call'[d].pc \in {"writing", "dropping"} => lock' = d
  BY <1>1 DEF StoreTypes, Locking
<1>5. ASSUME lock' = none,
             damaged' = "no" /\ cache' # Nil /\ ~ Pending' => Content(mem', cache') = file'
      PROVE  Clean'
  BY <1>2, <1>4, <1>5 DEF Clean
<1>6. ASSUME NEW c \in Callers, NEW op, NEW e, Reads(c, op, e) PROVE Clean'
  <2>1. /\ OthersKeep(c) /\ call'[c].pc = "loaded" /\ Content(mem', cache') = Held
        /\ (cache # Nil \/ file = <<>> => cache' = cache)
    BY <1>6, ReadStep DEF Reads
  <2>2. lock = none /\ UNCHANGED <<file, lock, damaged>> /\ call[c].pc \in {"idle", "loaded"}
    BY <1>6 DEF Reads, Read, CanLoad
  <2>3. Pending' <=> Pending
    BY <2>1, <2>2 DEF Pending, Unsaved, OthersKeep
  <2>4. lock = none /\ damaged = "no" /\ ~ Pending => Held = file
    BY DEF Clean, Held
  <2>5. damaged' = "no" /\ cache' # Nil /\ ~ Pending' => Content(mem', cache') = file'
    BY <2>1, <2>2, <2>3, <2>4
  <2>6. lock' = none
    BY <2>2
  <2> QED
    BY <1>5, <2>5, <2>6
<1>7. ASSUME NEW c \in Callers, Find(c) PROVE Clean'
  <2>1. /\ OthersKeep(c) /\ Content(mem', cache) = Content(mem, cache)
        /\ call'[c] = Idle \/ call'[c].pc = "found"
    BY <1>7, FindStep
  <2>2. UNCHANGED <<cache, file, lock, damaged>> /\ call[c].pc = "loaded"
    BY <1>7 DEF Find
  <2>3. Pending' <=> Pending
    BY <1>3, <2>1, <2>2 DEF Pending, Unsaved, OthersKeep
  <2>4. \A d \in Callers : call'[d].pc \in {"writing", "dropping"} => call'[d] = call[d]
    BY <1>3, <2>1 DEF OthersKeep
  <2> QED
    BY <2>1, <2>2, <2>3, <2>4 DEF Clean
<1>8. ASSUME NEW c \in Callers, Update(c) \/ Create(c) \/ Delete(c) PROVE Clean'
  <2>1. /\ \A d \in Callers \ {c} : call'[d] = call[d]
        /\ Unsaved(call'[c]) /\ cache' = cache
    BY <1>8, UpdateStep, CreateStep, DeleteStep DEF Resized, Unsaved
  <2>2. Pending'
    BY <2>1 DEF Pending
  <2>3. \A d \in Callers : call'[d].pc \in {"writing", "dropping"} => call'[d] = call[d]
    BY <2>1 DEF Unsaved
  <2> QED
    BY <2>1, <2>2, <2>3 DEF Clean
<1>9. ASSUME NEW c \in Callers, Save(c) PROVE Clean'
  <2>1. /\ Content(mem', cache') = Loaded(c)
        /\ cache' = IF call[c].pc = "emptied" THEN Nil ELSE call[c].slice
    BY <1>9, SaveStep
  <2>2. CASE file = torn
    <3>1. lock' = none /\ damaged' = "yes"
      BY <1>9, <2>2, SaveStep
    <3> QED
      BY <1>5, <3>1
  <2>3. CASE file # torn
    <3>1. /\ lock' = c
          /\ call'[c].pc = IF call[c].pc = "emptied" THEN "dropping" ELSE "writing"
          /\ call'[c].op = call[c].op /\ call'[c].data = Loaded(c)
      BY <1>9, <2>3, SaveStep
    <3>2. \A d \in Callers : call'[d].pc \in {"writing", "dropping"} => d = c
      BY <1>4, <3>1
    <3>3. cache' = Nil => call'[c].data = <<>>
      BY <2>1, <3>1, NilFits
    <3>4. call'[c].pc = "writing" /\ call'[c].op = "update" => cache' # Nil
      <4>1. call[c].pc = "changed" /\ call[c].op = "update" => call[c].slice # Nil
        BY DEF StoreTypes, StepOK
      <4>2. call[c].pc \in {"changed", "emptied"}
        BY <1>9, SaveStep
      <4> QED
        BY <2>1, <3>1, <4>1, <4>2
    <3>5. call'[c].pc = "dropping" => cache' = Nil
      BY <2>1, <3>1
    <3>6. lock' # none
      BY <1>2, <3>1
    <3> QED
      BY <2>1, <3>1, <3>2, <3>3, <3>4, <3>5, <3>6 DEF Clean
  <2> QED
    BY <2>2, <2>3
<1>10. ASSUME NEW c \in Callers, Written(c) PROVE Clean'
  <2>1. /\ OthersKeep(c) /\ lock' = none /\ Content(mem', cache) = Content(mem, cache)
        /\ call[c].pc \in {"writing", "dropping"} /\ cache' = cache
        /\ call'[c] = Idle \/ call'[c].pc = "changed"
    BY <1>10, WriteEnds
  <2>2. file' = call[c].data
    BY <1>10 DEF Written
  <2>3. CASE call[c].pc = "writing"
    <3>1. Pending => Pending'
      BY <2>1, <2>3 DEF Pending, Unsaved, OthersKeep
    <3>2. cache' # Nil /\ ~ Pending' => Content(mem', cache') = file'
      BY <2>1, <2>2, <2>3, <3>1 DEF Clean
    <3> QED
      BY <1>5, <2>1, <3>2
  <2>4. CASE call[c].pc = "dropping"
    <3>1. cache' = Nil
      BY <2>1, <2>4 DEF Clean
    <3> QED
      BY <1>5, <2>1, <3>1
  <2> QED
    BY <2>1, <2>3, <2>4
<1>11. ASSUME NEW c \in Callers, WriteFails(c) PROVE Clean'
  <2>1. lock' = none /\ damaged' # "no"
    BY <1>11 DEF WriteFails
  <2> QED
    BY <1>5, <2>1
<1>12. ASSUME LoadAll PROVE Clean'
  <2>1. lock' = none /\ file' = file
    BY <1>12 DEF LoadAll
  <2>2. Content(mem', cache') = file'
    BY <1>12, <2>1, LoadAllStep
  <2> QED
    BY <1>5, <2>1, <2>2
<1>13. ASSUME Crash PROVE Clean'
  <2>1. lock' = none /\ cache' = Nil
    BY <1>13 DEF Crash
  <2> QED
    BY <1>5, <2>1
<1> QED
  BY <1>6, <1>7, <1>8, <1>9, <1>10, <1>11, <1>12, <1>13, Steps

(* The cache is the file whenever no call is in progress and no write has   *)
(* failed.                                                                  *)
THEOREM StoreCacheIsFile == Spec => []CacheIsFile
<1>1. Init => StoreTypes /\ Clean
  BY StoreTypesInit, CleanInit
<1>2. ASSUME StoreTypes, Clean, UNCHANGED vars PROVE Clean'
  BY <1>2 DEF vars, Clean, Pending
<1>3. StoreTypes /\ Clean /\ [Next]_vars => StoreTypes' /\ Clean'
  BY <1>2, StoreTypesNext, CleanNext
<1>4. StoreTypes /\ Clean => CacheIsFile
  <2> SUFFICES ASSUME StoreTypes, Clean,
                      \A c \in Callers : ~ Busy(c), damaged = "no", cache # Nil
               PROVE  Content(mem, cache) = file
    BY StoreTypesTypeOK DEF CacheIsFile
  <2>1. ~ Pending
    BY DEF Pending, Unsaved, Busy
  <2>2. lock = none
    BY DEF StoreTypes, Locking, Busy
  <2> QED
    BY <2>1, <2>2 DEF Clean
<1> QED
  BY <1>1, <1>3, <1>4, PTL DEF Spec

-----------------------------------------------------------------------------
(* The values. *)

(* A call that changes the length of the group. *)
Resizing(r) == r.pc # "idle" /\ r.op # "update"

(* Its slice is not the cached one until it saves. *)
Apart(r) == Unsaved(r) /\ r.op # "update"

(* A call that works on the cached slice. *)
Sharing(r) == r.pc \in {"loaded", "found"} \/ (r.pc = "changed" /\ r.op = "update")

Alone(c) == \A d \in Callers \ {c} : call[d].pc = "idle"

PendingFor(s) == \E c \in Callers : call[c].entry.id = s /\ Unsaved(call[c])

Sole == \A c \in Callers : Resizing(call[c]) => Alone(c)

Shared ==
  \A c \in Callers : Sharing(call[c]) => call[c].slice = cache /\ (cache = Nil => file = <<>>)

(* The index a call has found is still the entry's. *)
Located ==
  \A c \in Callers : call[c].pc = "found" =>
    /\ call[c].op = "update" => call[c].idx = Position(c)
    /\ call[c].op = "create" => Position(c) = 0

(* What was last given to each service is in the slice of the call that     *)
(* changed the length, or else in what Load finds.                          *)
Right ==
  /\ \A c \in Callers : Apart(call[c]) => ValuesOf(Loaded(c)) = expected
  /\ (\A c \in Callers : ~ Apart(call[c])) /\ ~ (cache = Nil /\ file = torn)
       => ValuesOf(Held) = expected

(* It is written, unless there is a change to save. *)
Writes ==
  lock # none =>
    \A s \in Services : PendingFor(s) \/ ValuesOf(call[lock].data)[s] = expected[s]

Durable ==
  lock = none /\ damaged = "no" =>
    \A s \in Services : PendingFor(s) \/ ValuesOf(file)[s] = expected[s]

(* What holds while no calls overlap in a way that loses writes. *)
Kempt == Sole /\ Shared /\ Located /\ Right /\ Writes /\ Durable

(* It includes what the run checks. *)
LEMMA KemptIsDurable ==
  ASSUME mixed = "no" => Kempt
  PROVE  SavedIsDurable
BY DEF Kempt, Durable, PendingFor, Unsaved, SavedIsDurable

(* After a step with one call in progress at most. *)
LEMMA KemptAlone ==
  ASSUME NEW c \in Callers, StoreTypes',
         \A d \in Callers \ {c} : call'[d].pc = "idle",
         Sharing(call'[c]) => call'[c].slice = cache' /\ (cache' = Nil => file' = <<>>),
         call'[c].pc = "found" => /\ call'[c].op = "update" => call'[c].idx = Position(c)'
                                  /\ call'[c].op = "create" => Position(c)' = 0,
         Apart(call'[c]) => ValuesOf(Loaded(c)') = expected',
         ~ Apart(call'[c]) /\ ~ (cache' = Nil /\ file' = torn) => ValuesOf(Held') = expected',
         lock' # none => ValuesOf(call'[c].data) = expected',
         lock' = none /\ damaged' = "no" =>
           \A s \in Services : \/ call'[c].entry.id = s /\ Unsaved(call'[c])
                               \/ ValuesOf(file')[s] = expected'[s]
  PROVE  Kempt'
<1>1. \A d \in Callers : d # c => /\ ~ Resizing(call'[d]) /\ ~ Apart(call'[d])
                                  /\ ~ Sharing(call'[d]) /\ call'[d].pc # "found"
  BY DEF Resizing, Apart, Sharing, Unsaved
<1>2. Sole'
  BY <1>1 DEF Sole, Alone
<1>3. Shared'
  BY <1>1 DEF Shared
<1>4. Located'
  BY <1>1 DEF Located
<1>5. Right'
  BY <1>1 DEF Right
<1>6. lock' # none => lock' = c
  BY DEF StoreTypes, Locking
<1>7. Writes'
  BY <1>6 DEF Writes
<1>8. Durable'
  BY DEF Durable, PendingFor
<1> QED
  BY <1>2, <1>3, <1>4, <1>5, <1>7, <1>8 DEF Kempt

(* What is read is what was last given to each service. *)
LEMMA KemptRead ==
  ASSUME StoreTypes, Clean, mixed = "no" => Kempt, NEW c \in Callers, NEW op, NEW e,
         Reads(c, op, e), mixed' = "no"
  PROVE  Kempt'
<1>1. /\ StoreTypes' /\ OthersKeep(c)
      /\ call'[c].pc = "loaded" /\ call'[c].op = op
      /\ call'[c].slice = cache' /\ Content(mem', cache') = Held
      /\ (cache # Nil \/ file = <<>> => cache' = cache)
      /\ (cache' = Nil => cache = Nil /\ file = <<>>)
  BY ReadStep DEF Reads
<1>2. /\ CanLoad /\ lock = none /\ file' = file /\ lock' = none /\ damaged' = damaged
      /\ call[c].pc \in {"idle", "loaded"}
  BY DEF Reads, Read, CanLoad
<1>3. /\ ~ Overlaps(c, op)
      /\ \/ Alone(c) /\ expected' = IF mixed = "yes"
                                      THEN ValuesOf(Content(Load.mem, Load.slice)) ELSE expected
         \/ ~ Alone(c) /\ mixed = "no" /\ expected' = expected
  BY DEF Reads, Read, Alone, Busy
<1>4. Held' = Held
  BY <1>1, <1>2 DEF Held
<1>5. ~ Apart(call'[c]) /\ ~ Apart(call[c]) /\ ~ Unsaved(call[c]) /\ ~ Unsaved(call'[c])
  BY <1>1, <1>2 DEF Apart, Unsaved
<1>6. mixed = "yes" \/ mixed = "no"
  BY DEF StoreTypes
<1>7. ~ (cache = Nil /\ file = torn)
  BY <1>2 DEF CanLoad
<1>8. CASE Alone(c)
  <2>1. \A d \in Callers \ {c} : call[d].pc = "idle" /\ call'[d].pc = "idle"
    BY <1>1, <1>8 DEF Alone, OthersKeep
  <2>2. \A d \in Callers : ~ Apart(call[d]) /\ ~ Unsaved(call[d])
    BY <1>5, <2>1 DEF Apart, Unsaved
  <2>3. ValuesOf(Held) = expected'
    <3>1. CASE mixed = "yes"
      BY <1>2, <1>3, <1>8, <3>1, LoadFacts
    <3>2. CASE mixed = "no"
      BY <1>3, <1>7, <1>8, <2>2, <3>2 DEF Kempt, Right
    <3> QED
      BY <1>6, <3>1, <3>2
  <2>4. damaged = "no" => Held = file
    BY <1>2, <2>2 DEF Clean, Pending, Held
  <2>5. damaged' = "no" => ValuesOf(file') = expected'
    BY <1>2, <2>3, <2>4
  <2>6. call'[c].pc # "found" /\ (cache' = Nil => file' = <<>>)
    BY <1>1, <1>2
  <2>7. ValuesOf(Held') = expected'
    BY <1>4, <2>3
  <2> QED
    BY <1>1, <1>2, <1>5, <2>1, <2>5, <2>6, <2>7, KemptAlone
<1>9. CASE ~ Alone(c)
  <2>1. mixed = "no" /\ Kempt /\ expected' = expected
    BY <1>3, <1>9
  <2>2. PICK b \in Callers \ {c} : call[b].pc # "idle"
    BY <1>9 DEF Alone
  <2>3. op = "update" /\ \A d \in Callers \ {c} : call[d].pc # "idle" => call[d].op = "update"
    BY <1>3, <2>2 DEF Overlaps, Busy
  <2>4. \A d \in Callers : ~ Resizing(call'[d]) /\ ~ Apart(call'[d])
    BY <1>1, <1>5, <2>3 DEF Resizing, Apart, Unsaved, OthersKeep
  <2>5. \A d \in Callers : ~ Apart(call[d])
    BY <1>1, <1>5, <2>4 DEF OthersKeep
  <2>6. Sharing(call[b])
    <3>1. none # b
      BY RepoAssumption DEF Callers
    <3>2. call[b] \in CallRecord /\ StepOK(call[b]) /\ ~ Locking(call[b])
      BY <1>2, <3>1 DEF StoreTypes
    <3> QED
      BY <2>2, <2>3, <3>2 DEF CallRecord, StepOK, Locking, Sharing
  <2>7. (cache = Nil => file = <<>>) /\ cache' = cache
    BY <1>1, <2>1, <2>6 DEF Kempt, Shared
  <2>8. Sole'
    BY <2>4 DEF Sole
  <2>9. Shared'
    BY <1>1, <1>2, <2>1, <2>7 DEF Kempt, Shared, OthersKeep
  <2>10. Located'
    BY <1>1, <2>1 DEF Kempt, Located, Position, Loaded, OthersKeep
  <2>11. Right'
    BY <1>4, <1>7, <2>1, <2>4, <2>5 DEF Kempt, Right
  <2>12. \A s : PendingFor(s)' <=> PendingFor(s)
    BY <1>1, <1>5 DEF PendingFor, OthersKeep
  <2>13. Writes' /\ Durable'
    BY <1>2, <2>1, <2>12 DEF Kempt, Writes, Durable
  <2> QED
    BY <2>8, <2>9, <2>10, <2>11, <2>13 DEF Kempt
<1> QED
  BY <1>8, <1>9

(* To look for the entry changes nothing. *)
LEMMA KemptFind ==
  ASSUME StoreTypes, Kempt, NEW c \in Callers, Find(c)
  PROVE  Kempt'
<1>1. /\ StoreTypes' /\ OthersKeep(c)
      /\ Content(mem', cache) = Content(mem, cache)
      /\ \/ call'[c] = Idle
         \/ /\ call'[c].pc = "found" /\ call'[c].op = call[c].op
            /\ call'[c].slice = call[c].slice /\ call'[c].entry = call[c].entry
            /\ Content(mem', call[c].slice) = Content(mem, call[c].slice)
            /\ call[c].op = "update" => call'[c].idx = Position(c)
            /\ call[c].op = "create" => Position(c) = 0
  BY FindStep
<1>2. call[c].pc = "loaded" /\ UNCHANGED <<cache, file, lock, damaged, expected, mixed>>
  BY DEF Find
<1>3. Idle.pc = "idle"
  BY DEF Idle
<1>4. \A d \in Callers : /\ call'[d].pc # "idle" => call[d].pc # "idle" /\ call'[d].op = call[d].op
                         /\ Resizing(call'[d]) => Resizing(call[d])
  BY <1>1, <1>2, <1>3 DEF Resizing, OthersKeep
<1>5. Sole'
  BY <1>4 DEF Kempt, Sole, Alone
<1>6. Sharing(call[c])
  BY <1>2 DEF Sharing
<1>7. Sharing(call'[c]) => call'[c].slice = call[c].slice
  BY <1>1, <1>3 DEF Sharing
<1>8. Shared'
  BY <1>1, <1>2, <1>6, <1>7 DEF Kempt, Shared, OthersKeep
<1>9. call'[c].pc = "found" => Position(c)' = Position(c)
  BY <1>1, <1>3 DEF Position, Loaded
<1>10. \A d \in Callers \ {c} : Position(d)' = Position(d)
  BY <1>1 DEF Position, Loaded, OthersKeep
<1>11. Located'
  BY <1>1, <1>3, <1>9, <1>10 DEF Kempt, Located, OthersKeep
<1>12. ~ Unsaved(call[c]) /\ ~ Unsaved(call'[c])
  BY <1>1, <1>2, <1>3 DEF Unsaved
<1>13. \A d \in Callers : /\ Apart(call'[d]) <=> Apart(call[d])
                          /\ Apart(call[d]) => Loaded(d)' = Loaded(d)
  BY <1>1, <1>12 DEF Apart, OthersKeep, Loaded
<1>14. Held' = Held
  BY <1>1, <1>2 DEF Held
<1>15. Right'
  BY <1>2, <1>13, <1>14 DEF Kempt, Right
<1>16. \A s : PendingFor(s)' <=> PendingFor(s)
  BY <1>1, <1>12 DEF PendingFor, OthersKeep
<1>17. lock # c /\ (lock # none => lock \in Callers)
  BY <1>2 DEF StoreTypes, Locking
<1>18. Writes' /\ Durable'
  BY <1>1, <1>2, <1>16, <1>17 DEF Kempt, Writes, Durable, OthersKeep
<1> QED
  BY <1>5, <1>8, <1>11, <1>15, <1>18 DEF Kempt

(* The values that are expected after a change. *)
LEMMA ExpectedIs ==
  ASSUME NEW f, NEW g, NEW id, NEW v, NEW es, NEW fs,
         g \in [Services -> Values \cup {none}],
         \A s \in Services : g[s] = IF s = id THEN v ELSE f[s],
         ValuesOf(es) = f,
         \A s \in Services : ValuesOf(fs)[s] = IF s = id THEN v ELSE ValuesOf(es)[s]
  PROVE  ValuesOf(fs) = g
<1>1. \A s \in Services : ValuesOf(fs)[s] = g[s]
  OBVIOUS
<1>2. g = [s \in Services |-> g[s]]
  OBVIOUS
<1> QED
  BY <1>1, <1>2, SameValues

(* A change in place is seen by everybody. *)
LEMMA KemptUpdate ==
  ASSUME StoreTypes, Kempt, mixed = "no", NEW c \in Callers, Update(c)
  PROVE  Kempt'
<1>1. /\ StoreTypes' /\ \A d \in Callers \ {c} : call'[d] = call[d]
      /\ call'[c].pc = "changed" /\ call'[c].op = "update"
      /\ call'[c].entry = call[c].entry /\ call'[c].slice = call[c].slice
      /\ call[c].slice # Nil
      /\ Content(mem', call[c].slice) = [Loaded(c) EXCEPT ![call[c].idx] = call[c].entry]
      /\ UNCHANGED <<cache, file, lock, damaged, mixed>>
  BY UpdateStep
<1>2. call[c].pc = "found" /\ call[c].op = "update"
  BY DEF Update
<1>3. PICK e : e = call[c].entry
  OBVIOUS
<1>4. PICK i : i = call[c].idx
  OBVIOUS
<1>5. PICK es : es = Content(mem, cache)
  OBVIOUS
<1>6. PICK fs : fs = Content(mem', cache)
  OBVIOUS
<1>7. call[c].slice = cache /\ cache # Nil /\ es = Loaded(c)
  BY <1>1, <1>2, <1>5 DEF Kempt, Shared, Sharing, Loaded
<1>8. fs = [es EXCEPT ![i] = e]
  BY <1>1, <1>3, <1>4, <1>6, <1>7
<1>9. /\ es \in Seq(Entry) /\ fs \in Seq(Entry) /\ e \in Entry /\ i # 0
      /\ expected \in [Services -> Values \cup {none}]
  <2>1. mem \in Memory /\ Fits(mem, cache) /\ mem' \in Memory /\ Fits(mem', cache)
    BY <1>1 DEF StoreTypes
  <2>2. es \in Seq(Entry) /\ fs \in Seq(Entry)
    BY <1>5, <1>6, <2>1, ContentOf
  <2>3. e \in Entry /\ i # 0 /\ expected \in [Services -> Values \cup {none}]
    BY <1>2, <1>3, <1>4 DEF StoreTypes, CallRecord, StepOK
  <2> QED
    BY <2>2, <2>3
<1>10. i = Index(es, e.id)
  BY <1>2, <1>3, <1>4, <1>7 DEF Kempt, Located, Position
<1>11. /\ \A s : Index(fs, s) = Index(es, s)
       /\ \A s \in Services : ValuesOf(fs)[s] = IF s = e.id THEN e.val ELSE ValuesOf(es)[s]
  <2>1. i \in 1 .. Len(es)
    BY <1>9, <1>10, IndexIsFirst
  <2>2. Len(fs) = Len(es) /\ \A j \in 1 .. Len(es) : fs[j] = IF j = i THEN e ELSE es[j]
    BY <1>8, <1>9, <2>1, ReplaceEntry
  <2> QED
    BY <1>9, <1>10, <2>2, ValuesOfUpdate
<1>12. /\ expected' \in [Services -> Values \cup {none}]
       /\ \A s \in Services : expected'[s] = IF s = e.id THEN e.val ELSE expected[s]
  BY <1>1, <1>3, <1>9 DEF Update, Expect, StoreTypes
<1>13. \A d \in Callers : ~ Resizing(call[d]) /\ ~ Resizing(call'[d])
  BY <1>1, <1>2 DEF Kempt, Sole, Alone, Resizing
<1>14. \A d \in Callers : ~ Apart(call[d]) /\ ~ Apart(call'[d])
  BY <1>13 DEF Resizing, Apart, Unsaved
<1>15. Sole'
  BY <1>13 DEF Sole
<1>16. Shared'
  BY <1>1, <1>7 DEF Kempt, Shared
<1>17. ASSUME NEW d \in Callers, call'[d].pc = "found"
       PROVE  Position(d)' = Position(d) /\ call'[d] = call[d]
  <2>1. d # c
    BY <1>1, <1>17
  <2>2. call'[d] = call[d] /\ call[d].slice = cache
    BY <1>1, <1>17, <2>1 DEF Kempt, Shared, Sharing
  <2> QED
    BY <1>5, <1>6, <1>11, <2>2 DEF Position, Loaded
<1>18. Located'
  BY <1>17 DEF Kempt, Located
<1>19. Right'
  <2>1. ValuesOf(es) = expected
    BY <1>5, <1>7, <1>14 DEF Kempt, Right, Held
  <2>2. ValuesOf(fs) = expected'
    BY <1>11, <1>12, <2>1, ExpectedIs
  <2>3. Held' = fs
    BY <1>1, <1>6, <1>7 DEF Held
  <2> QED
    BY <1>14, <2>2, <2>3 DEF Right
<1>20. ASSUME NEW s \in Services, ~ PendingFor(s)'
       PROVE  ~ PendingFor(s) /\ expected'[s] = expected[s]
  <2>1. s # e.id
    BY <1>1, <1>3, <1>20 DEF PendingFor, Unsaved
  <2>2. ~ Unsaved(call[c])
    BY <1>2 DEF Unsaved
  <2> QED
    BY <1>1, <1>9, <1>12, <1>20, <2>1, <2>2 DEF PendingFor
<1>21. lock # c /\ lock' = lock /\ (lock # none => lock \in Callers)
  BY <1>1, <1>2 DEF StoreTypes, Locking
<1>22. Writes'
  BY <1>1, <1>20, <1>21 DEF Kempt, Writes
<1>23. Durable'
  BY <1>1, <1>20 DEF Kempt, Durable
<1> QED
  BY <1>15, <1>16, <1>18, <1>19, <1>22, <1>23 DEF Kempt

(* What a call that changes the length starts from. *)
LEMMA BeforeResize ==
  ASSUME StoreTypes, Kempt, NEW c \in Callers, call[c].pc = "found", call[c].op # "update"
  PROVE  /\ Alone(c) /\ lock = none
         /\ ValuesOf(Loaded(c)) = expected
         /\ call[c].op = "create" => Position(c) = 0
         /\ damaged = "no" => \A s \in Services : ValuesOf(file)[s] = expected[s]
<1>1. Alone(c)
  BY DEF Kempt, Sole, Resizing
<1>2. \A d \in Callers : ~ Unsaved(call[d]) /\ ~ Locking(call[d])
  BY <1>1 DEF Alone, Unsaved, Locking
<1>3. lock = none
  BY <1>2 DEF StoreTypes
<1>4. call[c].slice = cache /\ (cache = Nil => file = <<>>)
  BY DEF Kempt, Shared, Sharing
<1>5. <<>> # torn
  <2>1. <<>> \in Seq(Entry) /\ torn \notin Seq(Entry)
    BY RepoAssumption DEF Entry
  <2> QED
    BY <2>1
<1>6. Held = Loaded(c)
  BY <1>4, NilFits DEF Held, Loaded
<1>7. ValuesOf(Held) = expected
  BY <1>2, <1>4, <1>5 DEF Kempt, Right, Apart
<1>8. \A s : ~ PendingFor(s)
  BY <1>2 DEF PendingFor
<1> QED
  BY <1>1, <1>3, <1>6, <1>7, <1>8 DEF Kempt, Located, Durable

(* A change of the length is seen by the call alone. *)
LEMMA KemptResize ==
  ASSUME StoreTypes, Kempt, mixed = "no", NEW c \in Callers, Create(c) \/ Delete(c)
  PROVE  Kempt'
<1>1. PICK q : q = call[c]
  OBVIOUS
<1>2. PICK es : es = Loaded(c)
  OBVIOUS
<1>3. es \in Seq(Entry) /\ q.entry \in Entry /\ expected \in [Services -> Values \cup {none}]
  BY <1>1, <1>2, ContentOf DEF StoreTypes, CallRecord, Loaded
<1>4. PICK v : v = IF Create(c) THEN q.entry.val ELSE none
  OBVIOUS
<1>5. PICK fs : fs = IF Create(c) THEN Append(es, q.entry) ELSE Kept(es, q.entry.id)
  OBVIOUS
<1>6. StoreTypes' /\ Resized(c, fs, v)
  BY <1>1, <1>2, <1>4, <1>5, CreateStep, DeleteStep
<1>7. /\ call[c].pc = "found" /\ call[c].op # "update"
      /\ \A d \in Callers \ {c} : call'[d] = call[d]
      /\ Unsaved(call'[c]) /\ call'[c].op = call[c].op /\ call'[c].entry = call[c].entry
      /\ Content(mem', call'[c].slice) = fs
      /\ expected' = Expect(call[c].entry.id, v)
      /\ UNCHANGED <<cache, file, lock, damaged, mixed>>
  BY <1>6 DEF Resized, Unsaved
<1>8. /\ Alone(c) /\ lock = none
      /\ ValuesOf(es) = expected
      /\ call[c].op = "create" => Index(es, q.entry.id) = 0
      /\ damaged = "no" => \A s \in Services : ValuesOf(file)[s] = expected[s]
  BY <1>1, <1>2, <1>7, BeforeResize DEF Position
<1>9. \A s \in Services : ValuesOf(fs)[s] = IF s = q.entry.id THEN v ELSE ValuesOf(es)[s]
  <2>1. CASE Create(c)
    <3>1. Index(es, q.entry.id) = 0 /\ fs = Append(es, q.entry) /\ v = q.entry.val
      BY <1>4, <1>5, <1>8, <2>1 DEF Create
    <3> QED
      BY <1>3, <3>1, ValuesOfAppend
  <2>2. CASE ~ Create(c)
    <3>1. fs = Kept(es, q.entry.id) /\ v = none
      BY <1>4, <1>5, <2>2
    <3> QED
      BY <1>3, <3>1, ValuesOfKept
  <2> QED
    BY <2>1, <2>2
<1>10. /\ expected' \in [Services -> Values \cup {none}]
       /\ \A s \in Services : expected'[s] = IF s = q.entry.id THEN v ELSE expected[s]
  BY <1>1, <1>3, <1>6, <1>7 DEF Expect, StoreTypes
<1>11. ValuesOf(fs) = expected'
  <2>1. ValuesOf(es) = expected
    BY <1>8
  <2>2. PICK id : id = q.entry.id
    OBVIOUS
  <2>3. \A s \in Services : expected'[s] = IF s = id THEN v ELSE expected[s]
    BY <1>10, <2>2
  <2>4. \A s \in Services : ValuesOf(fs)[s] = IF s = id THEN v ELSE ValuesOf(es)[s]
    BY <1>9, <2>2
  <2>5. expected' \in [Services -> Values \cup {none}]
    BY <1>10
  <2>6. \A s \in Services : ValuesOf(fs)[s] = expected'[s]
    BY <2>1, <2>3, <2>4
  <2>7. expected' = [s \in Services |-> expected'[s]]
    BY <2>5
  <2> QED
    BY <2>6, <2>7, SameValues
<1>12. Apart(call'[c]) /\ ~ Sharing(call'[c]) /\ call'[c].pc # "found"
  BY <1>7 DEF Apart, Sharing, Unsaved
<1>13. Loaded(c)' = fs
  BY <1>7 DEF Loaded
<1>14. \A d \in Callers \ {c} : call'[d].pc = "idle"
  BY <1>7, <1>8 DEF Alone
<1>15. \A s \in Services : s # q.entry.id => expected'[s] = expected[s]
  BY <1>3, <1>10
<1>16. damaged' = "no" => \A s \in Services : \/ call'[c].entry.id = s /\ Unsaved(call'[c])
                                              \/ ValuesOf(file')[s] = expected'[s]
  BY <1>1, <1>7, <1>8, <1>15
<1>17. lock' = none
  BY <1>7, <1>8
<1> QED
  BY <1>6, <1>11, <1>12, <1>13, <1>14, <1>16, <1>17, KemptAlone

(* Save puts the slice of a call that changed the length in the cache, and  *)
(* finds the slice of an update there.                                      *)
LEMMA KemptSave ==
  ASSUME StoreTypes, Kempt, NEW c \in Callers, Save(c)
  PROVE  Kempt'
<1>1. /\ StoreTypes' /\ OthersKeep(c)
      /\ lock = none /\ call[c].pc \in {"changed", "emptied"}
      /\ cache' = IF call[c].pc = "emptied" THEN Nil ELSE call[c].slice
      /\ Content(mem', cache') = Loaded(c)
      /\ UNCHANGED <<expected, mixed>>
  BY SaveStep
<1>2. \/ /\ file = torn /\ file' = torn /\ lock' = none /\ damaged' = "yes"
         /\ call'[c] = Idle
      \/ /\ file # torn /\ file' = <<>> /\ lock' = c /\ damaged' = damaged
         /\ call'[c].pc \in {"dropping", "writing"}
         /\ call'[c].op = call[c].op
         /\ call'[c].data = Loaded(c)
  BY SaveStep
<1>3. Idle.pc = "idle" /\ c # none
  BY RepoAssumption DEF Idle, Callers
<1>4. ~ Apart(call'[c]) /\ ~ Sharing(call'[c]) /\ call'[c].pc # "found" /\ ~ Unsaved(call'[c])
  BY <1>2, <1>3 DEF Apart, Sharing, Unsaved
<1>5. cache' = Nil => Loaded(c) = <<>>
  BY <1>1, NilFits
<1>6. CASE call[c].op # "update"
  <2>1. Apart(call[c]) /\ Resizing(call[c])
    BY <1>1, <1>6 DEF Apart, Resizing, Unsaved
  <2>2. Alone(c) /\ ValuesOf(Loaded(c)) = expected
    BY <2>1 DEF Kempt, Sole, Right
  <2>3. \A d \in Callers \ {c} : call'[d].pc = "idle"
    BY <1>1, <2>2 DEF Alone, OthersKeep
  <2>4. ~ (cache' = Nil /\ file' = torn) => Held' = Loaded(c)
    BY <1>1, <1>2, <1>5 DEF Held
  <2>5. ~ (cache' = Nil /\ file' = torn) => ValuesOf(Held') = expected'
    BY <1>1, <2>2, <2>4
  <2>6. lock' # none => ValuesOf(call'[c].data) = expected'
    BY <1>1, <1>2, <2>2
  <2>7. ~ (lock' = none /\ damaged' = "no")
    BY <1>2, <1>3
  <2> QED
    BY <1>1, <1>4, <2>3, <2>5, <2>6, <2>7, KemptAlone
<1>7. CASE call[c].op = "update"
  <2>1. call[c].pc = "changed" /\ call[c].slice # Nil
    BY <1>1, <1>7 DEF StoreTypes, StepOK
  <2>2. cache = call[c].slice /\ cache' = cache /\ cache # Nil
    BY <1>1, <1>7, <2>1 DEF Kempt, Shared, Sharing
  <2>3. \A d \in Callers : ~ Resizing(call[d])
    BY <1>7, <2>1 DEF Kempt, Sole, Alone, Resizing
  <2>4. \A d \in Callers : ~ Resizing(call'[d])
    BY <1>1, <1>2, <1>3, <1>7, <2>3 DEF Resizing, OthersKeep
  <2>5. \A d \in Callers : ~ Apart(call[d]) /\ ~ Apart(call'[d])
    BY <2>3, <2>4 DEF Resizing, Apart, Unsaved
  <2>6. Sole'
    BY <2>4 DEF Sole
  <2>7. Shared'
    BY <1>1, <1>4, <2>2 DEF Kempt, Shared, OthersKeep
  <2>8. Located'
    BY <1>1, <1>4 DEF Kempt, Located, Position, Loaded, OthersKeep
  <2>9. Held' = Held /\ Held = Loaded(c) /\ ValuesOf(Held) = expected
    BY <1>1, <2>2, <2>5 DEF Held, Loaded, Kempt, Right
  <2>10. Right'
    BY <1>1, <2>5, <2>9 DEF Right
  <2>11. Writes'
    BY <1>1, <1>2, <2>9 DEF Writes
  <2>12. Durable'
    BY <1>2, <1>3 DEF Durable
  <2> QED
    BY <2>6, <2>7, <2>8, <2>10, <2>11, <2>12 DEF Kempt
<1> QED
  BY <1>6, <1>7

(* What was written is in the file, or the file is known to be damaged. *)
LEMMA KemptWriteEnds ==
  ASSUME StoreTypes, Clean, Kempt, NEW c \in Callers, Written(c) \/ WriteFails(c)
  PROVE  Kempt'
<1>1. /\ StoreTypes' /\ OthersKeep(c)
      /\ lock = c /\ lock' = none /\ file = <<>>
      /\ call[c].pc \in {"writing", "dropping"}
      /\ Content(mem', cache) = Content(mem, cache)
      /\ UNCHANGED <<cache, expected, mixed>>
      /\ call[c].pc = "dropping" => call[c].data = <<>>
  BY WriteEnds
<1>2. \/ Written(c) /\ file' = call[c].data /\ damaged' = "no"
      \/ WriteFails(c) /\ file' \in {<<>>, torn} /\ damaged' = "yes"
  BY DEF Written, WriteFails
<1>3. Idle.pc = "idle" /\ c # none
  BY RepoAssumption DEF Idle, Callers
<1>4. <<>> # torn
  <2>1. <<>> \in Seq(Entry) /\ torn \notin Seq(Entry)
    BY RepoAssumption DEF Entry
  <2> QED
    BY <2>1
<1>5. \A d \in Callers : Resizing(call[d]) => d = c
  BY <1>1 DEF Kempt, Sole, Alone
<1>6. ~ Unsaved(call[c])
  BY <1>1 DEF Unsaved
<1>7. \A d \in Callers : ~ Apart(call[d])
  BY <1>5, <1>6 DEF Apart, Resizing, Unsaved
<1>8. ValuesOf(Held) = expected
  BY <1>1, <1>4, <1>7 DEF Kempt, Right
<1>9. CASE call'[c] = Idle
  <2>1. \A d \in Callers : ~ Resizing(call'[d]) /\ ~ Apart(call'[d])
    BY <1>1, <1>3, <1>5, <1>9 DEF OthersKeep, Resizing, Apart, Unsaved
  <2>2. Sole'
    BY <2>1 DEF Sole
  <2>3. ASSUME NEW d \in Callers, Sharing(call'[d])
        PROVE  call'[d].slice = cache' /\ (cache' = Nil => file' = <<>>)
    <3>1. d # c
      BY <1>3, <1>9, <2>3 DEF Sharing
    <3>2. call'[d] = call[d] /\ call[d].slice = cache
      BY <1>1, <2>3, <3>1 DEF OthersKeep, Kempt, Shared
    <3>3. ~ Resizing(call[c])
      BY <2>3, <3>1, <3>2 DEF Kempt, Sole, Alone, Sharing
    <3>4. call[c].op = "update" /\ call[c].pc = "writing"
      BY <1>1, <3>3 DEF Resizing, StoreTypes, StepOK
    <3> QED
      BY <1>1, <1>2, <3>2, <3>4 DEF Clean
  <2>4. Shared'
    BY <2>3 DEF Shared
  <2>5. Located'
    BY <1>1, <1>3, <1>9 DEF Kempt, Located, Position, Loaded, OthersKeep
  <2>6. ~ (cache' = Nil /\ file' = torn) => Held' = Held
    BY <1>1, <1>2 DEF Held, Clean
  <2>7. Right'
    BY <1>1, <1>8, <2>1, <2>6 DEF Right
  <2>8. \A s : PendingFor(s) <=> PendingFor(s)'
    BY <1>1, <1>3, <1>6, <1>9 DEF PendingFor, OthersKeep, Unsaved
  <2>9. Writes'
    BY <1>1 DEF Writes
  <2>10. Durable'
    BY <1>1, <1>2, <1>3, <2>8 DEF Kempt, Writes, Durable
  <2> QED
    BY <2>2, <2>4, <2>5, <2>7, <2>9, <2>10 DEF Kempt
<1>10. CASE call'[c] # Idle
  <2>1. /\ Written(c) /\ call[c].pc = "dropping"
        /\ call'[c].pc = "changed" /\ call'[c].op # "update"
        /\ call'[c].op = call[c].op /\ Content(mem', call'[c].slice) = <<>>
    BY <1>10, WriteEnds
  <2>2. Alone(c)
    BY <2>1 DEF Kempt, Sole, Resizing
  <2>3. \A d \in Callers \ {c} : call'[d].pc = "idle"
    BY <1>1, <2>2 DEF Alone, OthersKeep
  <2>4. cache = Nil /\ Held = <<>>
    BY <1>1, <2>1 DEF Clean, Held
  <2>5. ValuesOf(<<>>) = expected'
    BY <1>1, <1>8, <2>4
  <2>6. Loaded(c)' = <<>> /\ file' = <<>>
    BY <1>1, <2>1 DEF Loaded, Written
  <2>7. Apart(call'[c]) /\ ~ Sharing(call'[c]) /\ call'[c].pc # "found"
    BY <2>1 DEF Apart, Sharing, Unsaved
  <2>8. lock' = none
    BY <1>1
  <2> QED
    BY <1>1, <2>3, <2>5, <2>6, <2>7, <2>8, KemptAlone
<1> QED
  BY <1>9, <1>10

(* A read of the whole file, with nobody about, finds the same. *)
LEMMA KemptLoadAll ==
  ASSUME StoreTypes, Clean, mixed = "no" => Kempt, LoadAll, mixed' = "no"
  PROVE  Kempt'
<1>1. StoreTypes' /\ cache' # Nil /\ Content(mem', cache') = file
  BY LoadAllStep
<1>2. /\ \A c \in Callers : call[c].pc = "idle"
      /\ lock = none /\ file \notin {<<>>, torn}
      /\ UNCHANGED <<file, lock, call, damaged, expected, mixed>>
  BY DEF LoadAll, Busy
<1>3. Kempt
  BY <1>2
<1>4. \A c \in Callers : /\ ~ Apart(call[c]) /\ ~ Unsaved(call[c])
                         /\ ~ Sharing(call'[c]) /\ call'[c].pc = "idle" /\ ~ Apart(call'[c])
  BY <1>2 DEF Apart, Unsaved, Sharing
<1>5. Held = file
  <2>1. damaged = "no"
    BY <1>2 DEF StoreTypes, FileOK
  <2> QED
    BY <1>2, <1>4, <2>1 DEF Held, Clean, Pending
<1>6. ValuesOf(file) = expected
  BY <1>2, <1>3, <1>4, <1>5 DEF Kempt, Right
<1>7. Held' = file
  BY <1>1 DEF Held
<1>8. manager \in Callers
  BY DEF Callers
<1>9. lock' = none /\ ValuesOf(Held') = expected' /\ ValuesOf(file') = expected'
  BY <1>2, <1>6, <1>7
<1> QED
  BY <1>1, <1>4, <1>8, <1>9, KemptAlone

(* What a restart finds in the file is expected. *)
LEMMA KemptCrash ==
  ASSUME StoreTypes, Crash
  PROVE  Kempt'
<1>1. /\ StoreTypes'
      /\ cache' = Nil /\ lock' = none /\ \A c \in Callers : call'[c] = Idle
      /\ damaged' = "no" <=> file' # torn
      /\ file' # torn => expected' = ValuesOf(file')
  BY CrashStep
<1>2. \A c \in Callers : ~ Sharing(call'[c]) /\ call'[c].pc = "idle" /\ ~ Apart(call'[c])
  BY <1>1 DEF Idle, Apart, Unsaved, Sharing
<1>3. Held' = file'
  BY <1>1 DEF Held
<1>4. manager \in Callers
  BY DEF Callers
<1>5. ~ (cache' = Nil /\ file' = torn) => ValuesOf(Held') = expected'
  BY <1>1, <1>3
<1>6. damaged' = "no" => \A s \in Services : ValuesOf(file')[s] = expected'[s]
  BY <1>1
<1> QED
  BY <1>1, <1>2, <1>4, <1>5, <1>6, KemptAlone

(* It is so initially. *)
LEMMA KemptInit == Init => Kempt
<1> SUFFICES ASSUME Init PROVE Kempt
  OBVIOUS
<1>1. /\ \A c \in Callers : call[c] = Idle
      /\ cache = Nil /\ file = <<>> /\ lock = none /\ expected = Unknown
  BY DEF Init
<1>2. \A c \in Callers : /\ ~ Resizing(call[c]) /\ ~ Apart(call[c])
                         /\ ~ Sharing(call[c]) /\ call[c].pc # "found"
  BY <1>1 DEF Idle, Resizing, Apart, Sharing, Unsaved
<1>3. ValuesOf(file) = expected /\ Held = file
  BY <1>1, ValuesOfEmpty DEF Held
<1>4. Sole /\ Shared /\ Located
  BY <1>2 DEF Sole, Shared, Located
<1>5. Right /\ Writes /\ Durable
  BY <1>1, <1>2, <1>3 DEF Right, Writes, Durable
<1> QED
  BY <1>4, <1>5 DEF Kempt

(* It stays so. *)
LEMMA KemptNext ==
  ASSUME StoreTypes, Clean, mixed = "no" => Kempt, Next, mixed' = "no"
  PROVE  Kempt'
<1>1. ASSUME NEW c \in Callers, NEW op, NEW e, Reads(c, op, e) PROVE Kempt'
  BY <1>1, KemptRead
<1>2. ASSUME NEW c \in Callers, Find(c) PROVE Kempt'
  <2>1. mixed = "no"
    BY <1>2 DEF Find
  <2> QED
    BY <1>2, <2>1, KemptFind
<1>3. ASSUME NEW c \in Callers, Update(c) PROVE Kempt'
  <2>1. mixed = "no"
    BY <1>3 DEF Update
  <2> QED
    BY <1>3, <2>1, KemptUpdate
<1>4. ASSUME NEW c \in Callers, Create(c) \/ Delete(c) PROVE Kempt'
  <2>1. mixed = "no"
    BY <1>4 DEF Create, Delete
  <2> QED
    BY <1>4, <2>1, KemptResize
<1>5. ASSUME NEW c \in Callers, Save(c) PROVE Kempt'
  <2>1. mixed = "no"
    BY <1>5 DEF Save
  <2> QED
    BY <1>5, <2>1, KemptSave
<1>6. ASSUME NEW c \in Callers, Written(c) \/ WriteFails(c) PROVE Kempt'
  <2>1. mixed = "no"
    BY <1>6 DEF Written, WriteFails
  <2> QED
    BY <1>6, <2>1, KemptWriteEnds
<1>7. ASSUME LoadAll PROVE Kempt'
  BY <1>7, KemptLoadAll
<1>8. ASSUME Crash PROVE Kempt'
  BY <1>8, KemptCrash
<1> QED
  BY <1>1, <1>2, <1>3, <1>4, <1>5, <1>6, <1>7, <1>8, Steps

(* What a call that has returned wrote of its service is in the file,       *)
(* unless calls overlapped in a way that loses writes.                      *)
THEOREM StoreSavedIsDurable == Spec => []SavedIsDurable
<1> DEFINE Inv == StoreTypes /\ Clean /\ (mixed = "no" => Kempt)
<1>1. Init => Inv
  BY StoreTypesInit, CleanInit, KemptInit
<1>2. ASSUME Inv, [Next]_vars PROVE Inv'
  <2>1. StoreTypes'
    BY <1>2, StoreTypesNext
  <2>2. CASE Next
    BY <1>2, <2>1, <2>2, CleanNext, KemptNext
  <2>3. CASE UNCHANGED vars
    <3>1. Clean'
      BY <1>2, <2>3 DEF vars, Clean, Pending
    <3>2. mixed' = mixed /\ (Kempt => Kempt')
      BY <2>3 DEF vars, Kempt, Sole, Shared, Located, Right, Writes, Durable, Alone, PendingFor,
                  Position, Loaded, Held
    <3> QED
      BY <1>2, <2>1, <3>1, <3>2
  <2> QED
    BY <1>2, <2>2, <2>3
<1>3. Inv => SavedIsDurable
  BY KemptIsDurable
<1>4. Inv /\ [Next]_vars => Inv'
  BY <1>2
<1> QED
  BY <1>1, <1>3, <1>4, PTL DEF Spec

-----------------------------------------------------------------------------
(* Overrides, for any services and addresses.  The properties do not depend *)
(* on which entry a request or a promotion finds: what an operation of the  *)
(* repository leaves is said entry by entry.                                *)

(* No service has two entries. *)
Distinct(st) == \A i, j \in DOMAIN st : st[i].id = st[j].id => i = j

(* An entry that says it is overridden carries an override's address. *)
Foreign(st) == \A i \in DOMAIN st : st[i].over => st[i].ip # "own"

(* No active entry is overridden. *)
Plain(st) == \A i \in DOMAIN st : ~ (st[i].active /\ st[i].over)

(* Of the entries of M only that of h is active; under an override only     *)
(* that of h is active at all.                                              *)
Only(st, M, h) ==
  /\ \A i \in DOMAIN st : st[i].active /\ st[i].id \in M => st[i].id = h
  /\ \A i, j \in DOMAIN st : st[i].active /\ st[i].over /\ st[j].active => st[j].id = h

(* The entries of a calm group of M whose active role is with h. *)
Sound(st, M, h) == Foreign(st) /\ Only(st, M, h)

(* What a POST or a PUT is about to write is an override; unless it was     *)
(* overtaken, the entry it has read is still the one that is found active,  *)
(* and not overridden.                                                      *)
Answerable ==
  req.op \in {"new", "update"} =>
    /\ req.entry.over => req.entry.ip # "own"
    /\ req.entry.active
    /\ calm => /\ O!HasActive(store) /\ ~ O!HasOverride(store)
               /\ O!GetActive(store).id = req.entry.id

(* The inductive invariant: in the calm, an override that an active entry   *)
(* shows is the one that requests see, and while the operator runs the      *)
(* entries are sound.                                                       *)
OverridesInv ==
  /\ O!TypeOK
  /\ IsFiniteSet(members)
  /\ stage = "running" => left = {}
  /\ Answerable
  /\ calm => Foreign(store) /\ (O!HasOverride(store) \/ Plain(store))
  /\ calm /\ stage = "running" => Sound(store, members, holder)

(* GetActive returns the first of the active entries. *)
LEMMA GetActiveIsFirst ==
  ASSUME NEW st \in Seq(O!Entry), O!HasActive(st)
  PROVE  \E i \in O!Actives(st) :
           O!GetActive(st) = st[i] /\ \A j \in O!Actives(st) : i <= j
<1>1. O!Actives(st) \in SUBSET Nat /\ O!Actives(st) # {}
  BY DEF O!Actives, O!HasActive
<1>2. \E i \in O!Actives(st) : \A j \in O!Actives(st) : i <= j
  BY <1>1, LeastNatural
<1> QED
  BY <1>2 DEF O!GetActive

(* An override of the group is that of an active entry, *)
LEMMA OverrideIsSeen ==
  ASSUME NEW st \in Seq(O!Entry), O!HasOverride(st)
  PROVE  \E k \in DOMAIN st : st[k].active /\ st[k].over
<1>1. PICK k \in O!Actives(st) : O!GetActive(st) = st[k]
  BY GetActiveIsFirst DEF O!HasOverride
<1> QED
  BY <1>1 DEF O!Actives, O!HasOverride

(* and in a sound group that of every active entry. *)
LEMMA OverrideIsWhole ==
  ASSUME NEW st \in Seq(O!Entry), NEW M, NEW h, Distinct(st), Only(st, M, h),
         O!HasOverride(st), NEW i \in DOMAIN st, st[i].active
  PROVE  st[i].over
<1>1. PICK k \in DOMAIN st : st[k].active /\ st[k].over
  BY OverrideIsSeen
<1> QED
  BY <1>1 DEF Distinct, Only

(* In a sound group the override of an active entry is the group's. *)
LEMMA SoundIsSeen ==
  ASSUME NEW st \in Seq(O!Entry), NEW M, NEW h, Distinct(st), Only(st, M, h)
  PROVE  O!HasOverride(st) \/ Plain(st)
<1> SUFFICES ASSUME ~ Plain(st) PROVE O!HasOverride(st)
  OBVIOUS
<1>1. PICK i \in DOMAIN st : st[i].active /\ st[i].over
  BY DEF Plain
<1>2. O!HasActive(st)
  BY <1>1 DEF O!HasActive, O!Actives
<1>3. PICK k \in O!Actives(st) : O!GetActive(st) = st[k]
  BY <1>2, GetActiveIsFirst
<1>4. k \in DOMAIN st /\ st[k].active
  BY <1>3 DEF O!Actives
<1>5. k = i
  BY <1>1, <1>4 DEF Only, Distinct
<1> QED
  BY <1>1, <1>2, <1>3, <1>5 DEF O!HasOverride

(* The same services have entries, at the same places. *)
SameIds(st, tt) == DOMAIN tt = DOMAIN st /\ \A i \in DOMAIN st : tt[i].id = st[i].id

(* A sequence of entries that is changed entry by entry. *)
LEMMA Changed ==
  ASSUME NEW st \in Seq(O!Entry), NEW tt, tt = [i \in DOMAIN st |-> tt[i]],
         \A i \in DOMAIN st : tt[i] \in O!Entry /\ tt[i].id = st[i].id
  PROVE  tt \in Seq(O!Entry) /\ SameIds(st, tt)
<1>1. DOMAIN st = 1 .. Len(st) /\ Len(st) \in Nat
  OBVIOUS
<1>2. DOMAIN tt = 1 .. Len(st)
  BY <1>1
<1>3. tt \in [1 .. Len(st) -> O!Entry]
  BY <1>1
<1>4. tt \in Seq(O!Entry)
  BY <1>1, <1>3, IsASeq
<1> QED
  BY <1>1, <1>2, <1>4 DEF SameIds

(* The places of the entries are what tells whether a service has two. *)
LEMMA SameIdsDistinct ==
  ASSUME NEW st, NEW tt, SameIds(st, tt), Distinct(st)
  PROVE  Distinct(tt)
BY DEF SameIds, Distinct

(* What Update stores is an entry of the service. *)
LEMMA KeepFacts ==
  ASSUME NEW st, NEW old \in O!Entry, NEW e \in O!Entry
  PROVE  /\ O!Keep(st, old, e) \in O!Entry
         /\ O!Keep(st, old, e).id = e.id
         /\ O!Keep(st, old, e).active = e.active
         /\ \/ O!Keep(st, old, e) = e
            \/ old.active /\ O!HasOverride(st) /\ O!Keep(st, old, e).ip = old.ip
BY DEF O!Keep, O!Entry

(* Update, entry by entry. *)
LEMMA UpdateFacts ==
  ASSUME NEW st \in Seq(O!Entry), NEW e \in O!Entry
  PROVE  /\ O!Update(st, e) \in Seq(O!Entry)
         /\ SameIds(st, O!Update(st, e))
         /\ \A i \in DOMAIN st :
              O!Update(st, e)[i] = IF st[i].id = e.id THEN O!Keep(st, st[i], e) ELSE st[i]
<1>1. PICK tt : tt = O!Update(st, e)
  OBVIOUS
<1>2. /\ tt = [i \in DOMAIN st |-> tt[i]]
      /\ \A i \in DOMAIN st :
           tt[i] = IF st[i].id = e.id THEN O!Keep(st, st[i], e) ELSE st[i]
  BY <1>1 DEF O!Update
<1>3. \A i \in DOMAIN st : st[i] \in O!Entry
  OBVIOUS
<1>4. \A i \in DOMAIN st : O!Keep(st, st[i], e) \in O!Entry /\ O!Keep(st, st[i], e).id = e.id
  BY <1>3, KeepFacts
<1>5. \A i \in DOMAIN st : tt[i] \in O!Entry /\ tt[i].id = st[i].id
  BY <1>2, <1>3, <1>4
<1>6. tt \in Seq(O!Entry) /\ SameIds(st, tt)
  BY <1>2, <1>5, Changed
<1> QED
  BY <1>1, <1>2, <1>6

(* Without an override Update writes what it is given. *)
LEMMA UpdatePlain ==
  ASSUME NEW st \in Seq(O!Entry), NEW e \in O!Entry, ~ O!HasOverride(st)
  PROVE  \A i \in DOMAIN st : O!Update(st, e)[i] = IF st[i].id = e.id THEN e ELSE st[i]
<1>1. \A old : O!Keep(st, old, e) = e
  BY DEF O!Keep
<1>2. PICK tt : tt = O!Update(st, e)
  OBVIOUS
<1>3. \A i \in DOMAIN st : tt[i] = IF st[i].id = e.id THEN O!Keep(st, st[i], e) ELSE st[i]
  BY <1>2, UpdateFacts
<1> QED
  BY <1>1, <1>2, <1>3

(* Plain entries have no override. *)
LEMMA PlainUnseen ==
  ASSUME NEW st \in Seq(O!Entry), Plain(st)
  PROVE  ~ O!HasOverride(st)
BY OverrideIsSeen DEF Plain

(* GSLBService() makes entries. *)
LEMMA OwnFacts ==
  ASSUME NEW s \in Services, NEW b \in BOOLEAN
  PROVE  /\ O!Own(s, b) \in O!Entry
         /\ O!Own(s, b).id = s /\ O!Own(s, b).active = b /\ O!Own(s, b).over = FALSE
BY DEF O!Own, O!Entry

(* A promotion, as far as types go. *)
LEMMA PromotionTypes ==
  ASSUME NEW st \in Seq(O!Entry), NEW old \in Services \cup {nil}, NEW new \in Services \cup {nil}
  PROVE  O!Promotion(st, old, new) \in Seq(O!Entry) /\ SameIds(st, O!Promotion(st, old, new))
<1>1. PICK tt : tt = IF old = nil THEN st ELSE O!Update(st, O!Own(old, FALSE))
  OBVIOUS
<1>2. SameIds(st, st)
  BY DEF SameIds
<1>3. tt \in Seq(O!Entry) /\ SameIds(st, tt)
  <2>1. CASE old = nil
    BY <1>1, <1>2, <2>1
  <2>2. CASE old # nil
    <3>1. O!Own(old, FALSE) \in O!Entry
      BY <2>2, OwnFacts
    <3> QED
      BY <1>1, <2>2, <3>1, UpdateFacts
  <2> QED
    BY <2>1, <2>2
<1>4. \/ O!Promotion(st, old, new) \in {st, tt}
      \/ new # nil /\ O!Promotion(st, old, new) = O!Update(tt, O!Own(new, TRUE))
  BY <1>1 DEF O!Promotion
<1>5. new # nil => /\ O!Update(tt, O!Own(new, TRUE)) \in Seq(O!Entry)
                   /\ SameIds(tt, O!Update(tt, O!Own(new, TRUE)))
  <2> SUFFICES ASSUME new # nil
               PROVE  /\ O!Update(tt, O!Own(new, TRUE)) \in Seq(O!Entry)
                      /\ SameIds(tt, O!Update(tt, O!Own(new, TRUE)))
    OBVIOUS
  <2>1. O!Own(new, TRUE) \in O!Entry
    BY OwnFacts
  <2> QED
    BY <1>3, <2>1, UpdateFacts
<1> QED
  BY <1>2, <1>3, <1>4, <1>5 DEF SameIds

(* Entries of a group, no service having two. *)
Group(st) == st \in Seq(O!Entry) /\ Distinct(st)

(* Update makes a group of a group. *)
LEMMA UpdateGroup ==
  ASSUME NEW st, Group(st), NEW e \in O!Entry
  PROVE  Group(O!Update(st, e))
BY UpdateFacts, SameIdsDistinct DEF Group

(* UpdateOverride writes what it is given. *)
LEMMA ReplaceGroup ==
  ASSUME NEW st, Group(st), NEW e \in O!Entry
  PROVE  /\ Group(O!Replace(st, e))
         /\ DOMAIN O!Replace(st, e) = DOMAIN st
         /\ \A i \in DOMAIN st : O!Replace(st, e)[i] = IF st[i].id = e.id THEN e ELSE st[i]
<1>1. PICK tt : tt = O!Replace(st, e)
  OBVIOUS
<1>2. /\ tt = [i \in DOMAIN st |-> tt[i]]
      /\ \A i \in DOMAIN st : tt[i] = IF st[i].id = e.id THEN e ELSE st[i]
  BY <1>1 DEF O!Replace
<1>3. st \in Seq(O!Entry) /\ \A i \in DOMAIN st : st[i] \in O!Entry
  BY DEF Group
<1>4. \A i \in DOMAIN st : tt[i] \in O!Entry /\ tt[i].id = st[i].id
  BY <1>2, <1>3
<1>5. tt \in Seq(O!Entry) /\ SameIds(st, tt)
  BY <1>2, <1>3, <1>4, Changed
<1>6. Group(tt) /\ DOMAIN tt = DOMAIN st
  BY <1>5, SameIdsDistinct DEF Group, SameIds
<1> QED
  BY <1>1, <1>2, <1>6

(* RemoveOverrideFlag changes nothing but the flags. *)
LEMMA RemoveOverrideFlagGroup ==
  ASSUME NEW st, Group(st)
  PROVE  /\ Group(O!RemoveOverrideFlag(st))
         /\ DOMAIN O!RemoveOverrideFlag(st) = DOMAIN st
         /\ \A i \in DOMAIN st : /\ O!RemoveOverrideFlag(st)[i].active = st[i].active
                                 /\ O!RemoveOverrideFlag(st)[i].id = st[i].id
                                 /\ O!RemoveOverrideFlag(st)[i].over = FALSE
<1>1. PICK tt : tt = O!RemoveOverrideFlag(st)
  OBVIOUS
<1>2. /\ tt = [i \in DOMAIN st |-> tt[i]]
      /\ \A i \in DOMAIN st : tt[i] = [st[i] EXCEPT !.over = FALSE]
  BY <1>1 DEF O!RemoveOverrideFlag
<1>3. st \in Seq(O!Entry) /\ \A i \in DOMAIN st : st[i] \in O!Entry
  BY DEF Group
<1>4. \A i \in DOMAIN st : /\ tt[i] \in O!Entry /\ tt[i].id = st[i].id
                           /\ tt[i].active = st[i].active /\ tt[i].over = FALSE
  BY <1>2, <1>3 DEF O!Entry
<1>5. tt \in Seq(O!Entry) /\ SameIds(st, tt)
  BY <1>2, <1>3, <1>4, Changed
<1>6. Group(tt) /\ DOMAIN tt = DOMAIN st
  BY <1>5, SameIdsDistinct DEF Group, SameIds
<1> QED
  BY <1>1, <1>4, <1>6

(* A new entry comes after the others. *)
LEMMA AppendGroup ==
  ASSUME NEW st, Group(st), NEW e \in O!Entry, e.id \notin O!Ids(st)
  PROVE  /\ Group(Append(st, e))
         /\ DOMAIN Append(st, e) = 1 .. Len(st) + 1
         /\ \A i \in DOMAIN Append(st, e) :
              Append(st, e)[i] = IF i = Len(st) + 1 THEN e ELSE st[i]
<1>1. st \in Seq(O!Entry) /\ Len(st) \in Nat /\ DOMAIN st = 1 .. Len(st)
  BY DEF Group
<1>2. PICK tt : tt = Append(st, e)
  OBVIOUS
<1>3. /\ tt \in Seq(O!Entry) /\ DOMAIN tt = 1 .. Len(st) + 1
      /\ \A i \in DOMAIN tt : tt[i] = IF i = Len(st) + 1 THEN e ELSE st[i]
  BY <1>1, <1>2
<1>4. \A i \in DOMAIN st : st[i].id # e.id
  BY DEF O!Ids
<1>5. ASSUME NEW i \in DOMAIN tt, NEW j \in DOMAIN tt, tt[i].id = tt[j].id
      PROVE  i = j
  <2>1. i # Len(st) + 1 => i \in DOMAIN st
    BY <1>1, <1>3
  <2>2. j # Len(st) + 1 => j \in DOMAIN st
    BY <1>1, <1>3
  <2> QED
    BY <1>3, <1>4, <1>5, <2>1, <2>2 DEF Group, Distinct
<1> QED
  BY <1>2, <1>3, <1>5 DEF Group, Distinct

(* Create leaves a service with one entry. *)
LEMMA CreateGroup ==
  ASSUME NEW st, Group(st), NEW e \in O!Entry
  PROVE  Group(O!Create(st, e))
BY UpdateGroup, AppendGroup DEF O!Create

(* What slices.DeleteFunc keeps is a group. *)
LEMMA KeptGroup ==
  ASSUME NEW st, Group(st), NEW s
  PROVE  Group(Kept(st, s))
<1>1. st \in Seq(O!Entry) /\ Len(st) \in Nat /\ DOMAIN st = 1 .. Len(st)
  BY DEF Group
<1>2. PICK n \in 0 .. Len(st) :
        \E f \in Others(st, s, n) : Kept(st, s) = [i \in 1 .. n |-> st[f[i]]]
  BY <1>1, KeptInOrder
<1>3. PICK f \in Others(st, s, n) : Kept(st, s) = [i \in 1 .. n |-> st[f[i]]]
  BY <1>2
<1>4. f \in [1 .. n -> 1 .. Len(st)] /\ Increasing(f)
  BY DEF Others
<1>5. n \in Nat
  BY <1>1
<1>6. PICK ks : ks = Kept(st, s)
  OBVIOUS
<1>7. DOMAIN ks = 1 .. n /\ \A i \in 1 .. n : ks[i] = st[f[i]] /\ ks[i] \in O!Entry
  BY <1>1, <1>3, <1>4, <1>6
<1>8. ks \in Seq(O!Entry)
  <2>1. ks = [i \in 1 .. n |-> st[f[i]]]
    BY <1>3, <1>6
  <2>2. ks \in [1 .. n -> O!Entry]
    BY <1>7, <2>1
  <2> QED
    BY <1>5, <2>2, IsASeq
<1>9. ASSUME NEW i \in 1 .. n, NEW j \in 1 .. n, ks[i].id = ks[j].id
      PROVE  i = j
  <2>1. f[i] \in DOMAIN st /\ f[j] \in DOMAIN st /\ f[i] \in Nat /\ f[j] \in Nat
    BY <1>1, <1>4
  <2>2. f[i] = f[j]
    BY <1>7, <1>9, <2>1 DEF Group, Distinct
  <2>3. ~ (i < j) /\ ~ (j < i)
    BY <1>4, <2>1, <2>2 DEF Increasing
  <2> QED
    BY <1>5, <2>3
<1> QED
  BY <1>6, <1>7, <1>8, <1>9 DEF Group, Distinct

(* FiniteSets is the same here and there. *)
LEMMA SameCardinality == \A T : O!Cardinality(T) = Cardinality(T)
BY Zenon DEF O!Cardinality, Cardinality

(* So is what Delete leaves. *)
LEMMA DeleteGroup ==
  ASSUME NEW st, Group(st), NEW s
  PROVE  Group(O!Delete(st, s))
<1>1. O!Kept(st, s) = Kept(st, s)
  BY Zenon DEF O!Kept, Kept, O!Cardinality, Cardinality
<1> QED
  BY <1>1, KeptGroup DEF O!Delete

(* handlePromotion only updates entries. *)
LEMMA PromotionGroup ==
  ASSUME NEW st, Group(st), NEW old \in Services \cup {nil}, NEW new \in Services \cup {nil}
  PROVE  Group(O!Promotion(st, old, new))
BY PromotionTypes, SameIdsDistinct DEF Group

(* No entry that is left is new. *)
LEMMA KeptEntries ==
  ASSUME NEW st, Group(st), NEW s
  PROVE  \A i \in DOMAIN O!Delete(st, s) : \E j \in DOMAIN st : O!Delete(st, s)[i] = st[j]
<1>1. st \in Seq(O!Entry) /\ Len(st) \in Nat /\ DOMAIN st = 1 .. Len(st)
  BY DEF Group
<1>2. PICK n \in 0 .. Len(st) :
        \E f \in Others(st, s, n) : Kept(st, s) = [i \in 1 .. n |-> st[f[i]]]
  BY <1>1, KeptInOrder
<1>3. PICK f \in Others(st, s, n) : Kept(st, s) = [i \in 1 .. n |-> st[f[i]]]
  BY <1>2
<1>4. f \in [1 .. n -> 1 .. Len(st)]
  BY DEF Others
<1>5. \A i \in DOMAIN Kept(st, s) : \E j \in DOMAIN st : Kept(st, s)[i] = st[j]
  BY <1>1, <1>3, <1>4
<1>6. O!Kept(st, s) = Kept(st, s)
  BY Zenon DEF O!Kept, Kept, O!Cardinality, Cardinality
<1> QED
  BY <1>5, <1>6 DEF O!Delete

(* So a deletion leaves a sound group sound. *)
LEMMA DeleteSound ==
  ASSUME NEW st, Group(st), NEW M, NEW h, Sound(st, M, h), NEW s
  PROVE  Sound(O!Delete(st, s), M, h)
<1>1. PICK tt : tt = O!Delete(st, s)
  OBVIOUS
<1>2. \A i \in DOMAIN tt : \E j \in DOMAIN st : tt[i] = st[j]
  BY <1>1, KeptEntries
<1>3. Foreign(tt)
  BY <1>2 DEF Sound, Foreign
<1>4. ASSUME NEW i \in DOMAIN tt, tt[i].active, tt[i].id \in M
      PROVE  tt[i].id = h
  BY <1>2, <1>4 DEF Sound, Only
<1>5. ASSUME NEW i \in DOMAIN tt, NEW j \in DOMAIN tt, tt[i].active, tt[i].over, tt[j].active
      PROVE  tt[j].id = h
  <2>1. PICK k \in DOMAIN st : tt[i] = st[k]
    BY <1>2
  <2>2. PICK l \in DOMAIN st : tt[j] = st[l]
    BY <1>2
  <2> QED
    BY <1>5, <2>1, <2>2 DEF Sound, Only
<1> QED
  BY <1>1, <1>3, <1>4, <1>5 DEF Sound, Only

(* Fewer members. *)
LEMMA FewerSound ==
  ASSUME NEW st, NEW M, NEW h, Sound(st, M, h), NEW N \in SUBSET M
  PROVE  Sound(st, N, h)
BY DEF Sound, Only

(* If the entry of h is not active, anybody may have the role. *)
LEMMA NobodySound ==
  ASSUME NEW st, NEW M, NEW h, Sound(st, M, h), \A i \in DOMAIN st : st[i].active => st[i].id # h,
         NEW g
  PROVE  Sound(st, M, g) /\ Plain(st)
BY DEF Sound, Only, Plain

(* Entries are of services. *)
LEMMA EntryIds ==
  ASSUME NEW st, Group(st)
  PROVE  \A i \in DOMAIN st : st[i].id \in Services /\ st[i].id # nil
<1>1. \A i \in DOMAIN st : st[i] \in O!Entry
  BY DEF Group
<1> QED
  BY <1>1, OverridesAssumption DEF O!Entry, O!ConstantsOK

(* Rewriting a service's entry as inactive leaves a sound group sound. *)
LEMMA UpdateOwnSound ==
  ASSUME NEW st, Group(st), NEW M, NEW h, Sound(st, M, h), NEW s \in Services
  PROVE  LET tt == O!Update(st, O!Own(s, FALSE))
         IN  /\ Sound(tt, M, h)
             /\ \A i \in DOMAIN tt : tt[i].active => tt[i].id # s
<1>1. PICK e : e = O!Own(s, FALSE)
  OBVIOUS
<1>2. e \in O!Entry /\ e.id = s /\ e.active = FALSE /\ e.over = FALSE
  BY <1>1, OwnFacts
<1>3. PICK tt : tt = O!Update(st, e)
  OBVIOUS
<1>4. st \in Seq(O!Entry) /\ Distinct(st) /\ \A i \in DOMAIN st : st[i] \in O!Entry
  BY DEF Group
<1>5. e \in O!Entry
  BY <1>2
<1>6. /\ DOMAIN tt = DOMAIN st
      /\ \A i \in DOMAIN st : tt[i].id = st[i].id
      /\ \A i \in DOMAIN st :
           tt[i] = IF st[i].id = e.id THEN O!Keep(st, st[i], e) ELSE st[i]
  BY <1>3, <1>4, <1>5, UpdateFacts DEF SameIds
<1>7. \A i \in DOMAIN st : /\ O!Keep(st, st[i], e).active = FALSE
                           /\ \/ O!Keep(st, st[i], e) = e
                              \/ st[i].active /\ O!HasOverride(st) /\ O!Keep(st, st[i], e).ip = st[i].ip
  <2> TAKE i \in DOMAIN st
  <2>1. st[i] \in O!Entry
    BY <1>4
  <2>2. O!Keep(st, st[i], e).active = e.active
    BY <1>5, <2>1, KeepFacts
  <2>3. \/ O!Keep(st, st[i], e) = e
        \/ st[i].active /\ O!HasOverride(st) /\ O!Keep(st, st[i], e).ip = st[i].ip
    <3>1. CASE st[i].active /\ O!HasOverride(st)
      <4>1. O!Keep(st, st[i], e) = [e EXCEPT !.ip = st[i].ip, !.over = TRUE]
        BY <3>1 DEF O!Keep
      <4>2. O!Keep(st, st[i], e).ip = st[i].ip
        BY <1>5, <4>1 DEF O!Entry
      <4> QED
        BY <3>1, <4>2
    <3>2. CASE ~ (st[i].active /\ O!HasOverride(st))
      BY <3>2 DEF O!Keep
    <3> QED
      BY <3>1, <3>2
  <2> QED
    BY <1>2, <2>2, <2>3, Zenon
<1>8. \A i \in DOMAIN tt : tt[i].active => tt[i].id # s /\ tt[i] = st[i]
  BY <1>2, <1>6, <1>7
<1>9. Only(tt, M, h)
  BY <1>6, <1>8 DEF Sound, Only
<1>10. ASSUME NEW i \in DOMAIN st, tt[i].over PROVE tt[i].ip # "own"
  <2>1. CASE st[i].id # e.id
    BY <1>6, <1>10, <2>1 DEF Sound, Foreign
  <2>2. CASE st[i].id = e.id /\ O!Keep(st, st[i], e) = e
    BY <1>2, <1>6, <1>10, <2>2
  <2>3. CASE /\ st[i].id = e.id /\ st[i].active /\ O!HasOverride(st)
             /\ O!Keep(st, st[i], e).ip = st[i].ip
    <3>1. st[i].over
      BY <1>4, <2>3, OverrideIsWhole DEF Sound
    <3>2. tt[i].ip = st[i].ip
      BY <1>6, <2>3
    <3> QED
      BY <3>1, <3>2 DEF Sound, Foreign
  <2> QED
    BY <1>7, <2>1, <2>2, <2>3
<1> QED
  BY <1>1, <1>3, <1>6, <1>8, <1>9, <1>10 DEF Sound, Foreign

(* Giving the role to a service, when no override is in force and no other  *)
(* member is active.                                                        *)
LEMMA UpdateActiveSound ==
  ASSUME NEW st, Group(st), NEW M, NEW s \in Services, Sound(st, M, s), Plain(st)
  PROVE  Sound(O!Update(st, O!Own(s, TRUE)), M, s)
<1>1. PICK e : e = O!Own(s, TRUE)
  OBVIOUS
<1>2. e \in O!Entry /\ e.id = s /\ e.over = FALSE
  BY <1>1, OwnFacts
<1>3. PICK tt : tt = O!Update(st, e)
  OBVIOUS
<1>4. st \in Seq(O!Entry)
  BY DEF Group
<1>5. DOMAIN tt = DOMAIN st /\ \A i \in DOMAIN st : tt[i].id = st[i].id
  BY <1>2, <1>3, <1>4, UpdateFacts DEF SameIds
<1>6. \A i \in DOMAIN st : tt[i] = IF st[i].id = e.id THEN e ELSE st[i]
  BY <1>2, <1>3, <1>4, PlainUnseen, UpdatePlain
<1>7. Foreign(tt)
  BY <1>2, <1>5, <1>6 DEF Sound, Foreign
<1>8. Only(tt, M, s)
  BY <1>2, <1>5, <1>6 DEF Sound, Only, Plain
<1> QED
  BY <1>1, <1>3, <1>7, <1>8 DEF Sound

(* A promotion of new over the one that is active leaves no other member    *)
(* active; when nobody is, it does not matter whom the event names.         *)
LEMMA PromotionSound ==
  ASSUME NEW st, Group(st), NEW old \in Services \cup {nil}, NEW new \in Services \cup {nil},
         NEW h \in {old, nil}, NEW M, Sound(st, M, h)
  PROVE  Sound(O!Promotion(st, old, new), M, new)
<1>1. \A i \in DOMAIN st : st[i].id \in Services /\ st[i].id # nil
  BY EntryIds
<1>2. Sound(st, M, old)
  BY <1>1, NobodySound
<1>3. CASE old = new
  BY <1>2, <1>3 DEF O!Promotion
<1>4. CASE old # new /\ old # nil /\ old \notin O!Ids(st)
  <2>1. \A i \in DOMAIN st : st[i].id # old
    BY <1>4 DEF O!Ids
  <2> QED
    BY <1>2, <1>4, <2>1, NobodySound DEF O!Promotion
<1>5. CASE old # new /\ ~ (old # nil /\ old \notin O!Ids(st))
  <2>1. PICK tt : tt = IF old = nil THEN st ELSE O!Update(st, O!Own(old, FALSE))
    OBVIOUS
  <2>2. Group(tt) /\ Sound(tt, M, new) /\ Plain(tt)
    <3>1. CASE old = nil
      BY <1>1, <1>2, <2>1, <3>1, NobodySound
    <3>2. CASE old # nil
      <4>1. old \in Services /\ tt = O!Update(st, O!Own(old, FALSE))
        BY <2>1, <3>2
      <4>2. Group(tt)
        BY <4>1, OwnFacts, UpdateGroup
      <4>3. Sound(tt, M, old) /\ \A i \in DOMAIN tt : tt[i].active => tt[i].id # old
        BY <1>2, <4>1, UpdateOwnSound
      <4> QED
        BY <4>2, <4>3, NobodySound
    <3> QED
      BY <3>1, <3>2
  <2>3. CASE new = nil
    BY <1>5, <2>1, <2>2, <2>3 DEF O!Promotion
  <2>4. CASE new # nil
    <3>1. O!Promotion(st, old, new) = O!Update(tt, O!Own(new, TRUE))
      BY <1>5, <2>1, <2>4 DEF O!Promotion
    <3> QED
      BY <2>2, <2>4, <3>1, UpdateActiveSound
  <2> QED
    BY <2>3, <2>4
<1> QED
  BY <1>3, <1>4, <1>5

(* A registration or an arrival leaves a sound group sound: its entry is    *)
(* not active, whatever flag an earlier process had left it.                *)
LEMMA CreateSound ==
  ASSUME NEW st, Group(st), NEW M, NEW h \in M \cup {nil}, Sound(st, M, h), NEW s \in Services
  PROVE  Sound(O!Create(st, O!Own(s, FALSE)), M \cup {s}, h)
<1>1. PICK e : e = O!Own(s, FALSE)
  OBVIOUS
<1>2. e \in O!Entry /\ e.id = s /\ e.active = FALSE /\ e.over = FALSE
  BY <1>1, OwnFacts
<1>3. st \in Seq(O!Entry) /\ Len(st) \in Nat /\ DOMAIN st = 1 .. Len(st)
  BY DEF Group
<1>4. CASE O!HasOverride(st)
  <2>1. PICK k \in DOMAIN st : st[k].active /\ st[k].over
    BY <1>3, <1>4, OverrideIsSeen
  <2>2. \A i \in DOMAIN st : st[i].active => st[i].id = h
    BY <2>1 DEF Sound, Only
  <2>3. Sound(st, M \cup {s}, h)
    BY <2>2 DEF Sound, Only
  <2> QED
    BY <1>4, <2>3 DEF O!Create
<1>5. CASE ~ O!HasOverride(st) /\ e.id \in O!Ids(st)
  <2>1. PICK tt : tt = O!Update(st, O!Own(s, FALSE))
    OBVIOUS
  <2>2. Sound(tt, M, h) /\ \A i \in DOMAIN tt : tt[i].active => tt[i].id # s
    BY <2>1, UpdateOwnSound
  <2>3. Sound(tt, M \cup {s}, h)
    BY <2>2 DEF Sound, Only
  <2> QED
    BY <1>1, <1>5, <2>1, <2>3 DEF O!Create
<1>6. CASE ~ O!HasOverride(st) /\ e.id \notin O!Ids(st)
  <2>1. PICK tt : tt = Append(st, e)
    OBVIOUS
  <2>2. /\ DOMAIN tt = 1 .. Len(st) + 1
        /\ \A i \in DOMAIN tt : tt[i] = IF i = Len(st) + 1 THEN e ELSE st[i]
    BY <1>2, <1>6, <2>1, AppendGroup
  <2>3. \A i \in DOMAIN tt : i # Len(st) + 1 => i \in DOMAIN st
    BY <1>3, <2>2
  <2>4. \A i \in DOMAIN st : st[i].id # s
    BY <1>2, <1>6 DEF O!Ids
  <2>5. Foreign(tt)
    BY <1>2, <2>2, <2>3 DEF Sound, Foreign
  <2>6. Only(tt, M \cup {s}, h)
    BY <1>2, <2>2, <2>3, <2>4 DEF Sound, Only
  <2> QED
    BY <1>1, <1>6, <2>1, <2>5, <2>6 DEF O!Create, Sound
<1> QED
  BY <1>4, <1>5, <1>6

(* A step of the manager: what it makes of the entries and of the role. *)
Manages ==
  /\ Group(store')
  /\ members' \subseteq Services /\ IsFiniteSet(members') /\ holder' \in members' \cup {nil}
  /\ calm' => Sound(store', members', holder')

(* What the invariant says of the present state. *)
LEMMA OverridesFacts ==
  ASSUME OverridesInv
  PROVE  /\ Group(store) /\ members \subseteq Services /\ IsFiniteSet(members)
         /\ holder \in members \cup {nil} /\ holder \in Services \cup {nil}
         /\ req \in O!Request /\ calm \in BOOLEAN
         /\ stage \in {"running", "stopping"} /\ last \in Services \cup {nil}
         /\ left \subseteq members
         /\ calm /\ stage = "running" => Sound(store, members, holder)
BY DEF OverridesInv, O!TypeOK, Group, Distinct

(* A group that is not larger than one has no two members. *)
LEMMA AtMostOne ==
  ASSUME NEW T, IsFiniteSet(T), ~ (O!Cardinality(T) > 1), NEW a \in T, NEW b \in T
  PROVE  a = b
<1>1. Cardinality(T) \in Nat /\ ~ (Cardinality(T) > 1)
  BY SameCardinality, FS_CardinalityType
<1>2. Cardinality(T) # 0
  BY FS_EmptySet
<1>3. Cardinality(T) = 1
  BY <1>1, <1>2
<1> QED
  BY <1>3, FS_Singleton

(* What Update of a group announces of a change of the role. *)
LEMMA AnnouncedSound ==
  ASSUME NEW st, Group(st), NEW M \in SUBSET Services, IsFiniteSet(M),
         NEW old \in Services \cup {nil}, NEW new \in M \cup {nil},
         Sound(st, M, old), new = nil => old \notin M, Plain(st) \/ old \in M \cup {nil}
  PROVE  Group(O!Announced(st, M, old, new)) /\ Sound(O!Announced(st, M, old, new), M, new)
<1>1. new \in Services \cup {nil}
  OBVIOUS
<1>2. CASE O!Cardinality(M) > 1
  BY <1>1, <1>2, PromotionGroup, PromotionSound DEF O!Announced
<1>3. CASE ~ (O!Cardinality(M) > 1)
  <2>1. O!Announced(st, M, old, new) = st
    BY <1>3 DEF O!Announced
  <2>2. CASE old = new
    BY <2>1, <2>2
  <2>3. CASE old = nil
    <3>1. \A i \in DOMAIN st : st[i].id # nil
      BY EntryIds
    <3> QED
      BY <2>1, <2>3, <3>1, NobodySound
  <2>4. CASE old # new /\ old # nil
    <3>1. old \notin M
      BY <1>3, <2>4, AtMostOne
    <3>2. Plain(st)
      BY <2>4, <3>1
    <3> QED
      BY <2>1, <3>1, <3>2 DEF Sound, Only, Plain
  <2> QED
    BY <2>2, <2>3, <2>4
<1> QED
  BY <1>2, <1>3

(* A registration. *)
LEMMA RegisterServiceManages ==
  ASSUME OverridesInv, NEW s \in Services, O!RegisterService(s), stage = "running", calm' => calm
  PROVE  Manages
<1>1. /\ members' = members \cup {s}
      /\ holder' = holder \/ (holder' \in {nil, s} /\ members = {})
      /\ store' = O!Create(store, O!Own(s, FALSE))
  BY DEF O!RegisterService
<1>2. Group(store')
  BY <1>1, OwnFacts, OverridesFacts, CreateGroup
<1>3. IsFiniteSet(members')
  BY <1>1, OverridesFacts, FS_AddElement
<1>4. ASSUME calm' PROVE Sound(store', members', holder')
  <2>1. Sound(store', members', holder)
    BY <1>1, <1>4, OverridesFacts, CreateSound
  <2>2. CASE holder' = holder
    BY <2>1, <2>2
  <2>3. CASE members = {}
    <3>1. holder = nil
      BY <2>3, OverridesFacts
    <3>2. PICK tt : tt = store'
      OBVIOUS
    <3>3. \A i \in DOMAIN tt : tt[i].id # nil
      BY <1>2, <3>2, EntryIds
    <3>4. Sound(tt, members', nil)
      BY <2>1, <3>1, <3>2
    <3>5. Sound(tt, members', holder')
      BY <3>3, <3>4, NobodySound
    <3> QED
      BY <3>2, <3>5
  <2> QED
    BY <1>1, <2>2, <2>3
<1> QED
  BY <1>1, <1>2, <1>3, <1>4, OverridesFacts DEF Manages

(* An arrival: the promotion comes before the last rewrite of the entry. *)
LEMMA JoinManages ==
  ASSUME OverridesInv, NEW s \in Services, O!Join(s), stage = "running", calm' => calm
  PROVE  Manages
<1>1. PICK M : M = members \cup {s}
  OBVIOUS
<1>2. PICK tt : tt = O!Create(store, O!Own(s, FALSE))
  OBVIOUS
<1>3. PICK uu : uu = O!Announced(tt, M, holder, holder')
  OBVIOUS
<1>4. /\ members' = M /\ store' = O!Update(uu, O!Own(s, FALSE))
      /\ holder' \in M \cup {nil}
      /\ holder' = nil => holder = nil
  BY <1>1, <1>2, <1>3, OverridesFacts, OverridesAssumption
  DEF O!Join, O!NextHolder, O!ConstantsOK
<1>5. M \in SUBSET Services /\ IsFiniteSet(M)
  BY <1>1, OverridesFacts, FS_AddElement
<1>6. Group(tt)
  BY <1>2, OwnFacts, OverridesFacts, CreateGroup
<1>7. Group(uu)
  BY <1>3, <1>4, <1>5, <1>6, OverridesFacts, PromotionGroup DEF O!Announced
<1>8. Group(store')
  BY <1>4, <1>7, OwnFacts, UpdateGroup
<1>9. ASSUME calm' PROVE Sound(store', M, holder')
  <2>1. Sound(tt, M, holder)
    BY <1>1, <1>2, <1>9, OverridesFacts, CreateSound
  <2>2. holder \in M \cup {nil} /\ holder \in Services \cup {nil}
    BY <1>1, OverridesFacts
  <2>3. holder' = nil => holder \notin M
    BY <1>4, <1>5, OverridesAssumption DEF O!ConstantsOK
  <2>4. Sound(uu, M, holder')
    BY <1>3, <1>4, <1>5, <1>6, <2>1, <2>2, <2>3, AnnouncedSound
  <2> QED
    BY <1>4, <1>7, <2>4, UpdateOwnSound
<1> QED
  BY <1>4, <1>5, <1>8, <1>9 DEF Manages

(* An update: the promotion first, and then the entry of the service. *)
LEMMA ReconfigureManages ==
  ASSUME OverridesInv, NEW s \in Services, O!Reconfigure(s), stage = "running", calm' => calm
  PROVE  Manages
<1>1. /\ members' = members /\ holder' \in members \cup {nil}
      /\ store' = O!Update(O!Promotion(store, holder, holder'), O!Own(s, FALSE))
  BY DEF O!Reconfigure, O!NextHolder
<1>2. O!Own(s, FALSE) \in O!Entry
  BY OwnFacts
<1>3. holder' \in Services \cup {nil}
  BY <1>1, OverridesFacts
<1>4. PICK tt : tt = O!Promotion(store, holder, holder')
  OBVIOUS
<1>5. Group(tt)
  BY <1>3, <1>4, OverridesFacts, PromotionGroup
<1>6. Group(store')
  BY <1>1, <1>2, <1>4, <1>5, UpdateGroup
<1>7. ASSUME calm' PROVE Sound(store', members, holder')
  <2>1. Sound(tt, members, holder')
    BY <1>3, <1>4, <1>7, OverridesFacts, PromotionSound
  <2> QED
    BY <1>1, <1>4, <1>5, <2>1, UpdateOwnSound
<1> QED
  BY <1>1, <1>6, <1>7, OverridesFacts DEF Manages

(* A service comes up, over the holder or, without one, over anybody. *)
LEMMA HealthyChangeManages ==
  ASSUME OverridesInv, NEW s \in Services, O!HealthyChange(s), stage = "running", calm' => calm
  PROVE  Manages
<1>1. PICK tt : tt = O!Update(store, O!Own(s, FALSE))
  OBVIOUS
<1>2. O!Own(s, FALSE) \in O!Entry
  BY OwnFacts
<1>3. Group(tt) /\ (calm' => Sound(tt, members, holder))
  BY <1>1, <1>2, OverridesFacts, UpdateGroup, UpdateOwnSound
<1>4. s \in members /\ members' = members
  BY DEF O!HealthyChange
<1>5. CASE holder' = holder /\ store' = tt
  BY <1>3, <1>4, <1>5, OverridesFacts DEF Manages
<1>6. CASE /\ holder' = s
           /\ \E old \in IF holder = nil THEN Services \cup {nil} ELSE {holder} :
                store' = O!Promotion(tt, old, s)
  <2>1. PICK old \in Services \cup {nil} :
               holder \in {old, nil} /\ store' = O!Promotion(tt, old, s)
    BY <1>6, OverridesFacts
  <2>2. Group(store')
    BY <1>3, <2>1, PromotionGroup
  <2>3. calm' => Sound(store', members, s)
    BY <1>3, <2>1, PromotionSound
  <2> QED
    BY <1>4, <1>6, <2>2, <2>3, OverridesFacts DEF Manages
<1> QED
  BY <1>1, <1>5, <1>6 DEF O!HealthyChange

(* A service goes down. *)
LEMMA UnhealthyChangeManages ==
  ASSUME OverridesInv, NEW s \in Services, O!UnhealthyChange(s), stage = "running", calm' => calm
  PROVE  Manages
<1>1. PICK tt : tt = O!Update(store, O!Own(s, FALSE))
  OBVIOUS
<1>2. O!Own(s, FALSE) \in O!Entry
  BY OwnFacts
<1>3. Group(tt) /\ (calm' => Sound(tt, members, holder))
  BY <1>1, <1>2, OverridesFacts, UpdateGroup, UpdateOwnSound
<1>4. /\ members' = members
      /\ holder' \in members \cup {nil}
      /\ store' = O!Promotion(tt, holder, holder')
  BY <1>1, OverridesFacts DEF O!UnhealthyChange
<1>5. holder' \in Services \cup {nil}
  BY <1>4, OverridesFacts
<1>6. Group(store')
  BY <1>3, <1>4, <1>5, OverridesFacts, PromotionGroup
<1>7. calm' => Sound(store', members, holder')
  BY <1>3, <1>4, <1>5, OverridesFacts, PromotionSound
<1> QED
  BY <1>4, <1>6, <1>7, OverridesFacts DEF Manages

(* A callback that gets no further than its first write. *)
LEMMA HealthChangeBlocksManages ==
  ASSUME OverridesInv, NEW s \in Services, O!HealthChangeBlocks(s), stage = "running", calm' => calm
  PROVE  Manages
<1>1. store' = O!Update(store, O!Own(s, FALSE)) /\ members' = members /\ holder' = holder
  BY DEF O!HealthChangeBlocks
<1>2. Group(store') /\ (calm' => Sound(store', members, holder))
  BY <1>1, OwnFacts, OverridesFacts, UpdateGroup, UpdateOwnSound
<1> QED
  BY <1>1, <1>2, OverridesFacts DEF Manages

(* A removal: the group promotes a successor, and then the entry goes. *)
LEMMA RemoveServiceManages ==
  ASSUME OverridesInv, NEW s \in Services, O!RemoveService(s), stage = "running",
         calm' => calm /\ Plain(store)
  PROVE  Manages
<1>1. PICK M : M = members \ {s}
  OBVIOUS
<1>2. PICK tt : tt = O!Announced(store, M, holder, holder')
  OBVIOUS
<1>3. /\ members' = M /\ store' = O!Delete(tt, s)
      /\ holder' \in M \cup {nil}
      /\ holder' = nil => holder \in {s, nil}
  BY <1>1, <1>2, OverridesFacts, OverridesAssumption
  DEF O!RemoveService, O!NextHolder, O!ConstantsOK
<1>4. M \in SUBSET Services /\ M \in SUBSET members /\ IsFiniteSet(M) /\ holder' \in Services \cup {nil}
  BY <1>1, <1>3, OverridesFacts, FS_RemoveElement
<1>5. Group(tt)
  BY <1>2, <1>4, OverridesFacts, PromotionGroup DEF O!Announced
<1>6. Group(store')
  BY <1>3, <1>5, DeleteGroup
<1>7. ASSUME calm' PROVE Sound(store', M, holder')
  <2>1. Sound(store, M, holder)
    BY <1>4, <1>7, OverridesFacts, FewerSound
  <2>2. holder' = nil => holder \notin M
    BY <1>1, <1>3, OverridesFacts, OverridesAssumption DEF O!ConstantsOK
  <2>3. Sound(tt, M, holder')
    BY <1>2, <1>3, <1>4, <1>7, <2>1, <2>2, OverridesFacts, AnnouncedSound
  <2> QED
    BY <1>3, <1>5, <2>3, DeleteSound
<1> QED
  BY <1>3, <1>4, <1>6, <1>7 DEF Manages

(* A departure: the entry goes before the group promotes a successor. *)
LEMMA LeaveManages ==
  ASSUME OverridesInv, NEW s \in Services, O!Leave(s), stage = "running",
         calm' => calm /\ Plain(store)
  PROVE  Manages
<1>1. PICK M : M = members \ {s}
  OBVIOUS
<1>2. PICK tt : tt = O!Delete(store, s)
  OBVIOUS
<1>3. /\ members' = M /\ store' = O!Announced(tt, M, holder, holder')
      /\ holder' \in M \cup {nil}
      /\ holder' = nil => holder \in {s, nil}
  BY <1>1, <1>2, OverridesFacts, OverridesAssumption
  DEF O!Leave, O!NextHolder, O!ConstantsOK
<1>4. M \in SUBSET Services /\ M \in SUBSET members /\ IsFiniteSet(M) /\ holder' \in Services \cup {nil}
  BY <1>1, <1>3, OverridesFacts, FS_RemoveElement
<1>5. Group(tt)
  BY <1>2, OverridesFacts, DeleteGroup
<1>6. Group(store')
  BY <1>3, <1>4, <1>5, OverridesFacts, PromotionGroup DEF O!Announced
<1>7. ASSUME calm' PROVE Sound(store', M, holder')
  <2>1. Sound(store, M, holder)
    BY <1>4, <1>7, OverridesFacts, FewerSound
  <2>2. holder' = nil => holder \notin M
    BY <1>1, <1>3, OverridesFacts, OverridesAssumption DEF O!ConstantsOK
  <2>3. Sound(tt, M, holder)
    BY <1>2, <2>1, OverridesFacts, DeleteSound
  <2>4. Plain(tt)
    <3>1. \A i \in DOMAIN tt : \E j \in DOMAIN store : tt[i] = store[j]
      BY <1>2, OverridesFacts, KeptEntries
    <3> QED
      BY <1>7, <3>1 DEF Plain
  <2> QED
    BY <1>3, <1>4, <1>5, <2>2, <2>3, <2>4, OverridesFacts, AnnouncedSound
<1> QED
  BY <1>3, <1>4, <1>6, <1>7 DEF Manages

(* What a step has to keep of the entries, whoever takes it. *)
LEMMA SoundKeeps ==
  ASSUME NEW st, Group(st), NEW M, NEW h, Sound(st, M, h)
  PROVE  Foreign(st) /\ (O!HasOverride(st) \/ Plain(st))
BY SoundIsSeen DEF Group, Sound

(* Without a request nothing is about to be written. *)
LEMMA NoRequestAnswers ==
  ASSUME NEW q, q = O!NoRequest
  PROVE  q.op \notin {"new", "update"}
BY DEF O!NoRequest

(* The manager's steps preserve the invariant; one that overtakes a request *)
(* ends the calm.                                                           *)
LEMMA CheckingKeeps ==
  ASSUME OverridesInv, O!Checking \/ O!Removal
  PROVE  OverridesInv'
<1>1. /\ stage = "running" /\ stage' = stage /\ last' = last /\ left' = left /\ req' = req
      /\ calm' \in BOOLEAN
      /\ calm' => calm /\ req = O!NoRequest
      /\ O!Removal => (calm' => ~ O!HasOverride(store))
  BY OverridesFacts, Zenon DEF O!Checking, O!Removal, O!shutdownVars, O!Overtakes, O!UnderOverride
<1>2. O!Removal => (calm' => Plain(store))
  BY <1>1 DEF OverridesInv
<1>3. Manages
  BY <1>1, <1>2, RegisterServiceManages, JoinManages, ReconfigureManages, HealthyChangeManages,
     UnhealthyChangeManages, HealthChangeBlocksManages, RemoveServiceManages, LeaveManages
  DEF O!Checking, O!Removal
<1>4. left = {}
  BY <1>1 DEF OverridesInv
<1>5. O!TypeOK'
  BY <1>1, <1>3, <1>4, OverridesFacts DEF Manages, O!TypeOK, Group, Distinct
<1>6. calm' => req.op \notin {"new", "update"}
  BY <1>1, NoRequestAnswers
<1>7. Answerable'
  BY <1>1, <1>6 DEF OverridesInv, Answerable
<1>8. calm' => Foreign(store') /\ (O!HasOverride(store') \/ Plain(store'))
  BY <1>3, SoundKeeps DEF Manages
<1>9. calm' => Foreign(store)' /\ (O!HasOverride(store)' \/ Plain(store)')
  BY <1>8
<1> QED
  BY <1>1, <1>3, <1>4, <1>5, <1>7, <1>9 DEF Manages, OverridesInv

(* What a member is written with by OnShutdown. *)
LEMMA SavedEntry ==
  ASSUME NEW s \in Services, NEW b \in BOOLEAN, NEW o \in BOOLEAN
  PROVE  LET e == [O!Own(s, b) EXCEPT !.over = o]
         IN  e \in O!Entry /\ e.id = s /\ e.over = o
BY DEF O!Own, O!Entry

(* OnShutdown and restarts, of which the ones in the calm find no override. *)
LEMMA EndingKeeps ==
  ASSUME OverridesInv, O!Ending
  PROVE  OverridesInv'
<1>1. /\ calm' \in BOOLEAN
      /\ calm' => calm /\ req = O!NoRequest /\ ~ O!HasOverride(store)
  BY OverridesFacts, Zenon DEF O!Ending, O!Overtakes, O!UnderOverride
<1>2. calm' => Plain(store) /\ Foreign(store)
  BY <1>1 DEF OverridesInv
<1>3. calm' => req.op \notin {"new", "update"}
  BY <1>1, NoRequestAnswers
<1>4. CASE O!Shutdown
  <2>1. /\ stage' = "stopping" /\ left' = members /\ store' = store
        /\ members' = members /\ holder' = holder /\ req' = req
        /\ last' \in members \cup {nil}
    BY <1>4 DEF O!Shutdown, O!managerVars, O!ActiveOfGroup
  <2>2. O!TypeOK'
    BY <1>1, <2>1, OverridesFacts DEF O!TypeOK, Group, Distinct
  <2>3. Answerable'
    BY <1>3, <2>1 DEF OverridesInv, Answerable
  <2> QED
    BY <1>2, <2>1, <2>2, <2>3 DEF OverridesInv, Foreign, Plain
<1>5. CASE \E s \in Services : O!SaveMember(s)
  <2>1. PICK s \in Services : O!SaveMember(s)
    BY <1>5
  <2>2. /\ s \in left /\ members' = members /\ holder' = holder /\ req' = req
        /\ stage' = stage /\ last' = last /\ left' \in SUBSET left
    BY <2>1 DEF O!SaveMember, O!managerVars
  <2>3. stage # "running" /\ stage' # "running"
    BY <2>2 DEF OverridesInv
  <2>4. O!HasOverride(store) \in BOOLEAN
    BY Zenon DEF O!HasOverride
  <2>5. PICK e \in O!Entry :
          /\ e.id = s /\ e.over = O!HasOverride(store)
          /\ store' \in {store, O!Update(store, e)}
    <3>1. PICK b \in BOOLEAN : b = (s = last)
      OBVIOUS
    <3>2. PICK e : e = [O!Own(s, b) EXCEPT !.over = O!HasOverride(store)]
      OBVIOUS
    <3>3. e \in O!Entry /\ e.id = s /\ e.over = O!HasOverride(store)
      BY <2>4, <3>2, SavedEntry
    <3>4. store' \in {store, O!Update(store, e)}
      BY <2>1, <3>1, <3>2 DEF O!SaveMember
    <3> QED
      BY <3>3, <3>4
  <2>6. Group(store')
    BY <2>5, OverridesFacts, UpdateGroup
  <2>7. O!TypeOK'
    BY <1>1, <2>2, <2>6, OverridesFacts DEF O!TypeOK, Group, Distinct
  <2>8. Answerable'
    BY <1>3, <2>2 DEF OverridesInv, Answerable
  <2>9. ASSUME calm' PROVE Foreign(store') /\ Plain(store')
    <3>1. ~ e.over
      BY <1>1, <2>5, <2>9
    <3>2. PICK tt : tt = O!Update(store, e)
      OBVIOUS
    <3>3. store \in Seq(O!Entry)
      BY OverridesFacts DEF Group
    <3>4. /\ DOMAIN tt = DOMAIN store
          /\ \A i \in DOMAIN store : tt[i] = IF store[i].id = e.id THEN e ELSE store[i]
      BY <1>1, <2>9, <3>2, <3>3, UpdatePlain, UpdateFacts DEF SameIds
    <3>5. Foreign(tt) /\ Plain(tt)
      BY <1>2, <2>9, <3>1, <3>4 DEF Foreign, Plain
    <3> QED
      BY <1>2, <2>5, <2>9, <3>2, <3>5
  <2>10. calm' => Foreign(store)' /\ Plain(store)'
    BY <2>9
  <2> QED
    BY <2>2, <2>3, <2>7, <2>8, <2>10 DEF OverridesInv
<1>6. CASE O!Restart
  <2>1. /\ members' = {} /\ holder' = nil /\ req' = O!NoRequest
        /\ stage' = "running" /\ last' = nil /\ left' = {} /\ store' = store
    BY <1>6 DEF O!Restart
  <2>2. O!TypeOK'
    BY <1>1, <2>1, OverridesFacts DEF O!TypeOK, Group, Distinct, O!Request
  <2>3. Answerable'
    BY <2>1, NoRequestAnswers DEF Answerable
  <2>4. IsFiniteSet(members')
    BY <2>1, FS_EmptySet
  <2>5. calm' => Sound(store', members', holder')
    BY <1>2, <2>1 DEF Sound, Only, Foreign, Plain
  <2>6. calm' => Foreign(store') /\ Plain(store')
    BY <1>2, <2>1
  <2>7. calm' => Foreign(store)' /\ Plain(store)' /\ Sound(store, members, holder)'
    BY <2>5, <2>6
  <2> QED
    BY <2>1, <2>2, <2>3, <2>4, <2>7 DEF OverridesInv
<1> QED
  BY <1>4, <1>5, <1>6 DEF O!Ending

(* A request of the API leaves the group alone. *)
Asks ==
  /\ members' = members /\ holder' = holder
  /\ stage' = stage /\ last' = last /\ left' = left
  /\ calm' \in BOOLEAN /\ (calm' => calm /\ ~ O!StaleFlag)

(* A request reads the first active entry. *)
LEMMA ReadFinds ==
  ASSUME OverridesInv, NEW over, NEW r, O!Read(over, r)
  PROVE  /\ req' = r /\ O!HasActive(store) /\ O!GetActive(store).over = over
         /\ \E i \in DOMAIN store : /\ O!GetActive(store) = store[i]
                                    /\ store[i].active /\ store[i].over = over
<1>1. req' = r /\ O!HasActive(store) /\ O!GetActive(store).over = over
  BY DEF O!Read
<1>2. store \in Seq(O!Entry)
  BY OverridesFacts DEF Group
<1>3. PICK i \in O!Actives(store) : O!GetActive(store) = store[i]
  BY <1>1, <1>2, GetActiveIsFirst
<1>4. i \in DOMAIN store /\ store[i].active
  BY DEF O!Actives
<1> QED
  BY <1>1, <1>3, <1>4

(* The first half of POST and PUT. *)
LEMMA ReadForNewOrUpdateKeeps ==
  ASSUME OverridesInv, NEW ip \in IPs, O!ReadForNew(ip) \/ O!ReadForUpdate(ip), Asks
  PROVE  OverridesInv'
<1>1. PICK o \in {"new", "update"} : \E r :
        /\ O!Read(FALSE, [op |-> o, entry |-> r])
        /\ r \in {[O!GetActive(store) EXCEPT !.ip = ip, !.over = TRUE],
                  [O!GetActive(store) EXCEPT !.ip = ip]}
        /\ store' = store
  BY DEF O!ReadForNew, O!ReadForUpdate
<1>2. PICK r : /\ O!Read(FALSE, [op |-> o, entry |-> r])
               /\ r \in {[O!GetActive(store) EXCEPT !.ip = ip, !.over = TRUE],
                         [O!GetActive(store) EXCEPT !.ip = ip]}
               /\ store' = store
  BY <1>1
<1>3. PICK q : q = [op |-> o, entry |-> r]
  OBVIOUS
<1>4. O!Read(FALSE, q)
  BY <1>2, <1>3
<1>5. req' = q /\ O!HasActive(store) /\ ~ O!HasOverride(store)
  BY <1>4, ReadFinds DEF O!HasOverride
<1>6. PICK i \in DOMAIN store : /\ O!GetActive(store) = store[i]
                                /\ store[i].active /\ store[i].over = FALSE
  BY <1>4, ReadFinds
<1>7. PICK e \in O!Entry : e = store[i]
  BY <1>6, OverridesFacts DEF Group
<1>8. r \in O!Entry /\ r.id = store[i].id /\ r.ip = ip /\ r.active = store[i].active
  BY <1>2, <1>6, <1>7 DEF O!Entry
<1>9. q \in O!Request /\ q.entry = r
  BY <1>3, <1>8 DEF O!Request
<1>10. O!TypeOK'
  BY <1>2, <1>5, <1>9, OverridesFacts DEF Asks, O!TypeOK, Group, Distinct
<1>11. r.ip # "own"
  BY <1>8, OverridesAssumption DEF O!ConstantsOK
<1>12. O!HasActive(store)' /\ ~ O!HasOverride(store)' /\ O!GetActive(store)' = O!GetActive(store)
  BY <1>2, <1>5 DEF O!HasActive, O!HasOverride, O!GetActive, O!Actives
<1>13. Answerable'
  BY <1>5, <1>6, <1>8, <1>9, <1>11, <1>12 DEF Answerable
<1>14. calm' => Foreign(store)' /\ Plain(store)'
  BY <1>2, <1>5 DEF Asks, OverridesInv, Foreign, Plain
<1>15. calm' /\ stage' = "running" => Sound(store, members, holder)'
  BY <1>2 DEF Asks, OverridesInv, Sound, Only, Foreign
<1> QED
  BY <1>10, <1>13, <1>14, <1>15 DEF Asks, OverridesInv

(* The first half of DELETE. *)
LEMMA ReadForDeleteKeeps ==
  ASSUME OverridesInv, O!ReadForDelete, Asks
  PROVE  OverridesInv'
<1>1. PICK q : q = [op |-> "delete"]
  OBVIOUS
<1>2. O!Read(TRUE, q) /\ store' = O!RemoveOverrideFlag(store)
  BY <1>1 DEF O!ReadForDelete
<1>3. req' = q
  BY <1>2, ReadFinds
<1>4. q \in O!Request /\ q.op \notin {"new", "update"}
  BY <1>1 DEF O!Request
<1>5. /\ Group(store') /\ DOMAIN store' = DOMAIN store
      /\ \A i \in DOMAIN store : /\ store'[i].active = store[i].active
                                 /\ store'[i].id = store[i].id
                                 /\ store'[i].over = FALSE
  BY <1>2, OverridesFacts, RemoveOverrideFlagGroup
<1>6. O!TypeOK'
  BY <1>3, <1>4, <1>5, OverridesFacts DEF Asks, O!TypeOK, Group, Distinct
<1>7. Foreign(store)' /\ Plain(store)'
  BY <1>5 DEF Foreign, Plain
<1>8. calm' /\ stage' = "running" => Sound(store, members, holder)'
  BY <1>5, <1>7, OverridesFacts DEF Asks, Sound, Only
<1> QED
  BY <1>3, <1>4, <1>6, <1>7, <1>8 DEF Asks, OverridesInv, Answerable

(* Writing an override over the first active entry makes it the group's. *)
LEMMA OverrideTakesHold ==
  ASSUME NEW st, Group(st), NEW tt, Group(tt), DOMAIN tt = DOMAIN st, NEW e,
         O!HasActive(st), O!GetActive(st).id = e.id, e.active,
         \A i \in DOMAIN st : tt[i] = IF st[i].id = e.id THEN e ELSE st[i]
  PROVE  O!HasActive(tt) /\ O!GetActive(tt) = e
<1>1. PICK i \in O!Actives(st) : O!GetActive(st) = st[i] /\ \A j \in O!Actives(st) : i <= j
  BY GetActiveIsFirst DEF Group
<1>2. i \in DOMAIN st /\ st[i].id = e.id /\ st[i].active /\ tt[i] = e
  BY <1>1 DEF O!Actives
<1>3. \A j \in DOMAIN st : st[j].id = e.id => j = i
  BY <1>2 DEF Group, Distinct
<1>4. \A j \in DOMAIN st : tt[j].active => st[j].active
  BY <1>2, <1>3
<1>5. i \in O!Actives(tt) /\ \A j \in O!Actives(tt) : j \in O!Actives(st)
  BY <1>2, <1>4 DEF O!Actives
<1>6. O!HasActive(tt)
  BY <1>5 DEF O!HasActive
<1>7. PICK k \in O!Actives(tt) : O!GetActive(tt) = tt[k] /\ \A j \in O!Actives(tt) : k <= j
  BY <1>6, GetActiveIsFirst DEF Group
<1>8. i \in Nat /\ k \in Nat /\ i <= k /\ k <= i
  <2>1. DOMAIN st \subseteq Nat
    BY DEF Group
  <2> QED
    BY <1>1, <1>5, <1>7, <2>1 DEF O!Actives
<1>9. k = i
  BY <1>8
<1> QED
  BY <1>2, <1>6, <1>7, <1>9

(* The second half of POST and PUT. *)
LEMMA WriteEntryKeeps ==
  ASSUME OverridesInv, O!Write, Asks, req.op \in {"new", "update"}
  PROVE  /\ Group(store')
         /\ calm' => Foreign(store') /\ (O!HasOverride(store') \/ Plain(store'))
         /\ calm' /\ stage = "running" => Sound(store', members, holder)
<1>1. PICK e \in O!Entry : e = req.entry
  BY OverridesFacts DEF O!Request, O!NoRequest
<1>2. /\ e.over => e.ip # "own"
      /\ e.active
      /\ calm => /\ O!HasActive(store) /\ ~ O!HasOverride(store)
                 /\ O!GetActive(store).id = e.id
  BY <1>1 DEF OverridesInv, Answerable
<1>3. PICK tt : tt = store'
  OBVIOUS
<1>4. tt \in {O!Update(store, e), O!Replace(store, e)}
  BY <1>1, <1>3 DEF O!Write
<1>5. Group(tt) /\ DOMAIN tt = DOMAIN store
  <2>1. store \in Seq(O!Entry)
    BY OverridesFacts DEF Group
  <2> QED
    BY <1>4, <2>1, OverridesFacts, UpdateGroup, UpdateFacts, ReplaceGroup DEF SameIds
<1>6. ASSUME calm'
      PROVE  /\ Foreign(tt)
             /\ O!HasOverride(tt) \/ Plain(tt)
             /\ stage = "running" => Sound(tt, members, holder)
  <2>1. calm /\ Foreign(store) /\ Plain(store)
    BY <1>2, <1>6 DEF Asks, OverridesInv
  <2>2. \A i \in DOMAIN store : tt[i] = IF store[i].id = e.id THEN e ELSE store[i]
    <3>1. store \in Seq(O!Entry) /\ Group(store)
      BY OverridesFacts DEF Group
    <3>2. CASE tt = O!Update(store, e)
      BY <1>2, <2>1, <3>1, <3>2, UpdatePlain
    <3>3. CASE tt = O!Replace(store, e)
      BY <3>1, <3>3, ReplaceGroup
    <3> QED
      BY <1>4, <3>2, <3>3
  <2>3. Foreign(tt)
    BY <1>2, <1>5, <2>1, <2>2 DEF Foreign
  <2>4. O!HasActive(tt) /\ O!GetActive(tt) = e
    BY <1>2, <1>5, <2>1, <2>2, OverridesFacts, OverrideTakesHold
  <2>5. O!HasOverride(tt) \/ Plain(tt)
    <3>1. CASE e.over
      BY <2>4, <3>1 DEF O!HasOverride
    <3>2. CASE ~ e.over
      BY <1>5, <2>1, <2>2, <3>2 DEF Plain
    <3> QED
      BY <3>1, <3>2
  <2>6. ASSUME stage = "running" PROVE Sound(tt, members, holder)
    <3>1. \A i \in DOMAIN store : store[i].active => store[i].id = holder
      BY <1>6, <2>1, <2>6, OverridesFacts DEF Asks, O!StaleFlag, O!Actives, Sound, Only
    <3>2. e.id = holder
      <4>1. PICK i \in O!Actives(store) : O!GetActive(store) = store[i]
        BY <1>2, <2>1, OverridesFacts, GetActiveIsFirst DEF Group
      <4> QED
        BY <1>2, <2>1, <3>1, <4>1 DEF O!Actives
    <3> QED
      BY <1>5, <2>2, <2>3, <3>1, <3>2 DEF Sound, Only
  <2> QED
    BY <2>3, <2>5, <2>6
<1> QED
  BY <1>3, <1>5, <1>6

(* The second half of a request. *)
LEMMA WriteKeeps ==
  ASSUME OverridesInv, O!Write, Asks
  PROVE  OverridesInv'
<1>1. req' = O!NoRequest /\ req # O!NoRequest
  BY DEF O!Write, O!NoRequest
<1>2. /\ Group(store')
      /\ calm' => Foreign(store') /\ (O!HasOverride(store') \/ Plain(store'))
      /\ calm' /\ stage = "running" => Sound(store', members, holder)
  <2>1. CASE req.op \in {"new", "update"}
    BY <2>1, WriteEntryKeeps
  <2>2. CASE req.op \notin {"new", "update"}
    <3>1. PICK a \in members \cup {nil} : store' = O!Restore(a) /\ stage = "running"
      BY <2>2 DEF O!Write, O!ActiveOfGroup
    <3>2. CASE a = nil
      BY <3>1, <3>2, OverridesFacts, SoundKeeps DEF O!Restore, Asks
    <3>3. CASE a # nil
      <4>1. a \in Services /\ store' = O!Update(store, O!Own(a, FALSE))
        BY <3>1, <3>3, OverridesFacts DEF O!Restore
      <4>2. Group(store')
        BY <4>1, OwnFacts, OverridesFacts, UpdateGroup
      <4>3. calm' => Sound(store', members, holder)
        <5>1. calm' => Sound(store, members, holder)
          BY <3>1, OverridesFacts DEF Asks
        <5> QED
          BY <4>1, <5>1, OverridesFacts, UpdateOwnSound
      <4> QED
        BY <4>2, <4>3, SoundKeeps
    <3> QED
      BY <3>2, <3>3
  <2> QED
    BY <2>1, <2>2
<1>3. O!TypeOK'
  BY <1>1, <1>2, OverridesFacts DEF Asks, O!TypeOK, Group, Distinct, O!Request
<1>4. Answerable'
  BY <1>1, NoRequestAnswers DEF Answerable
<1>5. /\ calm' => Foreign(store)' /\ (O!HasOverride(store)' \/ Plain(store)')
      /\ calm' /\ stage' = "running" => Sound(store, members, holder)'
  BY <1>2 DEF Asks
<1> QED
  BY <1>3, <1>4, <1>5 DEF Asks, OverridesInv

(* The invariant holds initially. *)
LEMMA OverridesInvInit == O!Init => OverridesInv
<1> SUFFICES ASSUME O!Init PROVE OverridesInv
  OBVIOUS
<1>1. O!TypeOK
  BY DEF O!Init, O!TypeOK, O!Request
<1>2. Answerable
  BY NoRequestAnswers DEF O!Init, Answerable
<1>3. IsFiniteSet(members)
  BY FS_EmptySet DEF O!Init
<1>4. Foreign(store) /\ Plain(store) /\ Sound(store, members, holder)
  BY DEF O!Init, Sound, Only, Foreign, Plain
<1> QED
  BY <1>1, <1>2, <1>3, <1>4 DEF O!Init, OverridesInv

(* Every step preserves the invariant. *)
LEMMA OverridesInvNext ==
  ASSUME OverridesInv, [O!Next]_(O!vars)
  PROVE  OverridesInv'
<1>1. CASE O!Checking \/ O!Removal
  BY <1>1, CheckingKeeps
<1>2. CASE O!Ending
  BY <1>2, EndingKeeps
<1>3. CASE O!Api
  <2>1. Asks
    <3>1. /\ members' = members /\ holder' = holder
          /\ stage' = stage /\ last' = last /\ left' = left
      BY <1>3 DEF O!Api, O!ReadForNew, O!ReadForUpdate, O!ReadForDelete, O!Read, O!Write,
                  O!managerVars, O!shutdownVars
    <3>2. calm' \in BOOLEAN /\ (calm' => calm /\ ~ O!StaleFlag)
      BY <1>3, OverridesFacts, Zenon DEF O!Api
    <3> QED
      BY <3>1, <3>2 DEF Asks
  <2> QED
    BY <1>3, <2>1, ReadForNewOrUpdateKeeps, ReadForDeleteKeeps, WriteKeeps DEF O!Api
<1>4. CASE UNCHANGED O!vars
  <2>1. /\ store' = store /\ members' = members /\ holder' = holder /\ req' = req
        /\ stage' = stage /\ last' = last /\ left' = left /\ calm' = calm
    BY <1>4 DEF O!vars, O!managerVars, O!shutdownVars
  <2>2. O!TypeOK' /\ Answerable'
    BY <2>1 DEF OverridesInv, O!TypeOK, Answerable, O!HasActive, O!HasOverride, O!GetActive, O!Actives
  <2>3. /\ Foreign(store)' = Foreign(store) /\ Plain(store)' = Plain(store)
        /\ Sound(store, members, holder)' = Sound(store, members, holder)
        /\ O!HasOverride(store)' = O!HasOverride(store)
    BY <2>1 DEF Foreign, Plain, Sound, Only, O!HasActive, O!HasOverride, O!GetActive, O!Actives
  <2> QED
    BY <2>1, <2>2, <2>3 DEF OverridesInv
<1> QED
  BY <1>1, <1>2, <1>3, <1>4 DEF O!Next

(* Of the registered services only the holder of the role has an active     *)
(* entry, through arrivals, departures, promotions, restarts and overrides, *)
(* and what says that it is overridden is; as long as no override is in     *)
(* force when somebody leaves or the operator ends, none is requested while *)
(* an unregistered service is flagged, and no request is overtaken.         *)
THEOREM OverridesOneActive == OverridesSpec => []OneActive
<1>1. O!Init => OverridesInv
  BY OverridesInvInit
<1>2. OverridesInv /\ [O!Next]_(O!vars) => OverridesInv'
  BY OverridesInvNext
<1>3. OverridesInv => OneActive
  <2> SUFFICES ASSUME OverridesInv PROVE OneActive
    OBVIOUS
  <2>1. ASSUME calm, stage = "running"
        PROVE  \A i \in O!Actives(store) : store[i].id \in members => store[i].id = holder
    BY <2>1, OverridesFacts DEF O!Actives, Sound, Only
  <2>2. ASSUME calm, O!HasOverride(store) PROVE O!GetActive(store).ip # "own"
    <3>1. store \in Seq(O!Entry)
      BY OverridesFacts DEF Group
    <3>2. PICK i \in O!Actives(store) : O!GetActive(store) = store[i]
      BY <2>2, <3>1, GetActiveIsFirst DEF O!HasOverride
    <3> QED
      BY <2>2, <3>2 DEF OverridesInv, O!HasOverride, O!Actives, Foreign
  <2> QED
    BY <2>1, <2>2 DEF OneActive, O!OneActive, OverridesInv
<1> QED
  BY <1>1, <1>2, <1>3, PTL DEF OverridesSpec, O!Spec

(* Rewriting another entry as inactive leaves the first active one. *)
LEMMA UpdateOfOther ==
  ASSUME NEW st \in Seq(O!Entry), O!HasActive(st), NEW s \in Services, s # O!GetActive(st).id
  PROVE  LET tt == O!Update(st, O!Own(s, FALSE))
         IN  O!HasActive(tt) /\ O!GetActive(tt) = O!GetActive(st)
<1>1. PICK e : e = O!Own(s, FALSE)
  OBVIOUS
<1>2. e \in O!Entry /\ e.id = s /\ e.active = FALSE
  BY <1>1, OwnFacts
<1>3. PICK tt : tt = O!Update(st, e)
  OBVIOUS
<1>4. /\ tt \in Seq(O!Entry) /\ DOMAIN tt = DOMAIN st
      /\ \A i \in DOMAIN st : tt[i] = IF st[i].id = s THEN O!Keep(st, st[i], e) ELSE st[i]
  <2>1. e \in O!Entry /\ e.id = s
    BY <1>2
  <2>2. /\ tt \in Seq(O!Entry) /\ SameIds(st, tt)
        /\ \A i \in DOMAIN st : tt[i] = IF st[i].id = e.id THEN O!Keep(st, st[i], e) ELSE st[i]
    BY <1>3, <2>1, UpdateFacts, Zenon
  <2> QED
    BY <2>1, <2>2, Zenon DEF SameIds
<1>5. PICK i \in O!Actives(st) : O!GetActive(st) = st[i] /\ \A j \in O!Actives(st) : i <= j
  BY GetActiveIsFirst
<1>6. i \in DOMAIN st /\ st[i].active /\ tt[i] = st[i]
  BY <1>4, <1>5 DEF O!Actives
<1>7. i \in O!Actives(tt)
  BY <1>4, <1>6 DEF O!Actives
<1>8. \A j \in DOMAIN st : st[j] \in O!Entry
  OBVIOUS
<1>9. \A j \in DOMAIN st : O!Keep(st, st[j], e).active = FALSE
  <2>1. e \in O!Entry
    BY <1>2
  <2>2. \A j \in DOMAIN st : O!Keep(st, st[j], e).active = e.active
    BY <1>8, <2>1, KeepFacts
  <2> QED
    BY <1>2, <2>2, Zenon
<1>10. \A j \in O!Actives(tt) : j \in O!Actives(st)
  BY <1>4, <1>9 DEF O!Actives
<1>11. O!HasActive(tt)
  BY <1>7 DEF O!HasActive
<1>12. PICK k \in O!Actives(tt) : O!GetActive(tt) = tt[k] /\ \A j \in O!Actives(tt) : k <= j
  BY <1>4, <1>11, GetActiveIsFirst
<1>13. i <= k /\ k <= i /\ i \in Nat /\ k \in Nat
  BY <1>4, <1>5, <1>7, <1>10, <1>12 DEF O!Actives
<1>14. k = i
  BY <1>13
<1> QED
  BY <1>1, <1>3, <1>5, <1>6, <1>11, <1>12, <1>14

(* While the role stays where it is, nothing that happens to the other      *)
(* services, and no registration or removal, takes an override from the     *)
(* entry that has it; whether or not requests were overtaken.               *)
THEOREM OverridesLeftByOthers == OverridesSpec => OthersLeaveOverride
<1> DEFINE Left == \A s \in Services :
             /\ O!HasOverride(store)
             /\ holder' = holder
             /\ stage = "running"
             /\ \/ O!RegisterService(s) \/ O!RemoveService(s) \/ O!Leave(s)
                \/ /\ s # O!GetActive(store).id
                   /\ \/ O!Join(s) \/ O!Reconfigure(s)
                      \/ O!HealthyChange(s) \/ O!UnhealthyChange(s) \/ O!HealthChangeBlocks(s)
             => O!HasActive(store') /\ O!GetActive(store') = O!GetActive(store)
<1>1. ASSUME OverridesInv PROVE Left
  <2> SUFFICES ASSUME NEW s \in Services, O!HasOverride(store), holder' = holder,
                      \/ O!RegisterService(s) \/ O!RemoveService(s) \/ O!Leave(s)
                      \/ /\ s # O!GetActive(store).id
                         /\ \/ O!Join(s) \/ O!Reconfigure(s)
                            \/ O!HealthyChange(s) \/ O!UnhealthyChange(s)
                            \/ O!HealthChangeBlocks(s)
               PROVE  O!HasActive(store') /\ O!GetActive(store') = O!GetActive(store)
    OBVIOUS
  <2>1. O!HasActive(store) /\ store \in Seq(O!Entry)
    BY <1>1, OverridesFacts DEF O!HasOverride, Group
  <2>2. \A st, M : O!Promotion(st, holder, holder') = st /\ O!Announced(st, M, holder, holder') = st
    BY DEF O!Promotion, O!Announced
  <2>3. CASE O!RegisterService(s) \/ O!RemoveService(s) \/ O!Leave(s)
    <3>1. store' = store
      BY <2>2, <2>3 DEF O!RegisterService, O!RemoveService, O!Leave, O!Create, O!Delete
    <3> QED
      BY <2>1, <3>1
  <2>4. CASE /\ s # O!GetActive(store).id
             /\ \/ O!Join(s) \/ O!Reconfigure(s)
                \/ O!HealthyChange(s) \/ O!UnhealthyChange(s) \/ O!HealthChangeBlocks(s)
    <3>1. PICK tt : tt = O!Update(store, O!Own(s, FALSE))
      OBVIOUS
    <3>2. O!Create(store, O!Own(s, FALSE)) = store
      BY DEF O!Create
    <3>3. store' = tt
      <4>1. CASE O!Join(s)
        BY <2>2, <3>1, <3>2, <4>1 DEF O!Join
      <4>2. CASE O!Reconfigure(s)
        BY <2>2, <3>1, <4>2 DEF O!Reconfigure
      <4>3. CASE O!HealthyChange(s)
        BY <2>2, <3>1, <4>3 DEF O!HealthyChange
      <4>4. CASE O!UnhealthyChange(s)
        BY <2>2, <3>1, <4>4 DEF O!UnhealthyChange
      <4>5. CASE O!HealthChangeBlocks(s)
        BY <3>1, <4>5 DEF O!HealthChangeBlocks
      <4> QED
        BY <2>4, <4>1, <4>2, <4>3, <4>4, <4>5
    <3> QED
      BY <2>1, <2>4, <3>1, <3>3, UpdateOfOther
  <2> QED
    BY <2>3, <2>4
<1>2. OverridesInv /\ [O!Next]_(O!vars) => OverridesInv'
  BY OverridesInvNext
<1>3. OverridesInv /\ [O!Next]_(O!vars) => [Left]_(O!vars)
  BY <1>1
<1> QED
  BY <1>2, <1>3, OverridesInvInit, PTL DEF OverridesSpec, O!Spec, OthersLeaveOverride, O!OthersLeaveOverride

=============================================================================
