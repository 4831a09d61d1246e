----------------------------- MODULE RepoStore -----------------------------
(***************************************************************************)
(* The calls of the service repository (internal/repositories/service) on  *)
(* one group, step by step, over the file store (pkg/persistence/store/    *)
(* file).  The store hands out the slice it has cached, so that callers    *)
(* that read, change and save a group work on shared memory; the lock of   *)
(* the store covers each Load and Save alone.  The manager serialises its  *)
(* own calls with sm.mutex; health-change callbacks and the API do not.    *)
(*                                                                         *)
(* A slice is an array and a length.  An entry is a service and what was   *)
(* last written of it.  A file without the group is an empty sequence, as  *)
(* is an empty file.  Overrides are the subject of module Overrides.       *)
(***************************************************************************)
EXTENDS Slices, SequencesExt

CONSTANTS
  Values,     \* what may be written of a service
  manager,    \* the caller that holds sm.mutex
  Updaters,   \* health-change callbacks and requests, which only update
  none,       \* no service, no value, no array, nobody
  torn,       \* what a file is that cannot be parsed
  MaxEntries  \* bounds the entries of the group

ASSUME RepoAssumption ==
  /\ none \notin Services \cup Values \cup Updaters \cup {manager}
  /\ none \notin Nat
  /\ torn \notin Seq([id : Services \cup {none}, val : Values \cup {none}])
  /\ manager \notin Updaters
  /\ IsFiniteSet(Updaters)
  /\ MaxEntries \in Nat

Callers == Updaters \cup {manager}

(* One array for each slice that can be in use, a caller's and the cached   *)
(* one, and one for the slice that takes the place of one of them.          *)
Arrays == 1 .. Cardinality(Callers) + 2

VARIABLES
  mem,        \* the arrays
  cache,      \* the cached slice of the group
  file,       \* the entries in the file, or torn if it cannot be parsed
  lock,       \* who is between the truncation and the write of WriteFile
  call,       \* what each caller is doing
  damaged,    \* observation: whether a failed write has spoilt the file
  expected,   \* observation: the last value given to each service
  mixed       \* observation: whether calls overlapped in a way that loses writes

vars == <<mem, cache, file, lock, call, damaged, expected, mixed>>

Entry == [id : Services \cup {none}, val : Values \cup {none}]

Zero == [id |-> none, val |-> none]

Slice == [arr : Arrays \cup {none}, len : Nat]

Nil == [arr |-> none, len |-> 0]

Idle == [pc |-> "idle", op |-> "update", entry |-> Zero, slice |-> Nil, idx |-> 0,
         data |-> <<>>]

Unknown == [s \in Services |-> none]

NoMemory == [a \in Arrays |-> <<>>]

Init ==
  /\ mem = NoMemory
  /\ cache = Nil
  /\ file = <<>>
  /\ lock = none
  /\ call = [c \in Callers |-> Idle]
  /\ damaged = "no"
  /\ expected = Unknown
  /\ mixed = "no"

-----------------------------------------------------------------------------
(* Memory. *)

Array(m, s) == IF s.arr = none THEN <<>> ELSE m[s.arr]

Content(m, s) == SubSeq(Array(m, s), 1, s.len)

Used(ca, cl) == {ca.arr} \cup {cl[c].slice.arr : c \in Callers}

(* What nobody refers to any more is gone. *)
Collect(m, ca, cl) == [a \in Arrays |-> IF a \in Used(ca, cl) THEN m[a] ELSE <<>>]

NewArray == CHOOSE a \in Arrays : a \notin Used(cache, call)

Fresh(es) == [arr |-> NewArray, len |-> Len(es)]

Index(es, s) == SelectInSeq(es, LAMBDA e : e.id = s)

ValuesOf(es) ==
  [s \in Services |-> IF Index(es, s) = 0 THEN none ELSE es[Index(es, s)].val]

-----------------------------------------------------------------------------
(* The store. *)

(* Load fails on a file that cannot be parsed, if it has to read it. *)
CanLoad == lock = none /\ (cache # Nil \/ file # torn)

(* Mutant: callers get a slice of their own. *)
LoadCopy ==
  IF file \in {<<>>, torn}
    THEN [mem |-> mem, cache |-> cache, slice |-> cache]
    ELSE [mem |-> [mem EXCEPT ![NewArray] = file], cache |-> cache, slice |-> Fresh(file)]

(* The memory and the cache that Load leaves, and the slice it returns. *)
Load ==
  IF cache # Nil \/ file = <<>>
    THEN [mem |-> mem, cache |-> cache, slice |-> cache]
    ELSE [mem |-> [mem EXCEPT ![NewArray] = file], cache |-> Fresh(file),
          slice |-> Fresh(file)]

(* The call with what it is about to write: the file without the group, or  *)
(* with the entries that the slice has now.                                 *)
Marshalled(c) ==
  IF call[c].pc = "emptied"
    THEN [call[c] EXCEPT !.pc = "dropping"]
    ELSE [call[c] EXCEPT !.pc = "writing", !.data = Content(mem, call[c].slice), !.slice = Nil]

(* Mutant: the cache is left as it was. *)
SaveToFile(c) ==
  /\ lock = none
  /\ call[c].pc \in {"emptied", "changed"}
  /\ IF file = torn
       THEN /\ call' = [call EXCEPT ![c] = Idle]
            /\ damaged' = "yes"
            /\ UNCHANGED <<file, lock>>
       ELSE /\ file' = <<>>
            /\ lock' = c
            /\ call' = [call EXCEPT ![c] = Marshalled(c)]
            /\ UNCHANGED damaged
  /\ UNCHANGED <<mem, cache, expected, mixed>>

(* Save, and Delete of a group that has become empty, up to the truncation  *)
(* of the file by WriteFile: the cache is changed first, and stays changed  *)
(* if the file cannot be parsed.                                            *)
Save(c) ==
  /\ lock = none
  /\ call[c].pc \in {"emptied", "changed"}
  /\ cache' = IF call[c].pc = "emptied" THEN Nil ELSE call[c].slice
  /\ IF file = torn
       THEN /\ call' = [call EXCEPT ![c] = Idle]
            /\ damaged' = "yes"
            /\ UNCHANGED <<file, lock>>
       ELSE /\ file' = <<>>
            /\ lock' = c
            /\ call' = [call EXCEPT ![c] = Marshalled(c)]
            /\ UNCHANGED damaged
  /\ mem' = Collect(mem, cache', call')
  /\ UNCHANGED <<expected, mixed>>

(* The write succeeds; Delete of the group is followed by Save. *)
Written(c) ==
  /\ lock = c
  /\ file' = call[c].data
  /\ lock' = none
  /\ damaged' = "no"
  /\ call' = [call EXCEPT ![c] = IF @.pc = "dropping"
                                   THEN [@ EXCEPT !.pc = "changed"] ELSE Idle]
  /\ mem' = Collect(mem, cache, call')
  /\ UNCHANGED <<cache, expected, mixed>>

(* The write fails, with nothing or a part of the data in the file. *)
WriteFails(c) ==
  /\ lock = c
  /\ file' \in {<<>>, torn}
  /\ lock' = none
  /\ damaged' = "yes"
  /\ call' = [call EXCEPT ![c] = Idle]
  /\ mem' = Collect(mem, cache, call')
  /\ UNCHANGED <<cache, expected, mixed>>

Busy(c) == call[c].pc # "idle"

(* LoadAll, and Load of a group that is not cached, parse the whole file    *)
(* into the cache, as new slices, whoever works on the old ones.            *)
LoadAll ==
  /\ lock = none
  /\ file \notin {<<>>, torn}
  /\ cache' = Fresh(file)
  /\ mem' = Collect([mem EXCEPT ![NewArray] = file], cache', call)
  /\ IF \E c \in Callers : Busy(c)
       THEN mixed' = "yes" /\ expected' = Unknown
       ELSE UNCHANGED <<expected, mixed>>
  /\ UNCHANGED <<file, lock, call, damaged>>

-----------------------------------------------------------------------------
(* The repository. *)

(* Calls that change the length of the group lose writes, or cause them to  *)
(* be lost, when they overlap others.                                       *)
Overlaps(c, op) ==
  \E d \in Callers \ {c} : Busy(d) /\ (op # "update" \/ call[d].op # "update")

(* Nothing is expected of calls that overlap so. *)
Expect(s, v) == IF mixed = "yes" THEN expected ELSE [expected EXCEPT ![s] = v]

(* A call reads the group.  With nobody else about, what it finds there is  *)
(* what is expected from then on.                                           *)
Read(c, op, e) ==
  /\ CanLoad
  /\ cache' = Load.cache
  /\ call' = [call EXCEPT ![c] = [Idle EXCEPT !.pc = "loaded", !.op = op, !.entry = e,
                                              !.slice = Load.slice]]
  /\ mem' = Collect(Load.mem, cache', call')
  /\ LET alone == \A d \in Callers \ {c} : ~ Busy(d)
     IN  /\ mixed' = IF Overlaps(c, op) THEN "yes" ELSE IF alone THEN "no" ELSE mixed
         /\ expected' = IF Overlaps(c, op) THEN Unknown
                        ELSE IF alone /\ mixed = "yes"
                               THEN ValuesOf(Content(Load.mem, Load.slice)) ELSE expected
  /\ UNCHANGED <<file, lock, damaged>>

Begin(c, op, e) == ~ Busy(c) /\ Read(c, op, e)

Loaded(c) == Content(mem, call[c].slice)

Position(c) == Index(Loaded(c), call[c].entry.id)

(* Update finds the entry, Create finds none; Delete needs no index. *)
Find(c) ==
  /\ call[c].pc = "loaded"
  /\ call[c].op = "create" => Position(c) = 0
  /\ call' = [call EXCEPT ![c] =
       IF call[c].op = "update" /\ Position(c) = 0
         THEN Idle ELSE [call[c] EXCEPT !.pc = "found",
                                 !.idx = IF call[c].op = "update" THEN Position(c) ELSE 0]]
  /\ mem' = Collect(mem, cache, call')
  /\ UNCHANGED <<cache, file, lock, damaged, expected, mixed>>

(* Create of a service that is there goes on as Update, and reads again. *)
CreateUpdates(c) ==
  /\ call[c].pc = "loaded"
  /\ call[c].op = "create"
  /\ Position(c) # 0
  /\ Read(c, "update", call[c].entry)

(* group[idx] = *new, wherever the entry may be by now. *)
Update(c) ==
  /\ call[c].pc = "found"
  /\ call[c].op = "update"
  /\ mem' = [mem EXCEPT ![call[c].slice.arr][call[c].idx] = call[c].entry]
  /\ call' = [call EXCEPT ![c].pc = "changed", ![c].idx = 0]
  /\ expected' = Expect(call[c].entry.id, call[c].entry.val)
  /\ UNCHANGED <<cache, file, lock, damaged, mixed>>

(* append, in the array if it has room. *)
Create(c) ==
  LET s == call[c].slice
      new == call[c].entry
  IN  /\ call[c].pc = "found"
      /\ call[c].op = "create"
      /\ s.len < MaxEntries
      /\ \/ /\ s.arr # none
            /\ mem' = [mem EXCEPT ![s.arr] =
                         IF s.len < Len(@) THEN [@ EXCEPT ![s.len + 1] = new]
                                           ELSE Append(@, new)]
            /\ call' = [call EXCEPT ![c].pc = "changed", ![c].slice.len = @ + 1]
         \/ /\ s.len = Len(Array(mem, s))
            /\ call' = [call EXCEPT ![c].pc = "changed",
                                    ![c].slice = Fresh(Append(Loaded(c), new))]
            /\ mem' = Collect([mem EXCEPT ![NewArray] = Append(Loaded(c), new)], cache, call')
      /\ expected' = Expect(new.id, new.val)
      /\ UNCHANGED <<cache, file, lock, damaged, mixed>>

(* slices.DeleteFunc moves what is kept to the front of the array and       *)
(* clears the rest of it.                                                   *)
Delete(c) ==
  LET s == call[c].slice
      kept == Kept(Loaded(c), call[c].entry.id)
  IN  /\ call[c].pc = "found"
      /\ call[c].op = "delete"
      /\ mem' = IF s.arr = none THEN mem
                ELSE [mem EXCEPT ![s.arr] =
                        [i \in DOMAIN @ |-> IF i <= Len(kept) THEN kept[i]
                                            ELSE IF i <= s.len THEN Zero ELSE @[i]]]
      /\ call' = [call EXCEPT ![c].pc = IF kept = <<>> THEN "emptied" ELSE "changed",
                              ![c].slice.len = Len(kept)]
      /\ expected' = Expect(call[c].entry.id, none)
      /\ UNCHANGED <<cache, file, lock, damaged, mixed>>

-----------------------------------------------------------------------------
(* The process ends anywhere, and starts again with an empty cache. *)
Crash ==
  /\ mem' = NoMemory
  /\ cache' = Nil
  /\ file' \in IF lock = none THEN {file} ELSE {<<>>, torn, call[lock].data}
  /\ lock' = none
  /\ call' = [c \in Callers |-> Idle]
  /\ damaged' = IF file' = torn THEN "yes" ELSE "no"
  /\ expected' = IF file' = torn THEN expected ELSE ValuesOf(file')
  /\ mixed' = "no"

Next ==
  \/ \E s \in Services, v \in Values :
       \/ Begin(manager, "create", [id |-> s, val |-> v])
       \/ \E c \in Callers : Begin(c, "update", [id |-> s, val |-> v])
  \/ \E s \in Services : Begin(manager, "delete", [id |-> s, val |-> none])
  \/ \E c \in Callers :
       \/ Find(c) \/ CreateUpdates(c)
       \/ Update(c) \/ Create(c) \/ Delete(c)
       \/ Save(c) \/ Written(c) \/ WriteFails(c)
  \/ LoadAll
  \/ Crash

Spec == Init /\ [][Next]_vars

-----------------------------------------------------------------------------
(* A slice never reaches beyond its array, also when two callers and the    *)
(* cache have slices of different lengths of it.                            *)
SliceOK(s) == s \in Slice /\ s.len <= Len(Array(mem, s))

TypeOK ==
  /\ mem \in [Arrays -> Seq(Entry)]
  /\ SliceOK(cache)
  /\ file = torn \/ file \in Seq(Entry)
  /\ lock \in Callers \cup {none}
  /\ \A c \in Callers :
       /\ SliceOK(call[c].slice)
       /\ call[c].pc \in {"idle", "loaded", "found", "emptied", "changed", "dropping", "writing"}
       /\ call[c].idx <= call[c].slice.len
       /\ lock = c <=> call[c].pc \in {"dropping", "writing"}
  /\ damaged \in {"yes", "no"}
  /\ expected \in [Services -> Values \cup {none}]
  /\ mixed \in {"yes", "no"}

(* When no call is in progress, what Load returns from the cache is what    *)
(* the file holds, in every order of loads, changes in place, saves and     *)
(* reloads; only a write that failed may leave them different.              *)
CacheIsFile ==
  /\ TypeOK
  /\ (\A c \in Callers : ~ Busy(c)) /\ damaged = "no" /\ cache # Nil
       => Content(mem, cache) = file

(* A call that has returned is in the file with what it wrote of its        *)
(* service, although it read, changed and saved the group under no common   *)
(* lock: updates that overlap, of one service or of two, do not lose each   *)
(* other, since they change the same array.  It needs that no call changed  *)
(* the length of the group meanwhile and that no read replaced the array.   *)
SavedIsDurable ==
  lock = none /\ damaged = "no" /\ mixed = "no" =>
    \A s \in Services :
      (\A c \in Callers : call[c].entry.id = s => call[c].pc \notin {"changed", "emptied"})
        => ValuesOf(file)[s] = expected[s]

=============================================================================
