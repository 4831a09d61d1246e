---------------------------- MODULE MCRepoStore ----------------------------
(***************************************************************************)
(* RepoStore with interchangeable services, interchangeable values and,    *)
(* by the view, interchangeable arrays: who holds which array is kept as   *)
(* the contents of each holder's array and as who shares one.              *)
(***************************************************************************)
EXTENDS RepoStore

Symmetry == Permutations(Services) \cup Permutations(Values)

View ==
  LET held == [c \in Callers |-> call[c].slice]
  IN  <<Array(mem, cache), cache.len, cache = Nil,
        [c \in Callers |-> <<Array(mem, held[c]), held[c].arr = none, held[c].arr = cache.arr,
                             {d \in Callers : held[d].arr = held[c].arr},
                             [call[c] EXCEPT !.slice.arr = none]>>],
        file, lock, damaged, expected, mixed>>

=============================================================================
