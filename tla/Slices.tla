------------------------------- MODULE Slices -------------------------------
(***************************************************************************)
(* What the repository's Delete (internal/repositories/service) does to    *)
(* the entries of a group, for RepoStore and Overrides.                    *)
(***************************************************************************)
EXTENDS Naturals, Sequences, FiniteSets

CONSTANT Services

(* slices.DeleteFunc by ID: the entries of the other services, in order. *)
Kept(es, s) ==
  LET others == {i \in DOMAIN es : es[i].id # s}
      at == CHOOSE f \in [1 .. Cardinality(others) -> others] :
              \A i, j \in DOMAIN f : i < j => f[i] < f[j]
  IN  [i \in DOMAIN at |-> es[at[i]]]

=============================================================================
