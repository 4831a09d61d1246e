---------------------------- MODULE MCOverrides ----------------------------
(* Overrides for TLC and for the proofs: one name for each question asked   *)
(* of the entries of a group.                                               *)
EXTENDS Slices, TLC

CONSTANTS IPs, nil

VARIABLES store, members, holder, req, stage, last, left, calm

O == INSTANCE Overrides

ASSUME OverridesAssumption == O!ConstantsOK

OverridesSpec == O!Spec

Symmetry == Permutations(Services) \cup Permutations(IPs)

(* While the operator runs and nothing has happened that the flags do not   *)
(* survive, of the registered services only the holder of the role has an   *)
(* active entry, and one that says it is overridden has the address of a    *)
(* request (Create, Update, UpdateOverride, handlePromotion, OnShutdown).   *)
OneActive == O!OneActive

(* While the role stays where it is, what happens to the other services,    *)
(* and registrations and removals, take no override away (HasOverride in    *)
(* Create, Update and Delete).                                              *)
OthersLeaveOverride == O!OthersLeaveOverride

=============================================================================
