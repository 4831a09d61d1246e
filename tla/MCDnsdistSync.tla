--------------------------- MODULE MCDnsdistSync ---------------------------
(* DnsdistSync for TLC and for the proofs: one name for each question asked *)
(* of the updater.                                                          *)

CONSTANTS Servers, Untracked, Names, Hidden, IPs, none

VARIABLES flagged, rules, down, calls, todo, job, quiet, round

D == INSTANCE DnsdistSync

ASSUME SyncAssumption == D!ConstantsOK

SyncSpec == D!Spec

(* A synchronisation that nothing disturbs leaves every server it reached   *)
(* with the names flagged in the repository (synchronizeServers).           *)
RoundRepairs == D!RoundRepairs

(* After any failures, restarts and stale repairs, the names published by a *)
(* server that answers become, and stay, those flagged in the repository.   *)
NamesConverge == D!NamesConverge

=============================================================================
