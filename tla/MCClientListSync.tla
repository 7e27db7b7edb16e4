-------------------------- MODULE MCClientListSync --------------------------
(***************************************************************************)
(* ClientListSync for TLC, with the addresses of MCNetworkState.           *)
(***************************************************************************)
EXTENDS ClientListSync, TLC

CONSTANTS Hosts   \* number of assignable addresses

MCIps == 1 .. Hosts + 1
MCUsable == 2 .. Hosts + 1

Symmetry == Permutations(Devices) \cup Permutations(Sessions)
=============================================================================
