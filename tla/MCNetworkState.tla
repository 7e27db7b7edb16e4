--------------------------- MODULE MCNetworkState ---------------------------
(***************************************************************************)
(* NetworkState for TLC.  Addresses are small integers, since the server   *)
(* assigns the lowest free one; 1 stands for the gateway.                  *)
(***************************************************************************)
EXTENDS NetworkState, TLC

CONSTANTS Hosts   \* number of assignable addresses

MCIps == 1 .. Hosts + 1
MCUsable == 2 .. Hosts + 1

\* full_sync_version and the per-entry data_version are written but never read
\* by the actions or properties of NetworkState (only the device lists read
\* them), so states that differ in nothing else are one state here.
LeaseView ==
    <<[d \in Devices |-> [device_map[d] EXCEPT !.data_version = 0]],
      device_ip_map, active_ip_map, data_version, sender_map, links,
      traffic_stats_map, session, admin.device,
      [admin.previous EXCEPT !.data_version = 0], managed>>

Symmetry == Permutations(Devices) \cup Permutations(Sessions) \cup Permutations(Instances)
=============================================================================
