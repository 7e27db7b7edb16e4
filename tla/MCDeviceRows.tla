---------------------------- MODULE MCDeviceRows ----------------------------
(***************************************************************************)
(* DeviceRows for TLC.  Addresses are small integers as in MCNetworkState; *)
(* the versions of entries and lists are read by nothing here but their    *)
(* bound.                                                                  *)
(***************************************************************************)
EXTENDS DeviceRows, TLC

CONSTANTS Hosts   \* number of assignable addresses

MCIps == 1 .. Hosts + 1
MCUsable == 2 .. Hosts + 1

Symmetry == Permutations(Devices) \cup Permutations(Sessions)

RowsView ==
    <<[d \in Devices |-> [device_map[d] EXCEPT !.data_version = 0]],
      device_ip_map, active_ip_map, data_version, sender_map, links,
      traffic_stats_map, session, admin.device,
      [admin.previous EXCEPT !.data_version = 0], managed,
      rows, configs, holding, writes, behind, restored, faults>>
=============================================================================
