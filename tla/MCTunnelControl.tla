--------------------------- MODULE MCTunnelControl ---------------------------
(* Instances of TunnelControl for TLC.                                       *)
EXTENDS TunnelControl, TLC

CONSTANTS d1, d2, v1, v2, a1, a2

MCDevices1 == {d1}
MCDevices2 == {d1, d2}
MCVals == {v1, v2}
MCAdmins1 == {a1}
MCAdmins2 == {a1, a2}
MCSymmetry == Permutations(MCVals) \cup Permutations(MCAdmins2)
=============================================================================
