---------------------------- MODULE MCPeerServer ----------------------------
(***************************************************************************)
(* PeerServer for TLC.                                                     *)
(***************************************************************************)
EXTENDS PeerServer, TLC

CONSTANTS a1, a2, l1, l2, l3, t1, t2, t3, m1, m2, n1, n2, p1, p2

MCSymmetry == Permutations(Links) \cup Permutations(Tasks) \cup Permutations(Admins)
                \cup Permutations(Nets)
=============================================================================
