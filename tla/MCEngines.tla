----------------------------- MODULE MCEngines ------------------------------
(* The packet engines for TLC: the IKEv2 engine, its inbound ESP window or    *)
(* the WireGuard engine runs, and the other two stay in their initial state.  *)
EXTENDS Ikev2Engine, EspInbound, WireguardEngine

CONSTANTS p1, p2, p3

VARIABLE part

MCOwner == [k \in {p1, p2, p3} |-> IF k = p3 THEN "b" ELSE "a"]

allVars == <<vars, espVars, wgVars, part>>

MCInit ==
    /\ part \in {"ikev2", "esp", "wireguard"}
    /\ Init /\ EspInit /\ WgInit
    /\ part # "wireguard" => devices = [k \in PublicKeys |-> NoPeer]

MCNext ==
    /\ UNCHANGED part
    /\ \/ part = "ikev2" /\ Next /\ UNCHANGED <<espVars, wgVars>>
       \/ part = "esp" /\ EspNext /\ UNCHANGED <<vars, wgVars>>
       \/ part = "wireguard" /\ WgNext /\ UNCHANGED <<vars, espVars>>

MCSpec == MCInit /\ [][MCNext]_allVars /\ Fairness /\ WgFairness
=============================================================================
