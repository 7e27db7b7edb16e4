------------------------------ MODULE LeaseBook ------------------------------
(***************************************************************************)
(* What a virtual network promises about its addresses, without saying how *)
(* it keeps track of them: every device has at most one assigned address   *)
(* and is live on at most one address, and an address is taken only while  *)
(* it is nobody else's.  So an address never passes from one device to     *)
(* another in one step: its former owner has given it up before.           *)
(*                                                                         *)
(* NetworkState keeps this book in device_map, device_ip_map and           *)
(* active_ip_map, and implements this specification.                       *)
(***************************************************************************)
CONSTANTS
    Devices,
    Ips,
    Usable,     \* the addresses a device may have
    None

VARIABLES
    assigned,   \* device -> its address, or None
    live        \* device -> the address it is reachable at, or None

bookVars == <<assigned, live>>

\* No other device is assigned `ip` or live on it.
Available(ip, d) == \A e \in Devices \ {d} : assigned[e] # ip /\ live[e] # ip

BookInit ==
    /\ assigned = [d \in Devices |-> None]
    /\ live = [d \in Devices |-> None]

\* A device is given an address and becomes live on it.
Take(d, ip) ==
    /\ ip \in Usable /\ Available(ip, d)
    /\ assigned' = [assigned EXCEPT ![d] = ip]
    /\ live' = [live EXCEPT ![d] = ip]

\* A device is given an address, and stays live where it is.
Assign(d, ip) ==
    /\ ip \in Usable /\ Available(ip, d)
    /\ assigned' = [assigned EXCEPT ![d] = ip]
    /\ UNCHANGED live

Leave(d) ==
    /\ live' = [live EXCEPT ![d] = None]
    /\ UNCHANGED assigned

\* Devices give up their addresses; one that is removed is not live any more either.
Forget(S) ==
    /\ assigned' = [d \in Devices |-> IF d \in S THEN None ELSE assigned[d]]
    /\ UNCHANGED live

Remove(d) ==
    /\ assigned' = [assigned EXCEPT ![d] = None]
    /\ live' = [live EXCEPT ![d] = None]

BookNext ==
    \/ \E d \in Devices, ip \in Ips : Take(d, ip) \/ Assign(d, ip)
    \/ \E d \in Devices : Leave(d) \/ Remove(d)
    \/ \E S \in SUBSET Devices : Forget(S)

BookSpec == BookInit /\ [][BookNext]_bookVars
=============================================================================
