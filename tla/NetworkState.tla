---------------------------- MODULE NetworkState ----------------------------
(***************************************************************************)
(* One virtual network of the relay server: its address leases, the link   *)
(* pools through which packets reach a device, the sessions that registered*)
(* those links, and the administrator's device edits.                      *)
(*                                                                         *)
(* Source: server/network_state_provider.rs (struct NetworkState) together *)
(* with the parts of server/control_server/service.rs and handler.rs that  *)
(* call it: register_inner, fast_register, handle_confirm_reg, Drop for    *)
(* Session, upsert_device, delete_device, release_expired_ips.             *)
(*                                                                         *)
(* A step of this module is one critical section of the `lease_state`      *)
(* mutex, or one access to the concurrent maps that the code makes outside *)
(* of it.  The per-network `device_mutation_locks` entry, which the code   *)
(* holds across awaits, is held exactly while `admin` is not NoAdmin.      *)
(***************************************************************************)
EXTENDS Integers, FiniteSets

CONSTANTS
    Devices,      \* device ids
    Sessions,     \* random_id values; each is drawn by at most one registration
    Instances,    \* non-empty client_instance_id values
    Ips,          \* the IPv4 addresses a request may name
    Usable,       \* those a device may hold: not gateway, network or broadcast
    None,         \* Option::None, the empty client_instance_id, random_id 0
    NetworkType,  \* "Public" or "Private"
    RegModes,     \* registration modes clients use
    ClientTypes,  \* kinds of device that occur
    IpTypes,      \* kinds of address the administrator assigns
    Events,       \* which of the operations outside registration occur
    MaxVersion    \* bound on data_version for the operations clients start

AllEvents == {"upsert", "save_fails", "delete", "expire", "metadata",
              "disconnect_subscription", "managed_rollback"}

ASSUME NetworkAssumption ==
    /\ Ips \subseteq Int
    /\ Usable \subseteq Ips
    /\ None \notin Devices \cup Sessions \cup Instances \cup Ips
    /\ NetworkType \in {"Public", "Private"}
    /\ RegModes \subseteq {"Normal", "PreRegister"}
    /\ ClientTypes \subseteq {"Vnt", "Ikev2", "Wireguard"}
    /\ IpTypes \subseteq {"Dynamic", "Static", "Fixed"}
    /\ Events \subseteq AllEvents
    /\ MaxVersion \in Nat

VARIABLES
    device_map,         \* device id -> DeviceEntry, or NoEntry
    device_ip_map,      \* address -> the device it is configured for
    active_ip_map,      \* address -> the device whose session is live on it
    data_version,       \* version of the device list
    full_sync_version,  \* last change a delta cannot express
    sender_map,         \* address -> the pool packets for it are sent to
    links,              \* pool -> random_ids of its links
    traffic_stats_map,  \* address -> the device its bytes are credited to
    session,            \* the Session values, by random_id
    admin,              \* the device edit that holds the mutation lock
    managed             \* the managed-config edit that may still roll back

leaseVars == <<device_map, device_ip_map, active_ip_map>>
versionVars == <<data_version, full_sync_version>>
poolVars == <<sender_map, links, traffic_stats_map>>
vars == <<device_map, device_ip_map, active_ip_map, data_version,
          full_sync_version, sender_map, links, traffic_stats_map, session,
          admin, managed>>

-----------------------------------------------------------------------------
(* Data.  A pool (Arc<Mutex<DeviceSenderInner>>) is named by the random_id  *)
(* of the session that created it, so pointer equality is equality of names *)
(* and its client_instance_id is that session's.                            *)

NoEntry == [ip |-> None, ip_type |-> "Dynamic", client_type |-> "Vnt",
            random_id |-> None, is_connected |-> FALSE, data_version |-> 0,
            subnet_active |-> FALSE, present |-> FALSE]

DeviceEntry ==
    [ip : Ips \cup {None}, ip_type : {"Dynamic", "Static", "Fixed"},
     client_type : {"Vnt", "Ikev2", "Wireguard"},
     random_id : Sessions \cup {None}, is_connected : BOOLEAN,
     data_version : Nat, subnet_active : BOOLEAN, present : BOOLEAN]

NoSession == [phase |-> "none", device |-> None, inst |-> None, ip |-> None,
              client_type |-> "Vnt", pool |-> None]

\* "pending" and "confirmed" are the two registration_status values of a live
\* session; "leaving" and "draining" are a drop inside offline_ip, before and after
\* remove_link; "releasing" is a drop between the two halves of release_pre_registered_ip.
Session ==
    [phase : {"none", "pending", "confirmed", "leaving", "draining", "releasing",
              "gone"},
     device : Devices \cup {None}, inst : Instances \cup {None},
     ip : Ips \cup {None}, client_type : {"Vnt", "Ikev2", "Wireguard"},
     pool : Sessions \cup {None}]

NoAdmin == [device |-> None, previous |-> NoEntry]
NoManaged == [device |-> None, ip |-> None, ip_type |-> "Dynamic",
              updated |-> FALSE]

Has(d) == device_map[d].present
Live(s) == session[s].phase \in {"pending", "confirmed"}
LockFree == admin = NoAdmin
Releasing == {session[s].ip : s \in {t \in Sessions : session[t].phase = "releasing"}}

same_instance(p, i) == i # None /\ session[p].inst = i
owns_link(p, i, s) == session[p].inst = i /\ s \in links[p]

conflicting_configured_owner(ip, d) ==   \* mutant: live sessions do not reserve
    device_ip_map[ip] \notin {None, d}

conflicting_ip_owner(ip, d) ==
    \/ device_ip_map[ip] \notin {None, d}
    \/ active_ip_map[ip] \notin {None, d}

FreeOfConfigured ==   \* mutant: an address somebody is still live on counts as free
    {ip \in Usable : device_ip_map[ip] = None}
Free == {ip \in Usable : device_ip_map[ip] = None /\ active_ip_map[ip] = None}
find_available_ip(ip) == ip \in Free /\ \A j \in Free : ip <= j

\* A session that has ended keeps only what names its pool.
Closed(s) == [session[s] EXCEPT !.phase = "gone", !.ip = None, !.pool = None]
-----------------------------------------------------------------------------
(* Registration: register_inner and allocate_ip_and_get_entry_as.           *)

\* A Fixed address is the server's; otherwise the request's, or the recorded one.
ExpectIp(d, r) ==
    IF device_map[d].ip_type = "Fixed" \/ r = None THEN device_map[d].ip ELSE r

\* The checks of register_inner before it touches the leases.  A tunnel engine
\* registers an address it read before it got the mutation lock, with no
\* instance id; its devices are created by the administrator.
MayRegister(s, d, ct, i, r, var, mode) ==
    /\ LockFree
    /\ session[s].phase = "none"
    /\ data_version < MaxVersion
    /\ Has(d) => device_map[d].client_type = ct
    /\ ct = "Vnt" => Has(d) \/ NetworkType = "Public"
    /\ ct # "Vnt" => /\ Has(d)
                     /\ i = None /\ r \in Usable /\ ~var /\ mode = "Normal"

Opened(d, ct, i, ip, mode) ==
    [phase |-> IF mode = "Normal" THEN "confirmed" ELSE "pending",
     device |-> d, inst |-> i, ip |-> ip, client_type |-> ct, pool |-> None]

\* The request names the recorded address and a pool of the same client
\* instance is published there: the link is added and nothing else changes.
Joinable(d, i, r) ==
    /\ Has(d) /\ r # None /\ r = device_map[d].ip
    /\ sender_map[r] # None /\ same_instance(sender_map[r], i)

JoinPool(s, d, ct, i, r, mode) ==
    /\ Joinable(d, i, r)
    /\ links' = [links EXCEPT ![sender_map[r]] = @ \cup {s}]
    /\ session' = [session EXCEPT ![s] = Opened(d, ct, i, r, mode)]
    /\ UNCHANGED <<leaseVars, versionVars, sender_map, traffic_stats_map,
                   admin, managed>>

Connected(s, d, ct, ip, mode) ==
    [device_map[d] EXCEPT !.ip = ip, !.client_type = ct, !.random_id = s,
                          !.is_connected = TRUE,
                          !.data_version = data_version + 1,
                          !.subnet_active = (mode = "Normal"),
                          !.present = TRUE]

\* When d takes `ip`: the addresses whose lease it loses, and those whose pool
\* and statistics go.
StaleKept(d, ip, j) == FALSE   \* mutant: the device's other leases stay
Stale(d, ip, j) == j # ip /\ active_ip_map[j] = d

UnpublishedOld(d, ip, j) ==   \* mutant: only the recorded address is cleaned up
    j # ip /\ j = device_map[d].ip

Unpublished(d, ip, j) == j # ip /\ (j = device_map[d].ip \/ Stale(d, ip, j))

\* What every successful allocation of `ip` does besides device_ip_map: the
\* device's former address and its other live addresses lose pool and
\* statistics, and a new pool with the one link is published at `ip`.
Publish(s, d, ct, i, ip, mode) ==
    /\ device_map' = [device_map EXCEPT ![d] = Connected(s, d, ct, ip, mode)]
    /\ data_version' = data_version + 1
    /\ full_sync_version' =
         IF device_map[d].ip \notin {None, ip} \/ (\E j \in Ips : Stale(d, ip, j))
         THEN data_version + 1 ELSE full_sync_version
    /\ active_ip_map' = [j \in Ips |-> IF j = ip THEN d
                                       ELSE IF Stale(d, ip, j) THEN None
                                       ELSE active_ip_map[j]]
    /\ sender_map' = [j \in Ips |-> IF j = ip THEN s
                                    ELSE IF Unpublished(d, ip, j) THEN None
                                    ELSE sender_map[j]]
    /\ traffic_stats_map' = [j \in Ips |-> IF j = ip THEN d
                                           ELSE IF Unpublished(d, ip, j) THEN None
                                           ELSE traffic_stats_map[j]]
    /\ links' = [links EXCEPT ![s] = {s}]
    /\ session' = [session EXCEPT ![s] = Opened(d, ct, i, ip, mode)]
    /\ UNCHANGED <<admin, managed>>

Configure(d, ip) ==
    device_ip_map' = [j \in Ips |-> IF j = ip THEN d
                                    ELSE IF j = device_map[d].ip THEN None
                                    ELSE device_ip_map[j]]

\* The device returns to the address it is recorded with.
Reclaim(s, d, ct, i, r, mode) ==
    LET ip == device_map[d].ip
    IN  /\ ~Joinable(d, i, r)
        /\ ip # None /\ ExpectIp(d, r) = ip
        /\ ~conflicting_ip_owner(ip, d)
        /\ Publish(s, d, ct, i, ip, mode)
        /\ UNCHANGED device_ip_map

\* The same, but the conflict is found only after the entry was updated: the
\* error leaves the device marked connected with no session.
ReclaimFails(s, d, ct, i, r, mode) ==
    LET ip == device_map[d].ip
    IN  /\ ~Joinable(d, i, r)
        /\ ip # None /\ ExpectIp(d, r) = ip
        /\ conflicting_ip_owner(ip, d)
        /\ device_map' = [device_map EXCEPT ![d] = Connected(s, d, ct, ip, mode)]
        /\ data_version' = data_version + 1
        /\ session' = [session EXCEPT
                         ![s] = [NoSession EXCEPT !.phase = "gone", !.device = d,
                                                  !.inst = i]]
        /\ UNCHANGED <<device_ip_map, active_ip_map, full_sync_version,
                       poolVars, admin, managed>>

\* The requested address is usable and nobody else's.
TakeExpected(s, d, ct, i, r, mode) ==
    LET ip == ExpectIp(d, r)
    IN  /\ ip \notin {None, device_map[d].ip}
        /\ ip \in Usable /\ ~conflicting_ip_owner(ip, d)
        /\ Publish(s, d, ct, i, ip, mode)
        /\ Configure(d, ip)

\* No address is asked for, or the one asked for cannot be had and the client
\* accepts another (ip_variable): the lowest free address is assigned.
TakeAvailable(s, d, ct, i, r, var, mode) ==
    LET want == ExpectIp(d, r)
    IN  /\ device_map[d].ip_type # "Fixed"
        /\ \/ want = None
           \/ /\ want # device_map[d].ip /\ var
              /\ want \notin Usable \/ conflicting_ip_owner(want, d)
        /\ \E ip \in Ips : /\ find_available_ip(ip)
                           /\ Publish(s, d, ct, i, ip, mode)
                           /\ Configure(d, ip)

Register(s, d, ct, i, r, var, mode) ==
    /\ MayRegister(s, d, ct, i, r, var, mode)
    /\ \/ JoinPool(s, d, ct, i, r, mode)
       \/ Reclaim(s, d, ct, i, r, mode)
       \/ ReclaimFails(s, d, ct, i, r, mode)
       \/ TakeExpected(s, d, ct, i, r, mode)
       \/ TakeAvailable(s, d, ct, i, r, var, mode)

\* handle_confirm_reg: the second phase of a PreRegister registration.
ConfirmRegistration(s) ==
    LET d == session[s].device
        activates == Has(d) /\ ~device_map[d].subnet_active
    IN  /\ session[s].phase = "pending"
        /\ session' = [session EXCEPT ![s].phase = "confirmed"]
        /\ device_map' = IF activates
                         THEN [device_map EXCEPT ![d].subnet_active = TRUE,
                                                 ![d].data_version = data_version + 1]
                         ELSE device_map
        /\ data_version' = IF activates THEN data_version + 1 ELSE data_version
        /\ UNCHANGED <<device_ip_map, active_ip_map, full_sync_version, poolVars,
                       admin, managed>>
-----------------------------------------------------------------------------
(* A confirmed VNT session moves itself to another address: fast_register.  *)

FastCaller(s) ==
    /\ LockFree
    /\ session[s].phase = "confirmed" /\ session[s].client_type = "Vnt"
    /\ Has(session[s].device) /\ device_map[session[s].device].is_connected

\* Another link of the same pool made the move already.
FastRegisterAgain(s, new) ==
    /\ FastCaller(s)
    /\ sender_map[new] # None
    /\ owns_link(sender_map[new], session[s].inst, s)
    /\ session[s].ip # new
    /\ session' = [session EXCEPT ![s].ip = new]
    /\ UNCHANGED <<leaseVars, versionVars, poolVars, admin, managed>>

FastRegisterMove(s, new) ==
    LET d == session[s].device
        old == session[s].ip
        entry == device_map[d]
    IN  /\ FastCaller(s)
        /\ data_version < MaxVersion
        /\ sender_map[new] # None => ~owns_link(sender_map[new], session[s].inst, s)
        /\ entry.ip_type = "Fixed" => entry.ip = new
        /\ new \in Usable /\ ~conflicting_ip_owner(new, d)
        /\ active_ip_map[old] = d
        /\ sender_map[old] # None /\ owns_link(sender_map[old], session[s].inst, s)
        /\ active_ip_map' = [j \in Ips |-> IF j = new THEN d
                                           ELSE IF j = old THEN None
                                           ELSE active_ip_map[j]]
        /\ data_version' = data_version + 1
        /\ full_sync_version' = IF old # new THEN data_version + 1 ELSE full_sync_version
        /\ IF entry.ip # new THEN Configure(d, new) ELSE UNCHANGED device_ip_map
        /\ device_map' = [device_map EXCEPT ![d].ip = new,
                                            ![d].data_version = data_version + 1]
        /\ sender_map' = [j \in Ips |-> IF j = new THEN sender_map[old]
                                        ELSE IF j = old THEN None
                                        ELSE sender_map[j]]
        /\ traffic_stats_map' =
             [j \in Ips |-> IF j = new /\ traffic_stats_map[old] # None
                            THEN traffic_stats_map[old]
                            ELSE IF j = old THEN None
                            ELSE traffic_stats_map[j]]
        /\ session' = [session EXCEPT ![s].ip = new]
        /\ UNCHANGED <<links, admin, managed>>

\* handle_data, for every packet of a link: active_link_ip looks for the pool that owns
\* the link, at the session's address first and then at any other, and the session
\* follows it there.  (A link no pool owns is closed, as it may be at any time.)
FollowPool(s, new) ==
    LET own == sender_map[session[s].ip]
    IN  /\ Live(s) /\ session[s].client_type = "Vnt"
        /\ own # None => ~owns_link(own, session[s].inst, s)
        /\ sender_map[new] # None /\ owns_link(sender_map[new], session[s].inst, s)
        /\ session' = [session EXCEPT ![s].ip = new]
        /\ UNCHANGED <<leaseVars, versionVars, poolVars, admin, managed>>
-----------------------------------------------------------------------------
(* A session ends: Drop for Session.                                        *)

\* remove_link: None unless the link is there, otherwise whether it was the last.
LastLinkBefore(p, s) == links[p] = {}   \* mutant: looked at before the removal
LastLink(p, s) == links[p] \ {s} = {}
Unlink(p, s) == links' = [links EXCEPT ![p] = @ \ {s}]

\* offline_ip of a confirmed session: the published pool is cloned, and then
\* the link removed from that pool, neither of them under lease_state.
OfflineLookup(s) ==
    LET p == sender_map[session[s].ip]
    IN  /\ session[s].phase = "confirmed"
        /\ session' = [session EXCEPT
             ![s] = IF p = None THEN Closed(s)
                    ELSE [session[s] EXCEPT !.phase = "leaving", !.pool = p]]
        /\ UNCHANGED <<leaseVars, versionVars, poolVars, admin, managed>>

RemoveLink(s) ==
    LET p == session[s].pool
    IN  /\ session[s].phase = "leaving"
        /\ IF owns_link(p, session[s].inst, s)
           THEN /\ Unlink(p, s)
                /\ session' = [session EXCEPT
                     ![s] = IF LastLink(p, s)
                            THEN [session[s] EXCEPT !.phase = "draining"]
                            ELSE Closed(s)]
           ELSE /\ session' = [session EXCEPT ![s] = Closed(s)]
                /\ UNCHANGED links
        /\ UNCHANGED <<leaseVars, versionVars, sender_map, traffic_stats_map,
                       admin, managed>>

DrainedAnywhere(ip, p) == links[p] = {}   \* mutant: no pointer comparison
PoolDrained(ip, p) == sender_map[ip] = p /\ links[p] = {}

\* finalize_offline under lease_state, once the pool was seen empty.
FinalizeOffline(s) ==
    LET d == session[s].device
        ip == session[s].ip
    IN  /\ session[s].phase = "draining"
        /\ session' = [session EXCEPT ![s] = Closed(s)]
        /\ IF PoolDrained(ip, session[s].pool) /\ Has(d)
           THEN /\ device_map' = [device_map EXCEPT
                     ![d].is_connected = FALSE, ![d].subnet_active = FALSE,
                     ![d].data_version = data_version + 1]
                /\ active_ip_map' = [active_ip_map EXCEPT ![ip] = None]
                /\ sender_map' = [sender_map EXCEPT ![ip] = None]
                /\ traffic_stats_map' = [traffic_stats_map EXCEPT ![ip] = None]
                /\ data_version' = data_version + 1
                /\ full_sync_version' = IF device_map[d].ip # ip THEN data_version + 1
                                        ELSE full_sync_version
           ELSE UNCHANGED <<device_map, active_ip_map, versionVars, sender_map,
                            traffic_stats_map>>
        /\ UNCHANGED <<device_ip_map, links, admin, managed>>

\* release_pre_registered_ip of a session that never confirmed: the part under
\* lease_state.  The maps outside it are cleared by ReleaseTail.
ReleasePreRegistered(s) ==
    LET d == session[s].device
        ip == session[s].ip
        p == sender_map[ip]
        linked == p # None /\ owns_link(p, session[s].inst, s)
        pool_drained == p = None \/ (linked /\ LastLink(p, s))
        should_remove == /\ pool_drained /\ Has(d)
                         /\ device_map[d].random_id = s /\ device_map[d].ip = ip
    IN  /\ session[s].phase = "pending"
        /\ IF linked THEN Unlink(p, s) ELSE UNCHANGED links
        /\ IF should_remove
           THEN /\ device_map' = [device_map EXCEPT ![d] = NoEntry]
                /\ device_ip_map' = [device_ip_map EXCEPT ![ip] = None]
                /\ active_ip_map' = [active_ip_map EXCEPT ![ip] = None]
                /\ data_version' = data_version + 1
                /\ full_sync_version' = data_version + 1
                /\ session' = [session EXCEPT ![s].phase = "releasing"]
           ELSE /\ session' = [session EXCEPT ![s] = Closed(s)]
                /\ UNCHANGED <<leaseVars, versionVars>>
        /\ UNCHANGED <<sender_map, traffic_stats_map, admin, managed>>

ReleaseTail(s) ==
    /\ session[s].phase = "releasing"
    /\ sender_map' = [sender_map EXCEPT ![session[s].ip] = None]
    /\ traffic_stats_map' = [traffic_stats_map EXCEPT ![session[s].ip] = None]
    /\ session' = [session EXCEPT ![s] = Closed(s)]
    /\ UNCHANGED <<leaseVars, versionVars, links, admin, managed>>
-----------------------------------------------------------------------------
(* The administrator's edits and the lease timer.                           *)

\* upsert_device up to its database write: Create of an absent device with its
\* type, or Update of a present one, which keeps it.  A WireGuard peer whose
\* address changes is disconnected first; of an IKEv2 device only established
\* sessions are, and one still in its EAP exchange has registered already.
\* `routes`: the WireGuard routes change.
UpsertDevice(d, ip, it, ct, routes) ==
    LET prev == device_map[d]
        live_route_change == prev.is_connected /\ ct = "Wireguard" /\ routes
        publish_now == ~prev.is_connected \/ live_route_change
        replaces_published_ip == ~prev.is_connected /\ prev.ip \notin {None, ip}
    IN  /\ "upsert" \in Events
        /\ LockFree /\ data_version < MaxVersion
        /\ ip \in Usable /\ ~conflicting_ip_owner(ip, d)
        /\ Has(d) => prev.client_type = ct
        /\ routes => ct = "Wireguard"
        /\ ct = "Wireguard" /\ prev.ip # ip =>
             \A s \in Sessions : session[s].device = d /\ session[s].client_type = ct =>
                                     session[s].phase \in {"none", "gone"}
        /\ device_map' = [device_map EXCEPT ![d] =
             [prev EXCEPT !.ip = ip, !.client_type = ct, !.present = TRUE,
                          !.ip_type = IF ct = "Wireguard" THEN "Static" ELSE it,
                          !.data_version = IF publish_now THEN data_version + 1 ELSE @]]
        /\ Configure(d, ip)
        /\ data_version' = IF publish_now THEN data_version + 1 ELSE data_version
        /\ full_sync_version' = IF replaces_published_ip \/ live_route_change
                                THEN data_version + 1 ELSE full_sync_version
        /\ admin' = [device |-> d, previous |-> prev]
        /\ managed' = IF managed.device = d THEN [managed EXCEPT !.updated = TRUE] ELSE managed
        /\ UNCHANGED <<active_ip_map, poolVars, session>>

\* The row is written and the mutation lock released.
UpsertSaved ==
    /\ ~LockFree
    /\ admin' = NoAdmin
    /\ UNCHANGED <<leaseVars, versionVars, poolVars, session, managed>>

restore_device_config(d, previous) ==
    /\ device_map' = [device_map EXCEPT ![d] = previous]
    /\ device_ip_map' = [j \in Ips |-> IF j = previous.ip THEN d
                                       ELSE IF j = device_map[d].ip THEN None
                                       ELSE device_ip_map[j]]
    /\ data_version' = data_version + 1
    /\ full_sync_version' = data_version + 1

\* The write fails: the entry read before the edit is put back as it was.
UpsertSaveFails ==
    /\ "save_fails" \in Events
    /\ ~LockFree
    /\ restore_device_config(admin.device, admin.previous)
    /\ admin' = NoAdmin
    /\ managed' = IF managed.device = admin.device THEN NoManaged ELSE managed
    /\ UNCHANGED <<active_ip_map, poolVars, session>>

DeleteDevice(d) ==
    LET lost(j) == active_ip_map[j] = d
    IN  /\ "delete" \in Events
        /\ LockFree /\ data_version < MaxVersion
        /\ Has(d) /\ ~device_map[d].is_connected
        /\ device_map' = [device_map EXCEPT ![d] = NoEntry]
        /\ device_ip_map' = [j \in Ips |-> IF j = device_map[d].ip THEN None
                                           ELSE device_ip_map[j]]
        /\ active_ip_map' = [j \in Ips |-> IF lost(j) THEN None ELSE active_ip_map[j]]
        /\ sender_map' = [j \in Ips |-> IF lost(j) THEN None ELSE sender_map[j]]
        /\ traffic_stats_map' = [j \in Ips |-> IF lost(j) THEN None
                                               ELSE traffic_stats_map[j]]
        /\ data_version' = data_version + 1
        /\ full_sync_version' = data_version + 1
        /\ UNCHANGED <<links, session, admin, managed>>

\* release_expired_ips: a set of lapsed leases is released at once.  What
\* was collected is still offline when it is released: coming back needs the
\* mutation lock, which is held over both.
ReleaseExpired(S) ==
    LET freed == {device_map[d].ip : d \in S} \ {None}
    IN  /\ "expire" \in Events
        /\ LockFree /\ data_version < MaxVersion
        /\ S # {}
        /\ \A d \in S : /\ Has(d) /\ ~device_map[d].is_connected
                        /\ device_map[d].ip_type = "Dynamic"
        /\ device_map' = [d \in Devices |->
             IF d \in S
             THEN [device_map[d] EXCEPT !.ip = None, !.data_version = data_version + 1]
             ELSE device_map[d]]
        /\ device_ip_map' = [j \in Ips |-> IF j \in freed THEN None ELSE device_ip_map[j]]
        /\ data_version' = data_version + 1
        /\ full_sync_version' = IF freed # {} THEN data_version + 1 ELSE full_sync_version
        /\ UNCHANGED <<active_ip_map, poolVars, session, admin, managed>>

\* acknowledge_managed_config reporting new runtime metadata.
UpdateRuntimeMetadata(d) ==
    /\ "metadata" \in Events
    /\ LockFree /\ data_version < MaxVersion
    /\ Has(d) /\ device_map[d].is_connected /\ device_map[d].client_type = "Vnt"
    /\ device_map' = [device_map EXCEPT ![d].data_version = data_version + 1]
    /\ data_version' = data_version + 1
    /\ UNCHANGED <<device_ip_map, active_ip_map, full_sync_version, poolVars,
                   session, admin, managed>>

\* disconnect_subscription_session: the pool at the address recorded in the
\* subscription is unpublished, under no lock and whoever it belongs to.
DisconnectSubscription(ip) ==
    /\ "disconnect_subscription" \in Events
    /\ sender_map[ip] # None
    /\ sender_map' = [sender_map EXCEPT ![ip] = None]
    /\ UNCHANGED <<leaseVars, versionVars, links, traffic_stats_map, session,
                   admin, managed>>

\* put_managed_device_config: the device record is read, the device edited by
\* an upsert of its own, and the managed row written.  When that last write
\* fails the record read at the start is restored, unvalidated and offline.
\* (`updated`: the edit began; one whose own write fails rolls nothing back.)
ManagedSnapshot(d) ==
    /\ "managed_rollback" \in Events /\ data_version < MaxVersion
    /\ managed = NoManaged
    /\ Has(d) /\ device_map[d].client_type = "Vnt"
    /\ managed' = [device |-> d, ip |-> device_map[d].ip,
                   ip_type |-> device_map[d].ip_type, updated |-> FALSE]
    /\ UNCHANGED <<leaseVars, versionVars, poolVars, session, admin>>

ManagedCommit ==
    /\ managed # NoManaged
    /\ managed' = NoManaged
    /\ UNCHANGED <<leaseVars, versionVars, poolVars, session, admin>>

ManagedRollback ==
    /\ LockFree
    /\ managed.updated
    /\ restore_device_config(managed.device,
           [NoEntry EXCEPT !.ip = managed.ip, !.ip_type = managed.ip_type,
                           !.present = TRUE])
    /\ managed' = NoManaged
    /\ UNCHANGED <<active_ip_map, poolVars, session, admin>>
-----------------------------------------------------------------------------
Init ==
    /\ device_map = [d \in Devices |-> NoEntry]
    /\ device_ip_map = [ip \in Ips |-> None]
    /\ active_ip_map = [ip \in Ips |-> None]
    /\ data_version = 0
    /\ full_sync_version = 0
    /\ sender_map = [ip \in Ips |-> None]
    /\ links = [p \in Sessions |-> {}]
    /\ traffic_stats_map = [ip \in Ips |-> None]
    /\ session = [s \in Sessions |-> NoSession]
    /\ admin = NoAdmin
    /\ managed = NoManaged

RegisterStep ==
    \E s \in Sessions, d \in Devices, ct \in ClientTypes,
       i \in Instances \cup {None}, r \in Ips \cup {None},
       var \in BOOLEAN, mode \in RegModes :
        Register(s, d, ct, i, r, var, mode)

SessionStep(s) ==
    \/ ConfirmRegistration(s)
    \/ \E new \in Ips :
         FastRegisterAgain(s, new) \/ FastRegisterMove(s, new) \/ FollowPool(s, new)
    \/ OfflineLookup(s)
    \/ RemoveLink(s)
    \/ FinalizeOffline(s)
    \/ ReleasePreRegistered(s)
    \/ ReleaseTail(s)

AdminStep ==
    \/ \E d \in Devices, ip \in Ips, it \in IpTypes, ct \in ClientTypes,
          routes \in BOOLEAN : UpsertDevice(d, ip, it, ct, routes)
    \/ UpsertSaved
    \/ UpsertSaveFails
    \/ \E d \in Devices : DeleteDevice(d)
    \/ \E S \in SUBSET Devices : ReleaseExpired(S)
    \/ \E d \in Devices : UpdateRuntimeMetadata(d)
    \/ \E ip \in Ips : DisconnectSubscription(ip)
    \/ \E d \in Devices : ManagedSnapshot(d)
    \/ ManagedCommit
    \/ ManagedRollback

Next ==
    \/ RegisterStep
    \/ \E s \in Sessions : SessionStep(s)
    \/ AdminStep

Spec == Init /\ [][Next]_vars
-----------------------------------------------------------------------------
(* Properties.                                                              *)

\* Every map of NetworkState and every Session holds values of its type.
TypeOK ==
    /\ device_map \in [Devices -> DeviceEntry]
    /\ device_ip_map \in [Ips -> Devices \cup {None}]
    /\ active_ip_map \in [Ips -> Devices \cup {None}]
    /\ data_version \in Nat
    /\ full_sync_version \in Nat
    /\ sender_map \in [Ips -> Sessions \cup {None}]
    /\ links \in [Sessions -> SUBSET Sessions]
    /\ traffic_stats_map \in [Ips -> Devices \cup {None}]
    /\ session \in [Sessions -> Session]
    /\ admin \in [device : Devices \cup {None}, previous : DeviceEntry]
    /\ managed \in [device : Devices \cup {None}, ip : Ips \cup {None},
                    ip_type : {"Dynamic", "Static", "Fixed"}, updated : BOOLEAN]

\* An address has one owner.  The address a device is recorded with is mapped
\* back to that device and to no other (device_ip_map is the inverse of
\* DeviceEntry.ip), it is usable, and a session is live on it only if it is
\* that device's: conflicting_ip_owner reserves configured and active addresses
\* alike, whatever registrations, moves, edits and releases come in between.
AddressExclusive ==
    /\ \A d \in Devices : device_map[d].ip # None =>
           /\ device_map[d].ip \in Usable
           /\ device_ip_map[device_map[d].ip] = d
    /\ \A ip \in Ips : device_ip_map[ip] # None =>
           /\ device_map[device_ip_map[ip]].ip = ip
           /\ active_ip_map[ip] \in {None, device_ip_map[ip]}

\* A device is live on at most one address: a new registration evicts the
\* device's other active addresses, and fast_register moves the lease.
SingleLease ==
    \A i, j \in Ips : active_ip_map[i] # None /\ active_ip_map[i] = active_ip_map[j]
                        => i = j

\* A packet for an address reaches links of the device that holds its lease:
\* the pool published there was created by that device and every link in it was
\* registered by that device.  The exception is an address whose pre-registration
\* is being released: its pool is unpublished after the lease is gone.
DeliveryMatchesLease ==
    \A ip \in Ips : sender_map[ip] # None /\ ip \notin Releasing =>
        /\ active_ip_map[ip] = session[sender_map[ip]].device
        /\ \A s \in links[sender_map[ip]] : session[s].device = active_ip_map[ip]

\* Bytes sent to a published address are credited to the device that holds it.
TrafficCredited ==
    \A ip \in Ips : sender_map[ip] # None /\ ip \notin Releasing =>
        traffic_stats_map[ip] = active_ip_map[ip]

\* The book of leases behind the maps: a device is live on the address whose
\* active_ip_map entry names it.
LiveAddress(active, d) ==
    IF \E ip \in Ips : active[ip] = d THEN CHOOSE ip \in Ips : active[ip] = d ELSE None
Book == INSTANCE LeaseBook WITH
    assigned <- [d \in Devices |-> device_map[d].ip],
    live <- [d \in Devices |-> LiveAddress(active_ip_map, d)]

\* Registrations, moves, drops, edits and their undoing implement the abstract book:
\* whatever they do in one critical section, an address passes from one device to
\* another only through a state in which it is nobody's, and no step changes the
\* address of a device it is not about.
BookKept == Book!BookSpec

Reachable(s) == Live(s) /\ \E ip \in Ips : sender_map[ip] # None /\ s \in links[sender_map[ip]]

\* A device with a live, reachable link is not marked offline: the drop of an
\* older session or of another link of the pool never turns it offline, because
\* finalize_offline re-checks the pool under the lock.
LiveLinkStaysOnline ==
    \A s \in Sessions : Reachable(s) => device_map[session[s].device].is_connected

\* A device is online only while some session of it still exists or is being
\* torn down: when the last one has ended the device is offline.
OnlineHasSession ==
    \A d \in Devices : device_map[d].is_connected =>
        \E s \in Sessions : session[s].device = d /\ session[s].phase # "gone"

\* For a client with one link per registration that is so in every order of
\* drops and reconnects: the session that published last is the one whose drop
\* still finds its pool, and it takes the device offline.
LegacyGoesOffline ==
    \A d \in Devices :
        /\ device_map[d].is_connected
        /\ \A s \in Sessions : session[s].device = d => session[s].inst = None
        => \E s \in Sessions : session[s].device = d /\ session[s].phase # "gone"

\* Releasing a pre-registration unpublishes only a drained pool: it never takes
\* away the registration of a link that is still connected.
ReleaseSparesLiveLinks ==
    [][\A s \in Sessions :
         session[s].phase = "releasing" /\ session'[s].phase = "gone" =>
             \A t \in Sessions : Reachable(t) /\ Live(t)' => Reachable(t)']_vars
-----------------------------------------------------------------------------
(* The inductive invariant behind the lease properties.                     *)

\* A session that has begun names its device, its address and, while it is
\* leaving a pool, that pool.
SessionsNamed ==
    \A s \in Sessions :
        /\ session[s].phase \in {"pending", "confirmed", "leaving", "draining", "releasing"}
             => session[s].device \in Devices /\ session[s].ip \in Ips
        /\ session[s].phase \in {"leaving", "draining"} => session[s].pool \in Sessions

\* Only registered sessions are links or name a published pool.
LinksRegistered ==
    /\ \A p \in Sessions : \A s \in links[p] : session[s].phase # "none"
    /\ \A ip \in Ips : sender_map[ip] # None => session[sender_map[ip]].phase # "none"

\* A pool is published at one address only.
PublishedOnce ==
    \A i, j \in Ips : sender_map[i] # None /\ sender_map[i] = sender_map[j] => i = j

BeingReleased(ip) == \E s \in Sessions : session[s].phase = "releasing" /\ session[s].ip = ip

\* Wherever a pool and a live lease meet they are of one device, and so are
\* the statistics; a pool outlives its lease only while it is being released.
PoolsMatchLeases ==
    \A ip \in Ips : sender_map[ip] # None =>
        /\ active_ip_map[ip] = None => BeingReleased(ip)
        /\ active_ip_map[ip] # None =>
             /\ session[sender_map[ip]].device = active_ip_map[ip]
             /\ traffic_stats_map[ip] = active_ip_map[ip]
             /\ \A s \in links[sender_map[ip]] : session[s].device = active_ip_map[ip]

\* While an edit holds the mutation lock nobody else can take the address it
\* would put back, so restore_device_config needs no validation.
EditRevertible ==
    /\ admin = NoAdmin \/ admin.device \in Devices
    /\ admin.previous.ip # None =>
         /\ admin.previous.ip \in Usable
         /\ device_ip_map[admin.previous.ip] \in {None, admin.device}
         /\ active_ip_map[admin.previous.ip] \in {None, admin.device}

\* What every operation preserves as long as no managed edit is rolled back.
LeaseInvariant ==
    /\ TypeOK
    /\ managed = NoManaged
    /\ SessionsNamed
    /\ LinksRegistered
    /\ PublishedOnce
    /\ AddressExclusive
    /\ SingleLease
    /\ PoolsMatchLeases
    /\ EditRevertible
=============================================================================
