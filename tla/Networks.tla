------------------------------ MODULE Networks ------------------------------
(***************************************************************************)
(* One network code: its configuration, the row that keeps it, the network  *)
(* state loaded for it, and the devices whose addresses depend on all three.*)
(*                                                                          *)
(* Source: control_server/service.rs (new, add_network, update_network,     *)
(* delete_network, register_inner, register_ikev2, register_wireguard,      *)
(* get_or_create_network_state, release_network, upsert_device,             *)
(* delete_device), db.rs (networks, network_has_devices).                   *)
(*                                                                          *)
(* The mutation lock orders registrations and edits.  Outside of it a tunnel*)
(* registration looks the network up, a new network's row and the row of a  *)
(* device that has left are written by spawned tasks, and an unused network *)
(* state is dropped.  What an address is abstracts to the network it belongs*)
(* to; what else a device or a network has is left out, and with it the     *)
(* expiry of a lease, which keeps the device.                               *)
(***************************************************************************)
EXTENDS FiniteSets

CONSTANTS
    Clients,    \* devices of VNT clients
    Tunnels,    \* devices of IKEv2 and WireGuard clients
    Nets,       \* address range, gateway and lease time of a network
    Default,    \* those of a network that nobody has configured
    Files,      \* what the configuration file may say of the network (or Absent)
    Absent

Devices == Clients \cup Tunnels
Actors == Devices \cup {"admin"}

\* A network state, and the loading of one.
Listed == [net : Nets, devices : [Devices -> Nets \cup {Absent}], idle : BOOLEAN]
Loading == [by : Actors, net : Nets, devices : [Devices -> Nets \cup {Absent}]]

ASSUME NetworksAssumption ==
    /\ Default \in Nets /\ Files \subseteq Nets \cup {Absent}
    /\ Absent \notin Nets \cup Actors \cup Listed \cup Loading
    /\ Clients \cap Tunnels = {} /\ "admin" \notin Clients \cup Tunnels

VARIABLES
    custom,         \* the network in the configuration file
    db_nets,        \* the configuration in memory
    net_row,        \* the row of the networks table
    device_rows,    \* device -> the network its stored address belongs to
    state,          \* the listed network state
    init_lock,      \* the loading of a network state under way
    mutation_lock,  \* who holds the network's mutation lock
    proc,           \* device or administrator -> its request or session
    spawned,        \* writes of the network's row under way
    offline,        \* writes of the rows of devices that have left
    releasing,      \* release_network has found the state unused
    table,          \* the devices the tunnel engines accept
    slips           \* history: what the code lets go wrong

networkVars == <<custom, db_nets, net_row, device_rows, state, init_lock, mutation_lock,
                 proc, spawned, offline, releasing, table, slips>>

Nothing == [d \in Devices |-> Absent]
\* `config` is the configuration a request has read, `net` that of the state it has
\* fetched, `here` whether that state is still the listed one.
Resting == [pc |-> "rest", dev |-> Absent, config |-> Absent, net |-> Absent,
            here |-> FALSE, fresh |-> FALSE]

Step(a, pc) == proc' = [proc EXCEPT ![a].pc = pc]
Rest(a) == proc' = [proc EXCEPT ![a] = Resting]
Lock(a) == mutation_lock = Absent /\ mutation_lock' = a
Unlock == mutation_lock' = Absent

InMemory == {d \in Devices : state # Absent /\ state.devices[d] # Absent}
Stored == {d \in Devices : device_rows[d] # Absent}
\* The entry says that the device is connected.
Connected(d) == proc[d].here /\ proc[d].pc \in {"save", "pending", "live"}
\* The engine is inside a registration and answers no command.
EngineBusy == \E t \in Tunnels : proc[t].pc \notin {"rest", "live"}

network_config(hint) ==
    IF db_nets # Absent THEN db_nets ELSE IF hint # Absent THEN hint ELSE Default
-----------------------------------------------------------------------------
(* get_or_create_network_state.                                             *)

Fetching(a) == proc[a].pc \in {"fetch", "tunnel"}

\* A tunnel registration only wants to know whether the device was created.
Fetched(a, s) ==
    proc' = [proc EXCEPT ![a] =
        IF @.pc = "fetch" THEN [@ EXCEPT !.pc = "ready", !.net = s.net, !.here = TRUE]
        ELSE IF s.devices[a] # Absent
             THEN [@ EXCEPT !.pc = "known", !.config = s.devices[a]]
             ELSE Resting]

Found(a) ==
    /\ Fetching(a) /\ state # Absent
    /\ state' = [state EXCEPT !.idle = FALSE]
    /\ Fetched(a, state)
    /\ UNCHANGED <<custom, db_nets, net_row, device_rows, init_lock, mutation_lock,
                   spawned, offline, releasing, table, slips>>

BeginLoad(a) ==
    /\ Fetching(a) /\ state = Absent /\ init_lock = Absent
    /\ init_lock' = [by |-> a, net |-> proc[a].config, devices |-> device_rows]
    /\ UNCHANGED <<custom, db_nets, net_row, device_rows, state, mutation_lock, proc,
                   spawned, offline, releasing, table, slips>>

EndLoad ==
    /\ init_lock # Absent
    /\ state' = [net |-> init_lock.net, devices |-> init_lock.devices, idle |-> FALSE]
    /\ Fetched(init_lock.by, state')
    /\ init_lock' = Absent
    /\ UNCHANGED <<custom, db_nets, net_row, device_rows, mutation_lock, spawned,
                   offline, releasing, table, slips>>

\* The listed state is dropped; whoever has fetched it goes on with it.
Unlisted(p) == [a \in Actors |-> [p[a] EXCEPT !.here = FALSE]]
-----------------------------------------------------------------------------
(* Registrations.                                                           *)

\* register_ikev2, register_wireguard up to register_inner: no lock is held.
TunnelBegins(t) ==
    /\ t \in table /\ proc[t].pc = "rest" /\ ~EngineBusy
    /\ proc' = [proc EXCEPT ![t] = [@ EXCEPT !.pc = "tunnel", !.config = network_config(Absent)]]
    /\ UNCHANGED <<custom, db_nets, net_row, device_rows, state, init_lock, mutation_lock,
                   spawned, offline, releasing, table, slips>>

\* register_inner up to get_or_create_network_state.  A network nobody has configured
\* takes its range from the requested address.
RegisterLocked(d, hint) ==
    /\ \/ d \in Clients /\ proc[d].pc = "rest"
       \/ d \in Tunnels /\ proc[d].pc = "known" /\ hint = proc[d].config
    /\ Lock(d)
    /\ db_nets' = network_config(hint)
    /\ proc' = [proc EXCEPT ![d] = [Resting EXCEPT !.pc = "fetch", !.dev = d,
                                      !.config = network_config(hint),
                                      !.fresh = (db_nets = Absent)]]
    /\ UNCHANGED <<custom, net_row, device_rows, state, init_lock, spawned, offline,
                   releasing, table, slips>>

WithDevice(a, v) ==
    state' = IF proc[a].here THEN [state EXCEPT !.devices[proc[a].dev] = v] ELSE state

\* The device gets an address of the network state, and a new network its row.  Only the
\* row of a pre-registered device has to wait for its confirmation.
Allocate(d, pre) ==
    /\ proc[d].pc = "ready"
    /\ d \in Tunnels => ~pre /\ (proc[d].here => d \in InMemory)
    /\ WithDevice(d, proc[d].net)
    /\ spawned' = IF proc[d].fresh THEN spawned \cup {proc[d].config} ELSE spawned
    /\ IF pre THEN Step(d, "pending") /\ Unlock
       ELSE Step(d, "save") /\ UNCHANGED mutation_lock
    /\ UNCHANGED <<custom, db_nets, net_row, device_rows, init_lock, offline, releasing,
                   table, slips>>

\* A private network, another kind of device, no free address.
Refused(d) ==
    /\ proc[d].pc = "ready"
    /\ Rest(d) /\ Unlock
    /\ UNCHANGED <<custom, db_nets, net_row, device_rows, state, init_lock, spawned,
                   offline, releasing, table, slips>>

Saved(d) ==
    /\ proc[d].pc = "save"
    /\ device_rows' = [device_rows EXCEPT ![d] = proc[d].net]
    /\ Step(d, "live") /\ Unlock
    /\ UNCHANGED <<custom, db_nets, net_row, state, init_lock, spawned, offline,
                   releasing, table, slips>>

\* The session is dropped with the error; its end writes the row again.
SaveFails(d) ==
    /\ proc[d].pc = "save"
    /\ offline' = offline \cup {<<d, proc[d].net>>}
    /\ Rest(d) /\ Unlock
    /\ UNCHANGED <<custom, db_nets, net_row, device_rows, state, init_lock, spawned,
                   releasing, table, slips>>

confirm_registration(d) ==
    /\ proc[d].pc = "pending"
    /\ device_rows' = [device_rows EXCEPT ![d] = proc[d].net]
    /\ Step(d, "live")
    /\ UNCHANGED <<custom, db_nets, net_row, state, init_lock, mutation_lock, spawned,
                   offline, releasing, table, slips>>

\* Drop for Session: a pending registration leaves nothing in memory, a confirmed one
\* leaves its row to a spawned task.
EndSession(d) ==
    /\ proc[d].pc \in {"pending", "live"}
    /\ IF proc[d].pc = "pending"
       THEN WithDevice(d, Absent) /\ UNCHANGED offline
       ELSE offline' = offline \cup {<<d, proc[d].net>>} /\ UNCHANGED state
    /\ Rest(d)
    /\ UNCHANGED <<custom, db_nets, net_row, device_rows, init_lock, mutation_lock,
                   spawned, releasing, table, slips>>

\* The spawned writes.  One may land after the device and then its network have gone.
OfflineSaved(w) ==
    /\ w \in offline
    /\ offline' = offline \ {w}
    /\ device_rows' = [device_rows EXCEPT ![w[1]] = w[2]]
    /\ slips' = IF w[1] \in Stored /\ w[2] = db_nets THEN slips
                ELSE slips \cup {"late"}
    /\ UNCHANGED <<custom, db_nets, net_row, state, init_lock, mutation_lock, proc,
                   spawned, releasing, table>>

OfflineLost(w) ==
    /\ w \in offline
    /\ offline' = offline \ {w}
    /\ UNCHANGED <<custom, db_nets, net_row, device_rows, state, init_lock,
                   mutation_lock, proc, spawned, releasing, table, slips>>

NetworkSaved(n) ==
    /\ n \in spawned
    /\ spawned' = spawned \ {n}
    /\ net_row' \in {n, net_row}    \* written, or failed
    /\ UNCHANGED <<custom, db_nets, device_rows, state, init_lock, mutation_lock, proc,
                   offline, releasing, table, slips>>
-----------------------------------------------------------------------------
(* The administrator's requests.                                            *)

Request(pc, d, n) ==
    proc' = [proc EXCEPT !["admin"] = [Resting EXCEPT !.pc = pc, !.dev = d, !.config = n]]

add_network(n) ==
    /\ Lock("admin")
    /\ db_nets = Absent
    /\ Request("insert", Absent, n)
    /\ UNCHANGED <<custom, db_nets, net_row, device_rows, state, init_lock, spawned,
                   offline, releasing, table, slips>>

\* mutant: only the devices in memory are counted
update_network_uncounted(n) ==
    /\ Lock("admin")
    /\ db_nets # Absent /\ n # db_nets
    /\ Request("update", Absent, n)
    /\ UNCHANGED <<custom, db_nets, net_row, device_rows, state, init_lock, spawned,
                   offline, releasing, table, slips>>

\* update_network where the range, the gateway or the lease time changes.
update_network(n) ==
    /\ Lock("admin")
    /\ db_nets # Absent /\ n # db_nets
    /\ Stored = {}
    /\ Request("update", Absent, n)
    /\ UNCHANGED <<custom, db_nets, net_row, device_rows, state, init_lock, spawned,
                   offline, releasing, table, slips>>

delete_network ==
    /\ Lock("admin")
    /\ db_nets # Absent
    /\ Stored = {}
    /\ Request("delete", Absent, Absent)
    /\ UNCHANGED <<custom, db_nets, net_row, device_rows, state, init_lock, spawned,
                   offline, releasing, table, slips>>

\* mutant: only the rows are counted
UncountedState == state = state

NoDevices == InMemory = {}

\* The statement on the networks table; UPDATE changes no row that is not there.
NetworkWritten ==
    /\ proc["admin"].pc \in {"insert", "update", "delete"}
    /\ proc["admin"].pc # "insert" => NoDevices
    /\ net_row' = IF proc["admin"].pc = "update" /\ net_row = Absent THEN Absent
                  ELSE proc["admin"].config
    /\ Step("admin", IF proc["admin"].pc = "insert" THEN "list" ELSE "replace")
    /\ UNCHANGED <<custom, db_nets, device_rows, state, init_lock, mutation_lock,
                   spawned, offline, releasing, table, slips>>

\* The network has devices, or the statement fails.
NetworkRefused ==
    /\ proc["admin"].pc \in {"insert", "update", "delete"}
    /\ Rest("admin") /\ Unlock
    /\ UNCHANGED <<custom, db_nets, net_row, device_rows, state, init_lock, spawned,
                   offline, releasing, table, slips>>

\* mutant: the state loaded for the former configuration stays listed
NetworkAppliedOnly ==
    /\ proc["admin"].pc \in {"list", "replace"}
    /\ db_nets' = proc["admin"].config
    /\ Rest("admin") /\ UNCHANGED state
    /\ Unlock
    /\ UNCHANGED <<custom, net_row, device_rows, init_lock, spawned, offline, releasing,
                   table, slips>>

NetworkApplied ==
    /\ proc["admin"].pc \in {"list", "replace"}
    /\ db_nets' = proc["admin"].config
    /\ IF proc["admin"].pc = "list" THEN Rest("admin") /\ UNCHANGED state
       ELSE proc' = [Unlisted(proc) EXCEPT !["admin"] = Resting] /\ state' = Absent
    /\ Unlock
    /\ UNCHANGED <<custom, net_row, device_rows, init_lock, spawned, offline, releasing,
                   table, slips>>
-----------------------------------------------------------------------------
(* Devices, as far as networks depend on them.                              *)

\* upsert_device, for a new device.
create_device(d) ==
    /\ Lock("admin")
    /\ db_nets # Absent
    /\ Request("fetch", d, db_nets)
    /\ UNCHANGED <<custom, db_nets, net_row, device_rows, state, init_lock, spawned,
                   offline, releasing, table, slips>>

\* The address was checked against the configuration, not against the state.
CreateEntry ==
    /\ proc["admin"].pc = "ready"
    /\ IF proc["admin"].here => proc["admin"].dev \notin InMemory
       THEN WithDevice("admin", proc["admin"].config) /\ Step("admin", "store")
            /\ UNCHANGED mutation_lock
       ELSE Rest("admin") /\ Unlock /\ UNCHANGED state
    /\ UNCHANGED <<custom, db_nets, net_row, device_rows, init_lock, spawned, offline,
                   releasing, table, slips>>

\* The row is not written: a new entry is removed, a removed one stays away.
DeviceNotWritten ==
    /\ proc["admin"].pc \in {"store", "remove"}
    /\ WithDevice("admin", Absent)
    /\ Rest("admin") /\ Unlock
    /\ UNCHANGED <<custom, db_nets, net_row, device_rows, init_lock, spawned, offline,
                   releasing, table, slips>>

\* delete_device has the engine end a tunnel client's session before it takes the lock,
\* and refuses while the device is connected (again), ...
delete_device(d) ==
    /\ d \in InMemory \cup Stored
    /\ d \in Tunnels => ~EngineBusy
    /\ Lock("admin")
    /\ state # Absent => ~Connected(d)
    /\ state' = IF state = Absent THEN Absent ELSE [state EXCEPT !.devices[d] = Absent]
    /\ Request("remove", d, Absent)
    /\ UNCHANGED <<custom, db_nets, net_row, device_rows, init_lock, spawned, offline,
                   releasing, table, slips>>

\* ... and sends it the devices, as upsert_device does, with the lock held.
Written ==
    /\ proc["admin"].pc \in {"store", "remove"}
    /\ device_rows' = [device_rows EXCEPT ![proc["admin"].dev] = proc["admin"].config]
    /\ Step("admin", "refresh")
    /\ UNCHANGED <<custom, db_nets, net_row, state, init_lock, mutation_lock, spawned,
                   offline, releasing, table, slips>>

Refreshed ==
    /\ proc["admin"].pc = "refresh"
    /\ IF proc["admin"].dev \in Tunnels
       THEN ~EngineBusy /\ table' = Tunnels \cap (Stored \cup InMemory)
       ELSE UNCHANGED table
    /\ Rest("admin") /\ Unlock
    /\ UNCHANGED <<custom, db_nets, net_row, device_rows, state, init_lock, spawned,
                   offline, releasing, slips>>
-----------------------------------------------------------------------------
(* Unused networks, and the process.                                        *)

\* An hour does not pass between the fetching of the state and its use.
HourPasses ==
    /\ state # Absent /\ ~state.idle
    /\ \A a \in Actors : proc[a].pc # "ready"
    /\ state' = [state EXCEPT !.idle = TRUE]
    /\ UNCHANGED <<custom, db_nets, net_row, device_rows, init_lock, mutation_lock, proc,
                   spawned, offline, releasing, table, slips>>

Unused == state # Absent /\ state.idle /\ InMemory = {}

\* release_network looks, and then removes what is listed under the code.
ReleaseBegins ==
    /\ ~releasing /\ Unused
    /\ releasing' = TRUE
    /\ UNCHANGED <<custom, db_nets, net_row, device_rows, state, init_lock,
                   mutation_lock, proc, spawned, offline, table, slips>>

release_network ==
    /\ releasing
    /\ releasing' = FALSE
    /\ slips' = IF InMemory # {} \/ \E a \in Actors : proc[a].here
                THEN slips \cup {"released"} ELSE slips
    /\ state' = Absent
    /\ proc' = Unlisted(proc)
    /\ UNCHANGED <<custom, db_nets, net_row, device_rows, init_lock, mutation_lock,
                   spawned, offline, table>>

\* The process stops at any moment and starts again: what the database has prevails over
\* the configuration file, which is stored where it has nothing.
Restart ==
    /\ net_row' = IF net_row = Absent THEN custom ELSE net_row
    /\ db_nets' = net_row'
    /\ slips' = IF db_nets' = db_nets THEN slips ELSE slips \cup {"lost"}
    /\ state' = Absent /\ init_lock' = Absent /\ mutation_lock' = Absent
    /\ proc' = [a \in Actors |-> Resting]
    /\ spawned' = {} /\ offline' = {} /\ releasing' = FALSE
    /\ table' = Tunnels \cap Stored
    /\ UNCHANGED <<custom, device_rows>>
-----------------------------------------------------------------------------
NetworksInit ==
    /\ custom \in Files /\ db_nets = custom /\ net_row = custom
    /\ device_rows = Nothing
    /\ state = Absent /\ init_lock = Absent /\ mutation_lock = Absent
    /\ proc = [a \in Actors |-> Resting]
    /\ spawned = {} /\ offline = {} /\ releasing = FALSE
    /\ table = {} /\ slips = {}

RegisterStep(d) ==
    \/ TunnelBegins(d)
    \/ \E hint \in Nets \cup {Absent} : RegisterLocked(d, hint)
    \/ \E pre \in BOOLEAN : Allocate(d, pre)
    \/ Refused(d) \/ Saved(d) \/ SaveFails(d)
    \/ confirm_registration(d) \/ EndSession(d)

AdminStep ==
    \/ \E n \in Nets : add_network(n) \/ update_network(n)
    \/ delete_network \/ NetworkWritten \/ NetworkRefused \/ NetworkApplied
    \/ \E d \in Devices : create_device(d) \/ delete_device(d)
    \/ CreateEntry \/ DeviceNotWritten \/ Written \/ Refreshed

NetworksNext ==
    \/ \E d \in Devices : RegisterStep(d)
    \/ \E a \in Actors : Found(a) \/ BeginLoad(a)
    \/ EndLoad
    \/ AdminStep
    \/ \E w \in offline : OfflineSaved(w) \/ OfflineLost(w)
    \/ \E n \in spawned : NetworkSaved(n)
    \/ HourPasses \/ ReleaseBegins \/ release_network
    \/ Restart

NetworksSpec == NetworksInit /\ [][NetworksNext]_networkVars
-----------------------------------------------------------------------------
(* Properties.                                                              *)

\* The network state that registrations use is the one of the present configuration: no
\* request that read an older one, under the lock or outside of it, lists its state after
\* the change, as long as every start brought back the network that was configured and no
\* device outlived its network.
StateCurrent ==
    slips = {} /\ state # Absent /\ db_nets # Absent => state.net = db_nets

\* A connected client is connected to the listed state, where packets for it are looked
\* up: edits and the release of unused networks never drop a state with a session in it,
\* except when release_network had found it unused just before it was fetched.
SessionsListed ==
    slips = {} =>
        \A d \in Devices : proc[d].pc \in {"save", "pending", "live"} => proc[d].here

\* Every address, stored or in memory, belongs to the configured network, also for
\* devices whose network is not loaded: the range changes only when there are none.
AddressesFit ==
    slips = {} /\ db_nets # Absent =>
        /\ \A d \in Stored : device_rows[d] = db_nets
        /\ \A d \in InMemory : state.devices[d] = db_nets
=============================================================================
