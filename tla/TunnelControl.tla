---------------------------- MODULE TunnelControl ----------------------------
(***************************************************************************)
(* How the control service and a tunnel engine (WireGuard or IKEv2) work   *)
(* on the same devices.  The engine is one task: it handles a packet or a  *)
(* command to the end before it looks at the next.  A handshake of a known *)
(* device makes it register a session, for which it waits for the          *)
(* network's mutation lock.  An administrator's edit holds that lock, and  *)
(* before that the two per-kind device locks, while it sends commands to   *)
(* the engine and waits for their answers.                                 *)
(*                                                                         *)
(* Source: wireguard.rs and ikev2.rs (handle, run, handle_command and the  *)
(* registration paths), service.rs (upsert_device, delete_device,          *)
(* register_wireguard, register_ikev2, refresh_wireguard_peers,            *)
(* refresh_ikev2_credentials), and web_server.rs                           *)
(* (update_wireguard_settings, apply_ikev2_runtime).                       *)
(***************************************************************************)
EXTENDS Naturals, Sequences

CONSTANTS
    Kinds,       \* kinds of tunnel: "Wireguard", "Ikev2"
    Devices,     \* devices of one kind in one network
    Vals,        \* configurations: an address of the device's own, or a password
    Admins,      \* concurrent administrator requests, one edit each
    Faults,      \* may the database refuse a write
    None,        \* no device, no configuration, no handle
    MaxStarts,   \* bound: engines started
    MaxShakes    \* bound: handshakes that reach registration

ASSUME TunnelAssumption ==
    /\ Kinds \subseteq {"Wireguard", "Ikev2"} /\ Faults \in BOOLEAN
    /\ None \notin Devices \cup Vals \cup Admins \cup Nat \cup {"client"}
    /\ Admins \cap {"client", "web"} = {}
    /\ MaxStarts \in Nat \ {0} /\ MaxShakes \in Nat

VARIABLES
    config,       \* device -> configuration in NetworkState, or None
    db,           \* device -> configuration in its row, or None
    lock,         \* holder of the network's mutation lock
    device_lock,  \* holder of ikev2_/wireguard_device_mutation_lock (taken together)
    manager,      \* the published engine handle: a number of `engine`, or None
    engine,       \* the latest engine
    table,        \* its devices / eap_credentials
    pending,      \* its EAP exchanges with a registered session
    connected,    \* its connected peers / established sessions
    cmds,         \* its command channel
    answered,     \* the callers whose oneshot receiver is ready
    admin,        \* the administrators' requests
    web,          \* the service settings request
    shakes,
    kind,         \* the kind of this tunnel service
    disturbed     \* history: a write failed, or the service was started during an edit

rest == <<shakes, kind, disturbed>>
vars == <<config, db, lock, device_lock, manager, engine, table, pending, connected,
          cmds, answered, admin, web, rest>>

Client == "client"   \* a VNT registration that holds the mutation lock
Web == "web"
Empty == [d \in Devices |-> None]

AdminRequest ==
    [pc : {"ready", "lock", "net", "kick", "kicked", "apply", "save", "refresh",
           "load", "reloading", "done"},
     op : {"upsert", "delete"}, dev : Devices \cup {None}, val : Vals \cup {None},
     prev : Vals \cup {None}, engine : 0 .. MaxStarts]

Alive(n) == engine.id = n /\ engine.pc # "off"
Online(d) == connected[d] # None \/ pending[d] # None

\* wireguard_devices / ikev2_credentials: the rows, overlaid by the states in memory.
Overlay == [d \in Devices |-> IF config[d] # None THEN config[d] ELSE db[d]]
-----------------------------------------------------------------------------
(* The engine.                                                              *)

\* A handshake (an EAP identity) of a device in the engine's table: the device's
\* address is read and the session registered, under the mutation lock.
Handshake(d) ==
    /\ engine.pc = "idle" /\ shakes < MaxShakes
    /\ table[d] # None /\ pending[d] = None
    /\ kind = "Wireguard" => connected[d] = None
    /\ config[d] # None
    /\ engine' = [engine EXCEPT !.pc = "registering", !.dev = d, !.req = config[d],
                                !.cap = table[d]]
    /\ shakes' = shakes + 1
    /\ UNCHANGED <<config, db, lock, device_lock, manager, table, pending, connected,
                   cmds, answered, admin, web, kind, disturbed>>

\* register_inner: the request names the address read before the lock, which counts
\* unless the device's address is fixed.  It may fail after the allocation, when the
\* row cannot be written.
RegisterSession ==
    LET d == engine.dev
        addresses == IF kind = "Wireguard" THEN {engine.req, config[d]} ELSE {config[d]}
    IN  /\ engine.pc = "registering" /\ lock = None
        /\ engine' = [engine EXCEPT !.pc = "idle", !.dev = None]
        /\ \/ config[d] = None /\ UNCHANGED <<config, db, pending, connected, disturbed>>
           \/ \E moved \in addresses :
                /\ config[d] # None
                /\ config' = [config EXCEPT ![d] = moved]
                /\ \/ /\ db' = [db EXCEPT ![d] = moved]
                      /\ UNCHANGED disturbed
                      /\ IF kind = "Wireguard"
                         THEN /\ connected' = [connected EXCEPT ![d] = engine.cap]
                              /\ UNCHANGED pending
                         ELSE /\ pending' = [pending EXCEPT ![d] = engine.cap]
                              /\ UNCHANGED connected
                   \/ Faults /\ disturbed' = TRUE /\ UNCHANGED <<db, pending, connected>>
        /\ UNCHANGED <<lock, device_lock, manager, table, cmds, answered, admin, web,
                       shakes, kind>>

\* The rest of the EAP exchange: install_established, or failure and timeout.
FinishEap(d) ==
    /\ engine.pc = "idle" /\ pending[d] # None
    /\ pending' = [pending EXCEPT ![d] = None]
    /\ \/ connected' = [connected EXCEPT ![d] = pending[d]]
       \/ UNCHANGED connected
    /\ UNCHANGED <<config, db, lock, device_lock, manager, engine, table, cmds,
                   answered, admin, web, rest>>

PeerIdle(d) ==
    /\ engine.pc = "idle" /\ connected[d] # None
    /\ connected' = [connected EXCEPT ![d] = None]
    /\ UNCHANGED <<config, db, lock, device_lock, manager, engine, table, pending,
                   cmds, answered, admin, web, rest>>

\* The table after a reload, and the callers a command's end wakes: a stopping engine
\* drops its receiver, and with it the channels of the commands still queued.
ReloadMerged(t) == [d \in Devices |-> IF t[d] = None THEN table[d] ELSE t[d]]
Reloaded(t) == t

OnlyOwnCaller(c) == {c.from}
Woken(c) == IF c.op = "shutdown" THEN {cmds[i].from : i \in DOMAIN cmds} ELSE {c.from}

\* handle_command: DisconnectDevice, ReloadDevices / ReloadCredentials, ReloadConfig
\* and Shutdown.  A reload of IKEv2 credentials keeps the established sessions.
HandleCommand ==
    LET c == Head(cmds)
    IN  /\ engine.pc = "idle" /\ cmds # <<>>
        /\ \/ /\ c.op = "disconnect"
              /\ connected' = [connected EXCEPT ![c.dev] = None]
              /\ UNCHANGED <<engine, table, pending>>
           \/ /\ c.op = "reload"
              /\ table' = Reloaded(c.table)
              /\ IF kind = "Wireguard"
                 THEN /\ connected' = [d \in Devices |-> IF c.table[d] = connected[d] THEN connected[d]
                                                     ELSE None]
                      /\ UNCHANGED pending
                 ELSE pending' = Empty /\ UNCHANGED connected
              /\ UNCHANGED engine
           \/ /\ c.op = "reconfigure"
              /\ connected' = Empty /\ pending' = Empty
              /\ UNCHANGED <<engine, table>>
           \/ /\ c.op = "shutdown"
              /\ engine' = [engine EXCEPT !.pc = "off"]
              /\ connected' = Empty /\ pending' = Empty
              /\ UNCHANGED table
        /\ cmds' = IF c.op = "shutdown" THEN <<>> ELSE Tail(cmds)
        /\ answered' = answered \cup Woken(c)
        /\ UNCHANGED <<config, db, lock, device_lock, manager, admin, web, rest>>

EngineStep ==
    \/ \E d \in Devices : Handshake(d) \/ FinishEap(d) \/ PeerIdle(d)
    \/ RegisterSession
    \/ HandleCommand
-----------------------------------------------------------------------------
(* The administrator's edits.                                               *)

\* A command waits in the engine's channel and its sender for the answer; when the
\* engine has stopped the send fails and the caller goes on at once.
Command(from, op, d, t) == [from |-> from, op |-> op, dev |-> d, table |-> t]

Goto(a, pc) == admin' = [admin EXCEPT ![a].pc = pc]
Release(a) ==
    /\ device_lock' = None
    /\ lock' = IF lock = a THEN None ELSE lock
    /\ Goto(a, "done")

BeginEdit(a) ==
    /\ admin[a].pc = "ready"
    /\ \E d \in Devices :
         \/ \E v \in Vals :
              admin' = [admin EXCEPT ![a] = [@ EXCEPT !.pc = "lock", !.op = "upsert",
                                                     !.dev = d, !.val = v]]
         \/ admin' = [admin EXCEPT ![a] = [@ EXCEPT !.pc = "lock", !.op = "delete", !.dev = d]]
    /\ UNCHANGED <<config, db, lock, device_lock, manager, engine, table, pending,
                   connected, cmds, answered, web, rest>>

\* upsert_device takes all locks first; delete_device asks the engine before the last.
LockDevices(a) ==
    /\ admin[a].pc = "lock" /\ device_lock = None
    /\ device_lock' = a
    /\ Goto(a, IF admin[a].op = "upsert" THEN "net" ELSE "kick")
    /\ disturbed' = (disturbed \/ web = "loaded")
    /\ UNCHANGED <<config, db, lock, manager, engine, table, pending, connected, cmds,
                   answered, web, shakes, kind>>

LockNetwork(a) ==
    /\ admin[a].pc = "net" /\ lock = None
    /\ lock' = a
    /\ Goto(a, IF admin[a].op = "upsert" THEN "kick" ELSE "apply")
    /\ UNCHANGED <<config, db, device_lock, manager, engine, table, pending, connected,
                   cmds, answered, web, rest>>

AfterKick(a) == IF admin[a].op = "upsert" THEN "apply" ELSE "net"

\* Is the engine asked to disconnect the device?  For an edit, when it exists and,
\* for WireGuard, changes its address; for a removal, when memory or a row has it.
MustKick(a) ==
    LET d == admin[a].dev
    IN  IF admin[a].op = "upsert"
        THEN config[d] # None /\ (kind = "Ikev2" \/ config[d] # admin[a].val)
        ELSE Overlay[d] # None

Kick(a) ==
    LET sent == MustKick(a) /\ manager # None /\ Alive(manager)
    IN  /\ admin[a].pc = "kick"
        /\ cmds' = IF sent THEN Append(cmds, Command(a, "disconnect", admin[a].dev, Empty))
                   ELSE cmds
        /\ Goto(a, IF sent THEN "kicked" ELSE AfterKick(a))
        /\ UNCHANGED <<config, db, lock, device_lock, manager, engine, table, pending,
                       connected, answered, web, rest>>

\* The oneshot receiver of a disconnect or of the last refresh is ready.
Answered(a) ==
    /\ a \in answered /\ answered' = answered \ {a}
    /\ \/ /\ admin[a].pc = "kicked" /\ Goto(a, AfterKick(a))
          /\ UNCHANGED <<lock, device_lock>>
       \/ admin[a].pc = "reloading" /\ Release(a)
    /\ UNCHANGED <<config, db, manager, engine, table, pending, connected, cmds, web, rest>>

ApplyUnchecked(a) ==
    /\ admin[a].pc = "apply"
    /\ config' = [config EXCEPT ![admin[a].dev] = admin[a].val]
    /\ admin' = [admin EXCEPT ![a] = [@ EXCEPT !.pc = "save", !.prev = config[admin[a].dev]]]
    /\ UNCHANGED <<db, lock, device_lock, manager, engine, table, pending, connected, cmds,
                   answered, web, rest>>

\* upsert_device_config, or the online check and remove_device_from_memory.
Apply(a) ==
    LET d == admin[a].dev
    IN  /\ admin[a].pc = "apply"
        /\ IF admin[a].op = "delete" /\ Online(d)
           THEN Release(a) /\ UNCHANGED config
           ELSE /\ config' = [config EXCEPT ![d] = admin[a].val]
                /\ admin' = [admin EXCEPT ![a] = [@ EXCEPT !.pc = "save", !.prev = config[d]]]
                /\ UNCHANGED <<lock, device_lock>>
        /\ UNCHANGED <<db, manager, engine, table, pending, connected, cmds, answered, web, rest>>

\* The row is written or deleted; a failed write restores the state in memory, a
\* failed deletion does not.
Save(a) ==
    LET d == admin[a].dev
    IN  /\ admin[a].pc = "save"
        /\ \/ /\ db' = [db EXCEPT ![d] = config[d]]
              /\ Goto(a, "refresh")
              /\ UNCHANGED <<config, lock, device_lock, disturbed>>
           \/ /\ Faults /\ disturbed' = TRUE
              /\ IF admin[a].op = "upsert"
                 THEN config' = [config EXCEPT ![d] = admin[a].prev]
                 ELSE UNCHANGED config
              /\ Release(a)
              /\ UNCHANGED db
        /\ UNCHANGED <<manager, engine, table, pending, connected, cmds, answered, web,
                       shakes, kind>>

RefreshSkipped(a) ==
    /\ admin[a].pc = "refresh" /\ Release(a)
    /\ UNCHANGED <<config, db, manager, engine, table, pending, connected, cmds, answered,
                   web, rest>>

\* refresh_wireguard_peers / refresh_ikev2_credentials: the handle is read first, ...
Refresh(a) ==
    /\ admin[a].pc = "refresh"
    /\ IF manager = None
       THEN Release(a)
       ELSE /\ admin' = [admin EXCEPT ![a] = [@ EXCEPT !.pc = "load", !.engine = manager]]
            /\ UNCHANGED <<lock, device_lock>>
    /\ UNCHANGED <<config, db, manager, engine, table, pending, connected, cmds, answered,
                   web, rest>>

\* ... then the devices are read and sent to the engine of that handle.
Reload(a) ==
    /\ admin[a].pc = "load"
    /\ IF Alive(admin[a].engine)
       THEN /\ cmds' = Append(cmds, Command(a, "reload", None, Overlay))
            /\ Goto(a, "reloading")
            /\ UNCHANGED <<lock, device_lock>>
       ELSE Release(a) /\ UNCHANGED cmds
    /\ UNCHANGED <<config, db, manager, engine, table, pending, connected, answered, web, rest>>

AdminStep(a) ==
    LockDevices(a) \/ LockNetwork(a) \/ Kick(a) \/ Answered(a) \/ Apply(a) \/ Save(a)
        \/ Refresh(a) \/ Reload(a)
-----------------------------------------------------------------------------
(* A registration of another client, and the service settings.              *)

ClientLock ==
    /\ lock = None /\ lock' = Client
    /\ UNCHANGED <<config, db, device_lock, manager, engine, table, pending, connected,
                   cmds, answered, admin, web, rest>>

ClientUnlock ==
    /\ lock = Client /\ lock' = None
    /\ UNCHANGED <<config, db, device_lock, manager, engine, table, pending, connected,
                   cmds, answered, admin, web, rest>>

\* update_wireguard_settings / apply_ikev2_runtime: the handle is withdrawn and the
\* engine stopped.
WithdrawEngine ==
    LET sent == manager # None /\ Alive(manager)
    IN  /\ web = "idle" /\ engine.id < MaxStarts
        /\ manager' = None
        /\ cmds' = IF sent THEN Append(cmds, Command(Web, "shutdown", None, Empty)) ELSE cmds
        /\ web' = IF sent THEN "stopping" ELSE "start"
        /\ UNCHANGED <<config, db, lock, device_lock, engine, table, pending, connected,
                       answered, admin, rest>>

\* IKEv2 without a change of the listening addresses: only the settings are reloaded.
ReloadSettings ==
    /\ kind = "Ikev2" /\ web = "idle" /\ manager # None /\ Alive(manager)
    /\ cmds' = Append(cmds, Command(Web, "reconfigure", None, Empty))
    /\ web' = "reconfiguring"
    /\ UNCHANGED <<config, db, lock, device_lock, manager, engine, table, pending,
                   connected, answered, admin, rest>>

WebAnswered ==
    /\ Web \in answered /\ answered' = answered \ {Web}
    /\ web' = IF web = "stopping" THEN "start" ELSE "idle"
    /\ UNCHANGED <<config, db, lock, device_lock, manager, engine, table, pending,
                   connected, cmds, admin, rest>>

\* start: the sockets are bound, then the devices are read.  It may fail, and is then
\* tried once more with the previous settings; a disabled service stays down.
BindAndLoad ==
    /\ web \in {"start", "restore"} /\ engine.id < MaxStarts
    /\ \/ web' = "loaded" /\ table' = Overlay
       \/ web' = (IF web = "start" THEN "restore" ELSE "idle") /\ UNCHANGED table
       \/ web = "start" /\ web' = "idle" /\ UNCHANGED table
    /\ disturbed' = (disturbed \/ (web' = "loaded" /\ device_lock # None))
    /\ UNCHANGED <<config, db, lock, device_lock, manager, engine, pending, connected, cmds,
                   answered, admin, shakes, kind>>

\* The engine is spawned with what was read, and its handle published.
PublishEngine ==
    /\ web = "loaded" /\ web' = "idle"
    /\ engine' = [engine EXCEPT !.id = @ + 1, !.pc = "idle"]
    /\ manager' = engine.id + 1
    /\ UNCHANGED <<config, db, lock, device_lock, table, pending, connected, cmds, answered,
                   admin, rest>>

WebStep == WebAnswered \/ BindAndLoad \/ PublishEngine
-----------------------------------------------------------------------------
\* The service runs, and the rows, the states and the engine agree.
Init ==
    /\ config \in [Devices -> Vals \cup {None}]
    /\ db = config /\ table = config
    /\ lock = None /\ device_lock = None
    /\ engine = [id |-> 1, pc |-> "idle", dev |-> None, req |-> None, cap |-> None]
    /\ manager = 1
    /\ pending = Empty /\ connected = Empty
    /\ cmds = <<>> /\ answered = {}
    /\ admin = [a \in Admins |-> [pc |-> "ready", op |-> "upsert", dev |-> None,
                                  val |-> None, prev |-> None, engine |-> 0]]
    /\ web = "idle" /\ shakes = 0
    /\ kind \in Kinds /\ disturbed = FALSE

Next ==
    \/ EngineStep
    \/ \E a \in Admins : BeginEdit(a) \/ AdminStep(a)
    \/ ClientLock \/ ClientUnlock
    \/ WithdrawEngine \/ ReloadSettings \/ WebStep

Spec == Init /\ [][Next]_vars

\* Every task that can go on does: the runtime polls every ready task, a client that
\* holds the lock finishes its write, tokio's mutex serves its waiters in turn and
\* select! eventually takes a ready command.  Nobody has to connect or to edit.
Fairness ==
    /\ SF_vars(RegisterSession) /\ SF_vars(HandleCommand)
    /\ WF_vars(ClientUnlock) /\ WF_vars(WebStep)
    /\ \A a \in Admins : SF_vars(AdminStep(a))

FairSpec == Spec /\ Fairness
-----------------------------------------------------------------------------
Actors == Admins \cup {Web}
Configs == [Devices -> Vals \cup {None}]

\* The type invariant.
TypeOK ==
    /\ {config, db, table, pending, connected} \subseteq Configs
    /\ lock \in Admins \cup {Client, None} /\ device_lock \in Admins \cup {None}
    /\ manager \in 1 .. MaxStarts \cup {None}
    /\ engine \in [id : 1 .. MaxStarts, pc : {"off", "idle", "registering"},
                   dev : Devices \cup {None}, req : Vals \cup {None}, cap : Vals \cup {None}]
    /\ cmds \in Seq([from : Actors, op : {"disconnect", "reload", "reconfigure", "shutdown"},
                     dev : Devices \cup {None}, table : Configs])
    /\ answered \subseteq Actors
    /\ admin \in [Admins -> AdminRequest]
    /\ web \in {"idle", "stopping", "reconfiguring", "start", "restore", "loaded"}
    /\ shakes \in 0 .. MaxShakes
    /\ kind \in Kinds /\ disturbed \in BOOLEAN

\* No edit is under way and the published engine serves.
Settled == device_lock = None /\ manager # None /\ Alive(manager)

\* README.md: a device that was created beforehand can complete a handshake, an
\* unknown key cannot.  So whenever no edit is under way, the table of the serving
\* engine is what the rows and the states say.  (Neither this nor the next holds after
\* a failed write has met a handshake, or a start of the service an edit.)
EngineTableCurrent == Settled /\ ~disturbed => table = Overlay

\* Once an edit is over, no WireGuard peer is still connected under a configuration
\* the edit replaced or removed: the engine compares a packet's destination with the
\* address it captured at the handshake.
NoStalePeer ==
    kind = "Wireguard" /\ Settled /\ ~disturbed =>
        \A d \in Devices : connected[d] # None => connected[d] = config[d]

\* A device's removal is refused while it is connected: once the edits are over,
\* every connected device still has a state in memory for its packets.
NoOrphanPeer ==
    device_lock = None => \A d \in Devices : Online(d) => config[d] # None

\* No caller waits for an answer that cannot come: its command is queued for an engine
\* that runs, or its receiver is ready, also when the service stops under an edit.
NoLostAnswer ==
    \A a \in Actors :
        (IF a = Web THEN web \in {"stopping", "reconfiguring"}
                    ELSE admin[a].pc \in {"kicked", "reloading"}) =>
            \/ a \in answered
            \/ engine.pc # "off" /\ \E i \in DOMAIN cmds : cmds[i].from = a

\* Every edit an administrator has begun comes to an end, as the WireGuard test does
\* that edits a device right after its handshake (wireguard.rs, update_device_with_password).
EditCompletes == \A a \in Admins : admin[a].pc = "lock" ~> admin[a].pc = "done"
=============================================================================
